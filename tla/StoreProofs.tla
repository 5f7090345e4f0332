----------------------------- MODULE StoreProofs -----------------------------
(***************************************************************************)
(* Theorems about what is walked and stored: the tree of IG's navigation,  *)
(* prices, filtered markets and transactions, for any processes, rows,     *)
(* answers and databases.                                                  *)
(***************************************************************************)
EXTENDS MarketDatabase, TransactionSync, PriceStore, FilteredMarkets,
        FiniteSetTheorems, SequenceTheorems, WellFoundedInduction, TLAPS

-----------------------------------------------------------------------------
(* Numbers and finite sets of them.                                        *)

LessThan == {pair \in Nat \X Nat : pair[1] < pair[2]}

\* A set of numbers has a least one.
LEMMA LeastOf ==
  ASSUME NEW T \in SUBSET Nat, T # {}
  PROVE  \E x \in T : \A y \in T : x <= y
  <1>1. OpToRel(<, Nat) = LessThan
    BY DEF OpToRel, LessThan
  <1>2. IsWellFoundedOn(LessThan, Nat)
    BY <1>1, NatLessThanWellFounded
  <1>3. PICK x \in T : \A y \in T : ~ (<<y, x>> \in LessThan)
    BY <1>2, WFMin
  <1>4. ASSUME NEW y \in T PROVE x <= y
    <2>1. x \in Nat /\ y \in Nat
      OBVIOUS
    <2>2. y < x => <<y, x>> \in LessThan
      BY <2>1 DEF LessThan
    <2> QED BY <1>3, <2>1, <2>2
  <1> QED BY <1>4

\* What holds of 0, and of n + 1 where it holds of n, holds of every number.
LEMMA FromZeroOn ==
  ASSUME NEW S \in SUBSET Nat, 0 \in S, \A n \in S : n + 1 \in S
  PROVE  S = Nat
  <1> SUFFICES ASSUME Nat \ S # {} PROVE FALSE
    OBVIOUS
  <1>1. PICK x \in Nat \ S : \A y \in Nat \ S : x <= y
    BY LeastOf
  <1>2. x - 1 \in S
    BY <1>1
  <1> QED BY <1>1, <1>2

\* The members of a set up to one of them.
UpTo(S, i) == {j \in S : j <= i}

Rank(S, i) == Cardinality(UpTo(S, i))

\* Ranks are places, and in the order of the members.
LEMMA RankFacts ==
  ASSUME NEW S \in SUBSET Int, IsFiniteSet(S)
  PROVE  /\ Cardinality(S) \in Nat
         /\ \A i \in S : Rank(S, i) \in 1 .. Cardinality(S)
         /\ \A i, k \in S : i < k => Rank(S, i) < Rank(S, k)
  <1>1. Cardinality(S) \in Nat
    BY FS_CardinalityType
  <1>2. ASSUME NEW i \in S
        PROVE  /\ IsFiniteSet(UpTo(S, i)) /\ i \in UpTo(S, i)
               /\ Rank(S, i) \in Nat /\ Rank(S, i) <= Cardinality(S) /\ Rank(S, i) # 0
    <2>1. UpTo(S, i) \in SUBSET S /\ i \in UpTo(S, i)
      BY DEF UpTo
    <2>2. IsFiniteSet(UpTo(S, i)) /\ Cardinality(UpTo(S, i)) <= Cardinality(S)
      BY <2>1, FS_Subset
    <2>3. Cardinality(UpTo(S, i)) \in Nat
      BY <2>2, FS_CardinalityType
    <2>4. Cardinality(UpTo(S, i)) # 0
      BY <2>1, <2>2, FS_EmptySet
    <2> QED BY <2>1, <2>2, <2>3, <2>4 DEF Rank
  <1>3. ASSUME NEW i \in S, NEW k \in S, i < k PROVE Rank(S, i) < Rank(S, k)
    <2>1. UpTo(S, i) \in SUBSET UpTo(S, k)
      <3>1. ASSUME NEW j \in S, j <= i PROVE j <= k
        <4>1. i \in Int /\ j \in Int /\ k \in Int
          OBVIOUS
        <4> QED BY <1>3, <3>1, <4>1
      <3> QED BY <3>1 DEF UpTo
    <2>2. k \in UpTo(S, k) /\ k \notin UpTo(S, i)
      BY <1>3 DEF UpTo
    <2>3. IsFiniteSet(UpTo(S, k)) /\ Cardinality(UpTo(S, i)) <= Cardinality(UpTo(S, k))
          /\ (Cardinality(UpTo(S, k)) = Cardinality(UpTo(S, i)) => UpTo(S, k) = UpTo(S, i))
      BY <1>2, <2>1, FS_Subset
    <2> QED BY <1>2, <2>2, <2>3 DEF Rank
  <1>4. ASSUME NEW i \in S PROVE Rank(S, i) \in 1 .. Cardinality(S)
    BY <1>1, <1>2
  <1> QED BY <1>1, <1>3, <1>4

\* Each place has its member.
LEMMA NthFacts ==
  ASSUME NEW S \in SUBSET Int, IsFiniteSet(S)
  PROVE  /\ \A n \in 1 .. Cardinality(S) : Nth(S, n) \in S /\ Rank(S, Nth(S, n)) = n
         /\ \A i \in S : Nth(S, Rank(S, i)) = i
         /\ \A m, n \in 1 .. Cardinality(S) : m < n => Nth(S, m) < Nth(S, n)
  <1> DEFINE N == 1 .. Cardinality(S)
             f == [i \in S |-> Rank(S, i)]
  <1>1. /\ Cardinality(S) \in Nat
        /\ \A i \in S : Rank(S, i) \in N
        /\ \A i, k \in S : i < k => Rank(S, i) < Rank(S, k)
    BY RankFacts
  <1>2. \A i, k \in S : Rank(S, i) = Rank(S, k) => i = k
    <2> SUFFICES ASSUME NEW i \in S, NEW k \in S, Rank(S, i) = Rank(S, k), i # k
                 PROVE  FALSE
      OBVIOUS
    <2>1. i \in Int /\ k \in Int /\ Rank(S, i) \in Int /\ Rank(S, k) \in Int
      BY <1>1
    <2>2. i < k \/ k < i
      BY <2>1
    <2>3. Rank(S, i) < Rank(S, k) \/ Rank(S, k) < Rank(S, i)
      BY <1>1, <2>2
    <2> QED BY <2>1, <2>3
  <1>3. f \in Injection(S, N)
    <2>1. f \in [S -> N]
      BY <1>1
    <2>2. \A i, k \in S : f[i] = f[k] => i = k
      BY <1>2
    <2> HIDE DEF f
    <2>3. DOMAIN f = S
      BY <2>1
    <2> QED BY <2>1, <2>2, <2>3 DEF Injection, IsInjective
  <1>4. IsFiniteSet(N) /\ Cardinality(N) = Cardinality(S)
    <2>1. IsFiniteSet(1 .. Cardinality(S))
          /\ Cardinality(1 .. Cardinality(S)) = IF 1 > Cardinality(S) THEN 0 ELSE Cardinality(S) - 1 + 1
      BY <1>1, FS_Interval
    <2> QED BY <1>1, <2>1
  <1>5. f \in Surjection(S, N)
    <2> HIDE DEF f, N
    <2> QED BY <1>3, <1>4, FS_Injection
  <1>6. ASSUME NEW n \in N PROVE Nth(S, n) \in S /\ Rank(S, Nth(S, n)) = n
    <2>1. \E i \in S : f[i] = n
      <3> HIDE DEF f, N
      <3> QED BY <1>5 DEF Surjection
    <2>2. \E i \in S : Rank(S, i) = n
      BY <2>1
    <2> QED BY <2>2 DEF Nth, Rank, UpTo
  <1>7. ASSUME NEW i \in S PROVE Nth(S, Rank(S, i)) = i
    <2>1. Rank(S, i) \in N
      BY <1>1
    <2>2. Nth(S, Rank(S, i)) \in S /\ Rank(S, Nth(S, Rank(S, i))) = Rank(S, i)
      BY <1>6, <2>1
    <2> QED BY <1>2, <2>2
  <1>8. ASSUME NEW m \in N, NEW n \in N, m < n PROVE Nth(S, m) < Nth(S, n)
    <2>a. /\ Nth(S, m) \in S /\ Nth(S, n) \in S
          /\ Rank(S, Nth(S, m)) = m /\ Rank(S, Nth(S, n)) = n
      BY <1>6
    <2>b. m \in Int /\ n \in Int
      BY <1>1
    <2>1. /\ Nth(S, m) \in Int /\ Nth(S, n) \in Int /\ Nth(S, m) \in S /\ Nth(S, n) \in S
          /\ Rank(S, Nth(S, m)) = m /\ Rank(S, Nth(S, n)) = n /\ m \in Int /\ n \in Int
      BY <2>a, <2>b
    <2>2. Nth(S, n) < Nth(S, m) => n < m
      BY <1>1, <2>1
    <2>3. Nth(S, n) # Nth(S, m)
      BY <1>8, <2>1
    <2> QED BY <1>8, <2>1, <2>2, <2>3
  <1> QED BY <1>6, <1>7, <1>8

\* The least of a set of numbers is in it.
LEMMA MinIs ==
  ASSUME NEW T \in SUBSET Nat, T # {}
  PROVE  Min(T) \in T /\ \A y \in T : Min(T) <= y
  BY LeastOf DEF Min

-----------------------------------------------------------------------------
(* The walk of IG's navigation.                                            *)

\* A set of places up to n, and the m places that follow.
With(P, n, m) == P \cup (n + 1 .. n + m)

LEMMA PlacesFollow ==
  ASSUME NEW n \in Nat, NEW m \in Nat, NEW P \in SUBSET (1 .. n)
  PROVE  /\ Cardinality(P) \in Nat /\ Cardinality(With(P, n, m)) = Cardinality(P) + m
         /\ \A k \in 1 .. Cardinality(P) : Nth(With(P, n, m), k) = Nth(P, k) /\ Nth(P, k) \in P
         /\ \A k \in 1 .. m : Nth(With(P, n, m), Cardinality(P) + k) = n + k
  <1> DEFINE Q == With(P, n, m)
  <1>0. Q = P \cup (n + 1 .. n + m)
    BY DEF With
  <1> HIDE DEF Q
  <1>1. IsFiniteSet(P) /\ P \in SUBSET Int
    <2>1. 1 \in Int /\ n \in Int
      OBVIOUS
    <2>2. IsFiniteSet(1 .. n)
      BY ONLY <2>1, FS_Interval
    <2>3. IsFiniteSet(P)
      BY <2>2, FS_Subset
    <2>4. P \subseteq Int
      OBVIOUS
    <2> QED BY <2>3, <2>4
  <1>2. PICK c \in Nat : c = Cardinality(P)
    BY <1>1, FS_CardinalityType
  <1>3. ASSUME NEW k \in 0 .. m
        PROVE  IsFiniteSet(P \cup (n + 1 .. n + k)) /\ Cardinality(P \cup (n + 1 .. n + k)) = c + k
    <2>1. IsFiniteSet(n + 1 .. n + k) /\ Cardinality(n + 1 .. n + k) = k
      <3>1. n + 1 \in Int /\ n + k \in Int
        OBVIOUS
      <3>2. /\ IsFiniteSet(n + 1 .. n + k)
            /\ Cardinality(n + 1 .. n + k) = IF n + 1 > n + k THEN 0 ELSE n + k - (n + 1) + 1
        BY ONLY <3>1, FS_Interval
      <3> QED BY <3>2
    <2>2. P \cap (n + 1 .. n + k) = {}
      OBVIOUS
    <2>3. Cardinality({}) = 0
      BY FS_EmptySet
    <2>4. PICK W : W = n + 1 .. n + k
      OBVIOUS
    <2>5. IsFiniteSet(W) /\ Cardinality(W) = k /\ P \cap W = {}
      BY <2>1, <2>2, <2>4
    <2>6. /\ IsFiniteSet(P \cup W)
          /\ Cardinality(P \cup W) = Cardinality(P) + Cardinality(W) - Cardinality(P \cap W)
      BY ONLY <1>1, <2>5, FS_Union
    <2>7. Cardinality(P \cup W) = c + k - 0
      BY ONLY <1>2, <2>3, <2>5, <2>6
    <2>8. c + k - 0 = c + k
      OBVIOUS
    <2> QED BY <2>4, <2>6, <2>7, <2>8
  <1>4. IsFiniteSet(Q) /\ Cardinality(Q) = c + m /\ Q \in SUBSET Int
    <2>1. m \in 0 .. m
      OBVIOUS
    <2>2. IsFiniteSet(P \cup (n + 1 .. n + m)) /\ Cardinality(P \cup (n + 1 .. n + m)) = c + m
      BY ONLY <1>3, <2>1
    <2>3. Q \subseteq Int
      BY <1>0
    <2> QED BY <1>0, <2>2, <2>3
  <1>5. \A x \in P : UpTo(Q, x) = UpTo(P, x)
    BY <1>0 DEF UpTo
  <1>6. \A x \in Q : Nth(Q, Rank(Q, x)) = x
    BY <1>4, NthFacts
  <1>7. /\ \A k \in 1 .. Cardinality(P) : Nth(P, k) \in P /\ Rank(P, Nth(P, k)) = k
    BY <1>1, NthFacts
  <1>8. ASSUME NEW k \in 1 .. Cardinality(P) PROVE Nth(Q, k) = Nth(P, k)
    <2>1. PICK x \in P : x = Nth(P, k)
      BY <1>7
    <2>2. Rank(Q, x) = k
      BY <1>5, <1>7, <2>1 DEF Rank
    <2> QED BY <1>0, <1>6, <2>1, <2>2
  <1>9. ASSUME NEW k \in 1 .. m PROVE Nth(Q, c + k) = n + k
    <2>1. UpTo(Q, n + k) = P \cup (n + 1 .. n + k)
      <3>1. \A x \in P : x <= n + k
        OBVIOUS
      <3>2. \A x \in n + 1 .. n + m : x <= n + k <=> x \in n + 1 .. n + k
        OBVIOUS
      <3>3. n + 1 .. n + k \subseteq n + 1 .. n + m
        OBVIOUS
      <3> QED BY <1>0, <3>1, <3>2, <3>3 DEF UpTo
    <2>2. Rank(Q, n + k) = c + k
      BY <1>3, <2>1 DEF Rank
    <2>3. n + k \in Q
      BY <1>0
    <2> QED BY <1>6, <2>2, <2>3
  <1> QED BY <1>2, <1>4, <1>7, <1>8, <1>9 DEF Q

\* The ids at a set of places of a tree, in its order.
IdsAt(tree, places) ==
  [n \in 1 .. Cardinality(places) |-> tree[Nth(places, n)].id]

LEMMA NoIds == \A tree : IdsAt(tree, {}) = <<>>
  <1>1. Cardinality({}) = 0
    BY FS_EmptySet
  <1>2. TAKE tree
  <1>3. IdsAt(tree, {}) = [n \in 1 .. 0 |-> tree[Nth({}, n)].id]
    BY <1>1 DEF IdsAt
  <1>4. 1 .. 0 = {}
    OBVIOUS
  <1>5. IdsAt(tree, {}) = [n \in {} |-> tree[Nth({}, n)].id]
    BY <1>3, <1>4
  <1> QED BY <1>5

LEMMA IdsOfIs == \A places : IdsOf(places) = IdsAt(found, places)
  BY DEF IdsOf, IdsAt, Nth, Rank, UpTo

\* (A name, because the provers take an equality with \o apart.)
Chained(first, second) == first \o second

\* A tree of n entries to which others are added, with the ids of s.
Longer(t, u, n, s) ==
  /\ \A j \in 1 .. n : t[j].id \in Ids /\ u[j].id = t[j].id
  /\ s \in Seq(Ids)
  /\ \A k \in 1 .. Len(s) : u[n + k].id = s[k]

\* A tree that goes on, and places that get none of the new ones or all of them.
LEMMA IdsFollow ==
  ASSUME NEW t, NEW u, NEW n \in Nat, NEW s, Longer(t, u, n, s)
  PROVE  \A P \in SUBSET (1 .. n) :
           /\ IdsAt(t, P) \in Seq(Ids) /\ IdsAt(u, P) = IdsAt(t, P)
           /\ IdsAt(u, With(P, n, Len(s))) = Chained(IdsAt(t, P), s)
  <1> TAKE P \in SUBSET (1 .. n)
  <1>m. PICK m \in Nat : m = Len(s)
    BY DEF Longer
  <1> DEFINE Q == With(P, n, m)
             a == IdsAt(t, P)
             b == IdsAt(u, Q)
  <1>0. /\ \A j \in 1 .. n : t[j].id \in Ids /\ u[j].id = t[j].id
        /\ s \in Seq(Ids) /\ Len(s) = m
        /\ \A k \in 1 .. m : u[n + k].id = s[k]
    BY <1>m DEF Longer
  <1>1. PICK c \in Nat : c = Cardinality(P)
    BY PlacesFollow
  <1>2. /\ Cardinality(Q) = c + m
        /\ \A k \in 1 .. c : Nth(Q, k) = Nth(P, k) /\ Nth(P, k) \in P
        /\ \A k \in 1 .. m : Nth(Q, c + k) = n + k
    BY <1>1, PlacesFollow
  <1>3. a = [k \in 1 .. c |-> t[Nth(P, k)].id]
    BY <1>1 DEF IdsAt
  <1>4. b = [k \in 1 .. c + m |-> u[Nth(Q, k)].id]
    BY <1>2 DEF IdsAt
  <1>5. IdsAt(u, P) = [k \in 1 .. c |-> u[Nth(P, k)].id]
    BY <1>1 DEF IdsAt
  <1> HIDE DEF Q, a, b
  <1>6. \A k \in 1 .. c : /\ t[Nth(P, k)].id \in Ids
                          /\ u[Nth(P, k)].id = t[Nth(P, k)].id
    BY <1>0, <1>2
  <1>7. a \in Seq(Ids) /\ Len(a) = c /\ \A k \in 1 .. c : a[k] = t[Nth(P, k)].id
    BY <1>1, <1>3, <1>6
  <1>8. IdsAt(u, P) = a
    BY <1>3, <1>5, <1>6
  <1>9. b = a \o s
    <2>1. /\ a \o s \in Seq(Ids) /\ Len(a \o s) = c + m
          /\ \A k \in 1 .. c + m : (a \o s)[k] = IF k <= c THEN a[k] ELSE s[k - c]
      BY <1>0, <1>7, ConcatProperties
    <2>2. \A k \in 1 .. c + m : b[k] = u[Nth(Q, k)].id
      BY <1>4
    <2>3. ASSUME NEW k \in 1 .. c + m PROVE b[k] = (a \o s)[k]
      <3>1. CASE k <= c
        <4>1. k \in 1 .. c
          BY <3>1
        <4>2. b[k] = u[Nth(P, k)].id
          BY <1>2, <2>2, <4>1
        <4> QED BY <1>6, <1>7, <2>1, <3>1, <4>1, <4>2
      <3>2. CASE ~ (k <= c)
        <4>1. PICK l \in 1 .. m : k = c + l
          <5>1. k - c \in 1 .. m /\ k = c + (k - c)
            BY <3>2
          <5> QED BY <5>1
        <4>2. b[k] = u[n + l].id
          BY <1>2, <2>2, <4>1
        <4>3. (a \o s)[k] = s[l]
          BY <2>1, <3>2, <4>1
        <4> QED BY <1>0, <4>2, <4>3
      <3> QED BY <3>1, <3>2
    <2>4. b = [k \in 1 .. c + m |-> b[k]]
      BY <1>4
    <2>5. PICK r \in Seq(Ids) : r = a \o s
      BY <2>1
    <2>6. Len(r) = c + m
      BY <2>1, <2>5
    <2>7. r = [k \in 1 .. c + m |-> r[k]]
      <3>1. r \in [1 .. Len(r) -> Ids]
        BY LenProperties
      <3> QED BY <2>6, <3>1
    <2>8. \A k \in 1 .. c + m : b[k] = r[k]
      BY <2>3, <2>5
    <2> QED BY <2>4, <2>5, <2>7, <2>8, Zenon
  <1> QED BY <1>m, <1>7, <1>8, <1>9 DEF a, b, Q, Chained

\* How deep the children of the i-th entry of a tree stand; those of the walk's root on top.
Deep(tree, i) == IF i = 0 THEN 0 ELSE tree[i].level + 1

\* Its children so far, and whether more may follow.
KidsOf(tree, i) ==
  {j \in i + 1 .. Len(tree) :
     tree[j].level = Deep(tree, i) /\ \A k \in i + 1 .. j : Deep(tree, i) <= tree[k].level}

Trailing(tree, i) == \A k \in i + 1 .. Len(tree) : Deep(tree, i) <= tree[k].level

\* A tree to which entries of one level are added.
Grows(t, u, s, d) ==
  /\ Len(t) \in Nat /\ s \in Seq(Ids) /\ Len(u) = Len(t) + Len(s)
  /\ \A j \in 1 .. Len(t) : /\ t[j].id \in Ids /\ t[j].level \in Nat
                           /\ u[j].id = t[j].id /\ u[j].level = t[j].level
  /\ \A k \in 1 .. Len(s) : u[Len(t) + k].id = s[k] /\ u[Len(t) + k].level = d

\* ... what becomes of the children of each entry.
Follows(t, u, s, d) ==
  /\ \A i \in 0 .. Len(t) :
       /\ IdsAt(t, KidsOf(t, i)) \in Seq(Ids) /\ Deep(u, i) = Deep(t, i)
       /\ IdsAt(u, KidsOf(u, i)) = IF Trailing(t, i) /\ Deep(t, i) = d
                                   THEN Chained(IdsAt(t, KidsOf(t, i)), s)
                                   ELSE IdsAt(t, KidsOf(t, i))
       /\ Trailing(u, i) <=> Trailing(t, i) /\ (s = <<>> \/ Deep(t, i) <= d)
  /\ \A i \in Len(t) + 1 .. Len(t) + Len(s) :
       Deep(u, i) = d + 1 /\ IdsAt(u, KidsOf(u, i)) = <<>>

LEMMA TreeFollows ==
  ASSUME NEW t, NEW u, NEW s, NEW d \in Nat, Grows(t, u, s, d)
  PROVE  Follows(t, u, s, d)
  <1>b. PICK n \in Nat, m \in Nat : n = Len(t) /\ m = Len(s)
    BY LenProperties DEF Grows
  <1>c. /\ Len(u) = n + m /\ s \in Seq(Ids)
        /\ \A j \in 1 .. n : /\ t[j].id \in Ids /\ t[j].level \in Nat
                           /\ u[j].id = t[j].id /\ u[j].level = t[j].level
        /\ \A k \in 1 .. m : u[n + k].id = s[k] /\ u[n + k].level = d
    BY <1>b DEF Grows
  <1>a. ASSUME NEW P \in SUBSET (1 .. n)
        PROVE  /\ IdsAt(t, P) \in Seq(Ids) /\ IdsAt(u, P) = IdsAt(t, P)
               /\ IdsAt(u, With(P, n, m)) = Chained(IdsAt(t, P), s)
    <2>1. Longer(t, u, n, s)
      BY <1>b, <1>c DEF Longer
    <2>2. /\ IdsAt(t, P) \in Seq(Ids) /\ IdsAt(u, P) = IdsAt(t, P)
          /\ IdsAt(u, With(P, n, Len(s))) = Chained(IdsAt(t, P), s)
      BY <2>1, IdsFollow
    <2> QED BY <1>b, <2>2
  <1>1. ASSUME NEW i \in 0 .. n
        PROVE  /\ IdsAt(t, KidsOf(t, i)) \in Seq(Ids) /\ Deep(u, i) = Deep(t, i)
               /\ IdsAt(u, KidsOf(u, i)) = IF Trailing(t, i) /\ Deep(t, i) = d
                                           THEN Chained(IdsAt(t, KidsOf(t, i)), s)
                                           ELSE IdsAt(t, KidsOf(t, i))
               /\ Trailing(u, i) <=> Trailing(t, i) /\ (m = 0 \/ Deep(t, i) <= d)
    <2>1. PICK e \in Nat : e = Deep(t, i) /\ e = Deep(u, i)
      <3>1. CASE i = 0
        BY <3>1 DEF Deep
      <3>2. CASE i # 0
        <4>1. i \in 1 .. n
          BY <3>2
        <4>2. PICK l \in Nat : l = t[i].level /\ l = u[i].level
          BY <1>c, <4>1
        <4> QED BY <3>2, <4>2 DEF Deep
      <3> QED BY <3>1, <3>2
    <2>2. KidsOf(t, i) \in SUBSET (1 .. n)
      BY <1>b DEF KidsOf
    <2>3. PICK P \in SUBSET (1 .. n) : P = KidsOf(t, i)
      BY <2>2
    <2>4. P = {j \in i + 1 .. n : t[j].level = e /\ \A k \in i + 1 .. j : e <= t[k].level}
      BY <1>b, <2>1, <2>3 DEF KidsOf
    <2>5. KidsOf(u, i) = {j \in i + 1 .. n + m :
                            u[j].level = e /\ \A k \in i + 1 .. j : e <= u[k].level}
      BY <1>b, <1>c, <2>1 DEF KidsOf
    <2>6. Trailing(t, i) <=> \A k \in i + 1 .. n : e <= t[k].level
      BY <1>b, <2>1 DEF Trailing
    <2>7. Trailing(u, i) <=> \A k \in i + 1 .. n + m : e <= u[k].level
      BY <1>b, <1>c, <2>1 DEF Trailing
    <2>8. \A j \in i + 1 .. n : u[j].level = t[j].level
      BY <1>c
    <2>9. \A j \in n + 1 .. n + m : u[j].level = d
      <3>1. ASSUME NEW j \in n + 1 .. n + m PROVE u[j].level = d
        <4>1. PICK k \in 1 .. m : j = n + k
          <5>1. j - n \in 1 .. m /\ j = n + (j - n)
            OBVIOUS
          <5> QED BY <5>1
        <4> QED BY <1>c, <4>1
      <3> QED BY <3>1
    <2>10. Trailing(u, i) <=> Trailing(t, i) /\ (m = 0 \/ e <= d)
      <3>1. ASSUME Trailing(u, i) PROVE Trailing(t, i) /\ (m = 0 \/ e <= d)
        <4>1. Trailing(t, i)
          <5>1. \A k \in i + 1 .. n : k \in i + 1 .. n + m
            OBVIOUS
          <5> QED BY <2>6, <2>7, <2>8, <3>1, <5>1
        <4>2. CASE m # 0
          <5>1. n + 1 \in i + 1 .. n + m /\ n + 1 \in n + 1 .. n + m
            BY <4>2
          <5> QED BY <2>7, <2>9, <3>1, <4>1, <5>1
        <4> QED BY <4>1, <4>2
      <3>2. ASSUME Trailing(t, i), m = 0 \/ e <= d PROVE Trailing(u, i)
        <4>1. ASSUME NEW k \in i + 1 .. n + m PROVE e <= u[k].level
          <5>1. k \in i + 1 .. n \/ (k \in n + 1 .. n + m /\ m # 0)
            OBVIOUS
          <5> QED BY <2>6, <2>8, <2>9, <3>2, <5>1
        <4> QED BY <2>7, <4>1
      <3> QED BY <3>1, <3>2
    <2>11. CASE Trailing(t, i) /\ e = d
      <3>1. KidsOf(u, i) = With(P, n, m)
        <4>1. ASSUME NEW j \in KidsOf(u, i) PROVE j \in With(P, n, m)
          <5>1. CASE j \in n + 1 .. n + m
            BY <5>1 DEF With
          <5>2. CASE j \in i + 1 .. n
            <6>1. \A k \in i + 1 .. j : k \in i + 1 .. n
              BY <5>2
            <6> QED BY <2>4, <2>5, <2>8, <5>2, <6>1 DEF With
          <5> QED BY <2>5, <5>1, <5>2
        <4>2. ASSUME NEW j \in With(P, n, m) PROVE j \in KidsOf(u, i)
          <5>1. Trailing(u, i)
            BY <2>10, <2>11
          <5>2. j \in i + 1 .. n + m /\ u[j].level = e
            <6>1. CASE j \in P
              <7>1. j \in i + 1 .. n
                BY <2>4, <6>1
              <7>2. u[j].level = e
                BY <2>4, <2>8, <6>1, <7>1
              <7> QED BY <7>1, <7>2
            <6>2. CASE j \in n + 1 .. n + m
              BY <2>9, <2>11, <6>2
            <6> QED BY <6>1, <6>2 DEF With
          <5>3. \A k \in i + 1 .. j : k \in i + 1 .. n + m
            BY <5>2
          <5> QED BY <2>5, <2>7, <5>1, <5>2, <5>3
        <4> QED BY <4>1, <4>2
      <3>2. IdsAt(t, P) \in Seq(Ids) /\ IdsAt(u, With(P, n, m)) = Chained(IdsAt(t, P), s)
        BY <1>a
      <3> QED BY <2>1, <2>3, <2>10, <2>11, <3>1, <3>2
    <2>12. CASE ~ (Trailing(t, i) /\ e = d)
      <3>1. KidsOf(u, i) = P
        <4>1. ASSUME NEW j \in KidsOf(u, i) PROVE j \in P
          <5>1. j \in i + 1 .. n + m /\ u[j].level = e /\ \A k \in i + 1 .. j : e <= u[k].level
            BY <2>5
          <5>2. j \in i + 1 .. n
            <6>1. SUFFICES ASSUME j \in n + 1 .. n + m PROVE FALSE
              BY <5>1
            <6>2. e = d
              BY <2>9, <5>1, <6>1
            <6>3. \A k \in i + 1 .. n : k \in i + 1 .. j
              BY <6>1
            <6>4. Trailing(t, i)
              BY <2>6, <2>8, <5>1, <6>3
            <6> QED BY <2>12, <6>2, <6>4
          <5>3. \A k \in i + 1 .. j : k \in i + 1 .. n
            BY <5>2
          <5> QED BY <2>4, <2>8, <5>1, <5>2, <5>3
        <4>2. ASSUME NEW j \in P PROVE j \in KidsOf(u, i)
          <5>1. j \in i + 1 .. n /\ t[j].level = e /\ \A k \in i + 1 .. j : e <= t[k].level
            BY <2>4
          <5>2. j \in i + 1 .. n + m /\ \A k \in i + 1 .. j : k \in i + 1 .. n
            BY <5>1
          <5> QED BY <2>5, <2>8, <5>1, <5>2
        <4> QED BY <4>1, <4>2
      <3>2. IdsAt(t, P) \in Seq(Ids) /\ IdsAt(u, P) = IdsAt(t, P)
        BY <1>a
      <3> QED BY <2>1, <2>3, <2>10, <2>12, <3>1, <3>2
    <2> QED BY <2>11, <2>12
  <1>2. ASSUME NEW i \in n + 1 .. n + m
        PROVE  Deep(u, i) = d + 1 /\ IdsAt(u, KidsOf(u, i)) = <<>>
    <2>1. \A j \in i .. n + m : u[j].level = d
      <3>1. ASSUME NEW j \in i .. n + m PROVE u[j].level = d
        <4>1. PICK k \in 1 .. m : j = n + k
          <5>1. j - n \in 1 .. m /\ j = n + (j - n)
            OBVIOUS
          <5> QED BY <5>1
        <4> QED BY <1>c, <4>1
      <3> QED BY <3>1
    <2>2. Deep(u, i) = d + 1
      BY <2>1 DEF Deep
    <2>3. KidsOf(u, i) = {}
      BY <1>c, <2>1, <2>2 DEF KidsOf
    <2> QED BY <2>2, <2>3, NoIds
  <1>3. m = 0 <=> s = <<>>
    BY <1>b, <1>c, EmptySeq
  <1> QED BY <1>b, <1>1, <1>2, <1>3 DEF Follows

TreeEntries == [id : Ids, level : Nat, kind : Kinds]

\* All that is listed: the nodes, then the markets.
Whole(listing) == listing.nodes \o listing.markets

\* What of an entry's listing is still to be processed, with the listings per level.
RestIn(tree, levels, i) ==
  IF Trailing(tree, i) /\ Deep(tree, i) < Len(levels)
  THEN Whole(levels[Deep(tree, i) + 1])
  ELSE <<>>

\* What the tree has to show below an entry in the end.
OwedIn(nav, tree, i) ==
  IF i = 0 THEN Whole(nav[Root])
  ELSE IF tree[i].kind = "node" /\ tree[i].level < MaxDepth
       THEN Whole(nav[tree[i].id])
       ELSE <<>>

AccountsFor(nav, tree, levels, i) ==
  Chained(IdsAt(tree, KidsOf(tree, i)), RestIn(tree, levels, i)) = OwedIn(nav, tree, i)

LEMMA OwedSame ==
  ASSUME NEW nav, NEW t, NEW u, NEW n \in Nat, NEW i \in 0 .. n,
         \A j \in 1 .. n : u[j].id = t[j].id /\ u[j].level = t[j].level /\ u[j].kind = t[j].kind
  PROVE  OwedIn(nav, u, i) = OwedIn(nav, t, i)
  <1>1. CASE i = 0
    BY <1>1 DEF OwedIn
  <1>2. CASE i # 0
    <2>1. i \in 1 .. n
      BY <1>2
    <2>2. u[i].id = t[i].id /\ u[i].level = t[i].level /\ u[i].kind = t[i].kind
      BY <2>1
    <2> QED BY <1>2, <2>2 DEF OwedIn
  <1> QED BY <1>1, <1>2

LEMMA ChainTail ==
  ASSUME NEW a \in Seq(Ids), NEW listed \in Seq(Nodes), listed # <<>>, NEW k \in Seq(Markets)
  PROVE  Chained(Chained(a, <<Head(listed)>>), Tail(listed) \o k) = Chained(a, listed \o k)
  <1>1. PICK h \in Nodes, q \in Seq(Nodes) : h = Head(listed) /\ q = Tail(listed)
    BY HeadTailProperties
  <1>2. PICK b \in Seq(Ids) : b = <<h>>
    <2>1. <<h>> \in Seq(Nodes) /\ Nodes \subseteq Ids
      BY DEF Ids
    <2> QED BY <2>1, SeqMonotonic
  <1>3. q \in Seq(Ids) /\ k \in Seq(Ids) /\ listed \in Seq(Ids)
    BY <1>1, SeqMonotonic DEF Ids
  <1>4. b \o q = listed
    <2>1. PICK n \in Nat : n + 1 = Len(listed) /\ n = Len(q)
      <3>1. Len(listed) \in Nat \ {0}
        BY EmptySeq
      <3>2. Len(q) = Len(listed) - 1
        BY <1>1, HeadTailProperties
      <3>3. Len(listed) - 1 \in Nat /\ (Len(listed) - 1) + 1 = Len(listed)
        BY <3>1
      <3> QED BY <3>2, <3>3
    <2>2. \A j \in 1 .. n : q[j] = listed[j + 1]
      BY <1>1, <2>1, HeadTailProperties
    <2>3. listed[1] = h /\ Len(b) = 1 /\ b[1] = h
      BY <1>1, <1>2
    <2>4. /\ b \o q \in Seq(Ids) /\ Len(b \o q) = Len(b) + Len(q)
          /\ \A j \in 1 .. Len(b) + Len(q) : (b \o q)[j] = IF j <= Len(b) THEN b[j] ELSE q[j - Len(b)]
      BY <1>2, <1>3, ConcatProperties
    <2>5. PICK r \in Seq(Ids) : r = b \o q
      BY <2>4
    <2>6. Len(r) = n + 1 /\ \A j \in 1 .. n + 1 : r[j] = IF j <= 1 THEN h ELSE q[j - 1]
      BY <2>1, <2>3, <2>4, <2>5
    <2>7. ASSUME NEW j \in 1 .. n + 1 PROVE r[j] = listed[j]
      <3>1. CASE j = 1
        BY <2>3, <2>6, <3>1
      <3>2. CASE j # 1
        <4>1. j - 1 \in 1 .. n /\ j = (j - 1) + 1 /\ ~ (j <= 1)
          BY <3>2
        <4>2. q[j - 1] = listed[(j - 1) + 1]
          BY <2>2, <4>1
        <4> QED BY <2>6, <4>1, <4>2
      <3> QED BY <3>1, <3>2
    <2>8. r = listed
      BY <1>3, <2>1, <2>6, <2>7, SeqEqual
    <2> QED BY <2>5, <2>8
  <1>5. (a \o b) \o (q \o k) = a \o (b \o (q \o k))
    <2>1. PICK r \in Seq(Ids) : r = q \o k
      BY <1>3, ConcatProperties
    <2>2. a \in Seq(Ids) /\ b \in Seq(Ids) /\ r \in Seq(Ids)
      OBVIOUS
    <2>3. (a \o b) \o r = a \o (b \o r)
      BY ONLY <2>2, ConcatAssociative
    <2> QED BY <2>1, <2>3
  <1>6. b \o (q \o k) = (b \o q) \o k
    <2>1. PICK y \in Seq(Ids), z \in Seq(Ids) : y = q /\ z = k
      BY <1>3
    <2>2. (b \o y) \o z = b \o (y \o z)
      BY ConcatAssociative
    <2> QED BY ONLY <2>1, <2>2, Zenon
  <1> QED BY <1>1, <1>2, <1>4, <1>5, <1>6 DEF Chained

\* Each entry that is accounted for stays so.
GoesOn(t, v, u, w) ==
  \A nav : \A i \in 0 .. Len(t) : AccountsFor(nav, t, v, i) => AccountsFor(nav, u, w, i)

\* The last entry has nothing below it yet, and nothing that is to be processed.
LastIsNew(t, v, u, w) ==
  /\ IdsAt(u, KidsOf(u, Len(t) + 1)) = <<>> /\ RestIn(u, w, Len(t) + 1) = <<>>
  /\ Deep(u, Len(t) + 1) = Len(v)

\* A node is listed under the level that is worked through, or below none that is left.
LEMMA TreeDescends ==
  ASSUME NEW t \in Seq(TreeEntries), NEW v \in Seq(Listings), v # <<>>,
         NEW listed, listed = v[Len(v)].nodes, listed # <<>>,
         NEW u, u = Append(t, [id |-> Head(listed), level |-> Len(v) - 1, kind |-> "node"]),
         NEW w, w = [v EXCEPT ![Len(v)].nodes = Tail(listed)]
  PROVE  GoesOn(t, v, u, w) /\ LastIsNew(t, v, u, w)
  <1>1. PICK n \in Nat, c \in Nat : n = Len(t) /\ c + 1 = Len(v)
    <2>1. Len(t) \in Nat /\ Len(v) \in Nat \ {0}
      BY EmptySeq, LenProperties
    <2>2. Len(v) - 1 \in Nat /\ (Len(v) - 1) + 1 = Len(v)
      BY <2>1
    <2> QED BY <2>1, <2>2
  <1>2. v[c + 1] \in Listings /\ c + 1 \in 1 .. Len(v) /\ Len(v) - 1 = c
    <2>1. c + 1 \in 1 .. Len(v) /\ Len(v) - 1 = c
      BY <1>1
    <2> QED BY <2>1, ElementOfSeq
  <1>3. listed \in Seq(Nodes) /\ v[c + 1].markets \in Seq(Markets)
    BY <1>1, <1>2 DEF Listings
  <1>4. Head(listed) \in Nodes /\ Tail(listed) \in Seq(Nodes)
    BY <1>3, HeadTailProperties
  <1>5. PICK e \in TreeEntries : e = [id |-> Head(listed), level |-> c, kind |-> "node"]
    BY <1>4 DEF TreeEntries, Ids, Kinds
  <1>6. /\ u \in Seq(TreeEntries) /\ Len(u) = n + 1 /\ u[n + 1] = e
        /\ \A j \in 1 .. n : u[j] = t[j]
    BY <1>1, <1>2, <1>5, AppendProperties
  <1>7. /\ w \in Seq(Listings) /\ Len(w) = c + 1
        /\ w[c + 1] = [nodes |-> Tail(listed), markets |-> v[c + 1].markets]
        /\ \A j \in 1 .. c : w[j] = v[j]
    <2>1. PICK q \in Seq(Nodes) : q = Tail(listed)
      BY <1>4
    <2>2. PICK y \in Seq(Nodes), z \in Seq(Markets) : v[c + 1] = [nodes |-> y, markets |-> z]
      BY <1>2 DEF Listings
    <2>3. PICK x \in Listings : x = [nodes |-> q, markets |-> z]
      BY DEF Listings
    <2>4. [[nodes |-> y, markets |-> z] EXCEPT !.nodes = q] = x
      BY <2>3
    <2>5. w = [v EXCEPT ![c + 1] = x]
      BY <1>1, <1>2, <2>1, <2>2, <2>4
    <2>6. /\ [v EXCEPT ![c + 1] = x] \in Seq(Listings) /\ Len([v EXCEPT ![c + 1] = x]) = Len(v)
          /\ \A j \in 1 .. Len(v) : [v EXCEPT ![c + 1] = x][j] = IF j = c + 1 THEN x ELSE v[j]
      BY <1>2, ExceptSeq
    <2>7. /\ w \in Seq(Listings) /\ Len(w) = Len(v)
          /\ \A j \in 1 .. Len(v) : w[j] = IF j = c + 1 THEN x ELSE v[j]
      BY ONLY <2>5, <2>6, Zenon
    <2>8. \A j \in 1 .. c : j \in 1 .. Len(v) /\ j # c + 1
      BY <1>1
    <2>9. \A j \in 1 .. c : w[j] = v[j]
      BY ONLY <2>7, <2>8
    <2>10. w[c + 1] = x
      BY <1>2, <2>7
    <2>11. x = [nodes |-> Tail(listed), markets |-> v[c + 1].markets]
      BY <2>1, <2>2, <2>3
    <2> QED BY <1>1, <2>7, <2>9, <2>10, <2>11
  <1>8. PICK s \in Seq(Ids) : s = <<Head(listed)>>
    <2>1. PICK h \in Ids : h = Head(listed)
      BY <1>4 DEF Ids
    <2>2. <<h>> \in Seq(Ids)
      OBVIOUS
    <2> QED BY <2>1, <2>2
  <1>9. Len(s) = 1 /\ s[1] = Head(listed)
    BY <1>8
  <1>10. \A j \in 1 .. n : t[j] \in TreeEntries
    BY <1>1, ElementOfSeq
  <1>11. \A j \in 1 .. n : /\ t[j].id \in Ids /\ t[j].level \in Nat
                           /\ u[j].id = t[j].id /\ u[j].level = t[j].level
    BY <1>6, <1>10 DEF TreeEntries
  <1>12. \A k \in 1 .. 1 : u[n + k].id = s[k] /\ u[n + k].level = c
    BY <1>5, <1>6, <1>9
  <1>13. Grows(t, u, s, c)
    BY <1>1, <1>6, <1>9, <1>11, <1>12 DEF Grows
  <1>14. Follows(t, u, s, c)
    BY <1>13, TreeFollows
  <1>15. RestIn(u, w, n + 1) = <<>> /\ Deep(u, n + 1) = c + 1 /\ IdsAt(u, KidsOf(u, n + 1)) = <<>>
    <2>1. n + 1 \in n + 1 .. n + 1
      OBVIOUS
    <2>2. Deep(u, n + 1) = c + 1 /\ IdsAt(u, KidsOf(u, n + 1)) = <<>>
      BY <1>1, <1>9, <1>14, <2>1 DEF Follows
    <2> QED BY <1>7, <2>2 DEF RestIn
  <1>16. ASSUME NEW nav, NEW i \in 0 .. n, AccountsFor(nav, t, v, i) PROVE AccountsFor(nav, u, w, i)
    <2>1. OwedIn(nav, u, i) = OwedIn(nav, t, i)
      BY <1>6, OwedSame
    <2>2. PICK a \in Seq(Ids) : a = IdsAt(t, KidsOf(t, i))
      BY <1>1, <1>14 DEF Follows
    <2>3. /\ Deep(u, i) = Deep(t, i)
          /\ IdsAt(u, KidsOf(u, i)) = IF Trailing(t, i) /\ Deep(t, i) = c THEN Chained(a, s) ELSE a
          /\ Trailing(u, i) <=> Trailing(t, i) /\ Deep(t, i) <= c
      <3>1. s # <<>>
        <4>1. Len(s) # Len(<<>>)
          <5>1. Len(<<>>) = 0
            OBVIOUS
          <5> QED BY <1>9, <5>1
        <4> QED BY ONLY <4>1, Zenon
      <3>2. i \in 0 .. Len(t)
        BY <1>1
      <3> QED BY <1>14, <2>2, <3>1, <3>2 DEF Follows
    <2>4. PICK h \in Nat : h = Deep(t, i) /\ h = Deep(u, i)
      <3>1. Deep(t, i) \in Nat
        <4>1. CASE i = 0
          BY <4>1 DEF Deep
        <4>2. CASE i # 0
          <5>1. i \in 1 .. n
            BY <4>2
          <5>2. PICK l \in Nat : l = t[i].level
            BY <1>11, <5>1
          <5> QED BY <4>2, <5>2 DEF Deep
        <4> QED BY <4>1, <4>2
      <3> QED BY <2>3, <3>1
    <2>5. CASE Trailing(t, i) /\ h = c
      <3>1. RestIn(t, v, i) = listed \o v[c + 1].markets
        <4>1. RestIn(t, v, i) = Whole(v[c + 1])
          <5>1. Trailing(t, i) /\ Deep(t, i) = c /\ c < Len(v)
            BY <1>1, <1>2, <2>4, <2>5
          <5>2. Deep(t, i) < Len(v)
            BY ONLY <5>1, Zenon
          <5>3. RestIn(t, v, i) = Whole(v[Deep(t, i) + 1])
            BY ONLY <5>1, <5>2, Zenon DEF RestIn
          <5> QED BY ONLY <5>1, <5>3, Zenon
        <4> QED BY <1>1, <4>1 DEF Whole
      <3>2. RestIn(u, w, i) = Tail(listed) \o v[c + 1].markets
        <4>1. RestIn(u, w, i) = Whole(w[c + 1])
          <5>1. Trailing(u, i) /\ Deep(u, i) = c /\ c < Len(w)
            BY <1>7, <2>3, <2>4, <2>5
          <5>2. Deep(u, i) < Len(w)
            BY ONLY <5>1, Zenon
          <5>3. RestIn(u, w, i) = Whole(w[Deep(u, i) + 1])
            BY ONLY <5>1, <5>2, Zenon DEF RestIn
          <5> QED BY ONLY <5>1, <5>3, Zenon
        <4>2. w[c + 1].nodes = Tail(listed) /\ w[c + 1].markets = v[c + 1].markets
          BY <1>7
        <4> QED BY <4>1, <4>2 DEF Whole
      <3>3. Chained(Chained(a, s), Tail(listed) \o v[c + 1].markets)
              = Chained(a, listed \o v[c + 1].markets)
        BY <1>3, <1>8, ChainTail
      <3> QED BY <1>16, <2>1, <2>2, <2>3, <2>4, <2>5, <3>1, <3>2, <3>3 DEF AccountsFor
    <2>6. CASE ~ (Trailing(t, i) /\ h = c)
      <3>1. RestIn(u, w, i) = RestIn(t, v, i)
        <4>1. CASE Trailing(t, i) /\ h < c
          <5>1. Trailing(u, i) /\ h + 1 \in 1 .. c /\ h < Len(v) /\ h < Len(w)
            BY <1>1, <1>7, <2>3, <2>4, <4>1
          <5>2. w[h + 1] = v[h + 1]
            BY <1>7, <5>1
          <5> QED BY <2>4, <4>1, <5>1, <5>2 DEF RestIn
        <4>2. CASE ~ Trailing(t, i) \/ c < h
          <5>1. ~ Trailing(u, i)
            BY <2>3, <2>4, <4>2
          <5>2. ~ Trailing(t, i) \/ ~ (h < Len(v))
            BY <1>1, <4>2
          <5> QED BY <2>4, <5>1, <5>2 DEF RestIn
        <4> QED BY <2>6, <4>1, <4>2
      <3> QED BY <1>16, <2>1, <2>2, <2>3, <2>4, <2>6, <3>1 DEF AccountsFor
    <2> QED BY <2>5, <2>6
  <1> QED BY <1>1, <1>15, <1>16 DEF GoesOn, LastIsNew

LEMMA ChainEmpty ==
  ASSUME NEW a \in Seq(Ids)
  PROVE  Chained(a, <<>>) = a
  BY ConcatEmptySeq DEF Chained

LeavesTell(t, u, w) == \A nav : \A i \in Len(t) + 1 .. Len(u) : AccountsFor(nav, u, w, i)

\* The markets of a level are its leaves, and the level is done.
LEMMA TreeAscends ==
  ASSUME NEW t \in Seq(TreeEntries), NEW v \in Seq(Listings), NEW c \in Nat, c + 1 = Len(v),
         v[c + 1].nodes = <<>>, NEW listed, listed = v[c + 1].markets,
         NEW u, u = t \o [j \in DOMAIN listed |-> [id |-> listed[j], level |-> c, kind |-> "market"]],
         NEW w, w = SubSeq(v, 1, c)
  PROVE  GoesOn(t, v, u, w) /\ LeavesTell(t, u, w)
  <1>1. PICK n \in Nat : n = Len(t)
    BY LenProperties
  <1>2. v[c + 1] \in Listings
    BY ElementOfSeq
  <1>3. listed \in Seq(Markets) /\ listed \in Seq(Ids)
    <2>1. listed \in Seq(Markets)
      BY <1>2 DEF Listings
    <2> QED BY <2>1, SeqMonotonic DEF Ids
  <1>4. PICK m \in Nat : m = Len(listed) /\ DOMAIN listed = 1 .. m
    BY <1>3, LenProperties
  <1>5. \A j \in 1 .. m : listed[j] \in Markets
    BY <1>3, <1>4, ElementOfSeq
  <1>6. PICK r \in Seq(TreeEntries) : r = [j \in 1 .. m |-> [id |-> listed[j], level |-> c, kind |-> "market"]]
    <2>1. \A j \in 1 .. m : [id |-> listed[j], level |-> c, kind |-> "market"] \in TreeEntries
      BY <1>5 DEF TreeEntries, Ids, Kinds
    <2>2. PICK f \in [1 .. m -> TreeEntries] :
            f = [j \in 1 .. m |-> [id |-> listed[j], level |-> c, kind |-> "market"]]
      BY <2>1
    <2>3. f \in Seq(TreeEntries)
      BY SeqDef
    <2> QED BY <2>2, <2>3
  <1>7. Len(r) = m /\ \A j \in 1 .. m : r[j] = [id |-> listed[j], level |-> c, kind |-> "market"]
    BY <1>6
  <1>8. /\ u \in Seq(TreeEntries) /\ Len(u) = n + m
        /\ \A j \in 1 .. n + m : u[j] = IF j <= n THEN t[j] ELSE r[j - n]
    <2>1. u = t \o r
      BY <1>4, <1>6
    <2>2. /\ t \o r \in Seq(TreeEntries) /\ Len(t \o r) = Len(t) + Len(r)
          /\ \A j \in 1 .. Len(t) + Len(r) : (t \o r)[j] = IF j <= Len(t) THEN t[j] ELSE r[j - Len(t)]
      BY <1>6, ConcatProperties
    <2> QED BY <1>1, <1>7, <2>1, <2>2
  <1>9. /\ w \in Seq(Listings) /\ Len(w) = c
        /\ \A j \in 1 .. c : w[j] = v[j]
    <2>1. \A j \in 1 .. c : v[j] \in Listings
      BY ElementOfSeq
    <2>2. /\ SubSeq(v, 1, c) \in Seq(Listings)
          /\ Len(SubSeq(v, 1, c)) = IF 1 <= c THEN c - 1 + 1 ELSE 0
          /\ \A j \in 1 .. c - 1 + 1 : SubSeq(v, 1, c)[j] = v[1 + j - 1]
      BY <2>1, SubSeqProperties
    <2> QED BY <2>2
  <1>10. \A j \in 1 .. n : t[j] \in TreeEntries /\ u[j] = t[j]
    <2>1. \A j \in 1 .. n : t[j] \in TreeEntries
      BY <1>1, ElementOfSeq
    <2>2. \A j \in 1 .. n : j \in 1 .. n + m /\ j <= n
      OBVIOUS
    <2> QED BY <1>8, <2>1, <2>2
  <1>11. \A j \in 1 .. n : /\ t[j].id \in Ids /\ t[j].level \in Nat
                           /\ u[j].id = t[j].id /\ u[j].level = t[j].level
    BY <1>10 DEF TreeEntries
  <1>12. \A k \in 1 .. m : u[n + k] = [id |-> listed[k], level |-> c, kind |-> "market"]
    <2>1. ASSUME NEW k \in 1 .. m PROVE u[n + k] = r[k]
      <3>1. n + k \in 1 .. n + m /\ ~ (n + k <= n) /\ (n + k) - n = k
        OBVIOUS
      <3> QED BY <1>8, <3>1
    <2> QED BY <1>7, <2>1
  <1>13. Grows(t, u, listed, c)
    BY <1>1, <1>3, <1>4, <1>8, <1>11, <1>12 DEF Grows
  <1>14. Follows(t, u, listed, c)
    BY <1>13, TreeFollows
  <1>15. ASSUME NEW nav, NEW i \in n + 1 .. n + m PROVE AccountsFor(nav, u, w, i)
    <2>1. Deep(u, i) = c + 1 /\ IdsAt(u, KidsOf(u, i)) = <<>>
      BY <1>1, <1>4, <1>14 DEF Follows
    <2>2. RestIn(u, w, i) = <<>>
      BY <1>9, <2>1 DEF RestIn
    <2>3. OwedIn(nav, u, i) = <<>>
      <3>1. PICK k \in 1 .. m : i = n + k
        <4>1. i - n \in 1 .. m /\ i = n + (i - n)
          OBVIOUS
        <4> QED BY <4>1
      <3>2. u[i].kind = "market" /\ i # 0
        <4>1. i # 0
          OBVIOUS
        <4>2. u[i] = [id |-> listed[k], level |-> c, kind |-> "market"]
          BY <1>12, <3>1
        <4> QED BY ONLY <4>1, <4>2
      <3> QED BY <3>2 DEF OwedIn
    <2>4. Chained(<<>>, <<>>) = <<>>
      BY ChainEmpty, EmptySeq
    <2> QED BY <2>1, <2>2, <2>3, <2>4 DEF AccountsFor
  <1>16. ASSUME NEW nav, NEW i \in 0 .. n, AccountsFor(nav, t, v, i) PROVE AccountsFor(nav, u, w, i)
    <2>1. OwedIn(nav, u, i) = OwedIn(nav, t, i)
      BY <1>10, OwedSame
    <2>2. PICK a \in Seq(Ids) : a = IdsAt(t, KidsOf(t, i))
      BY <1>1, <1>14 DEF Follows
    <2>3. /\ Deep(u, i) = Deep(t, i)
          /\ IdsAt(u, KidsOf(u, i)) = IF Trailing(t, i) /\ Deep(t, i) = c THEN Chained(a, listed) ELSE a
          /\ Trailing(u, i) => Trailing(t, i)
          /\ Trailing(t, i) /\ Deep(t, i) <= c => Trailing(u, i)
      <3>1. i \in 0 .. Len(t)
        BY <1>1
      <3> QED BY <1>14, <2>2, <3>1 DEF Follows
    <2>4. PICK e \in Nat : e = Deep(t, i) /\ e = Deep(u, i)
      <3>1. Deep(t, i) \in Nat
        <4>1. CASE i = 0
          BY <4>1 DEF Deep
        <4>2. CASE i # 0
          <5>1. i \in 1 .. n
            BY <4>2
          <5>2. PICK l \in Nat : l = t[i].level
            BY <1>11, <5>1
          <5> QED BY <4>2, <5>2 DEF Deep
        <4> QED BY <4>1, <4>2
      <3> QED BY <2>3, <3>1
    <2>5. CASE Trailing(t, i) /\ e = c
      <3>1. RestIn(t, v, i) = listed
        <4>1. RestIn(t, v, i) = Whole(v[c + 1])
          BY <2>4, <2>5 DEF RestIn
        <4>2. <<>> \o listed = listed
          BY <1>3, ConcatEmptySeq
        <4> QED BY <4>1, <4>2 DEF Whole
      <3>2. RestIn(u, w, i) = <<>>
        BY <1>9, <2>4, <2>5 DEF RestIn
      <3>3. PICK b \in Seq(Ids) : b = Chained(a, listed)
        BY <1>3, ConcatProperties DEF Chained
      <3>4. Chained(b, <<>>) = b
        BY ChainEmpty
      <3> QED BY <1>16, <2>1, <2>2, <2>3, <2>4, <2>5, <3>1, <3>2, <3>3, <3>4 DEF AccountsFor
    <2>6. CASE ~ (Trailing(t, i) /\ e = c)
      <3>1. RestIn(u, w, i) = RestIn(t, v, i)
        <4>1. CASE Trailing(t, i) /\ e < c
          <5>1. Trailing(u, i) /\ e + 1 \in 1 .. c /\ e < Len(v) /\ e < Len(w)
            BY <1>9, <2>3, <2>4, <4>1
          <5>2. w[e + 1] = v[e + 1]
            BY <1>9, <5>1
          <5> QED BY <2>4, <4>1, <5>1, <5>2 DEF RestIn
        <4>2. CASE ~ Trailing(t, i)
          BY <2>3, <4>2 DEF RestIn
        <4>3. CASE c < e
          <5>1. ~ (e < Len(v)) /\ ~ (e < Len(w))
            BY <1>9, <4>3
          <5> QED BY <2>4, <5>1 DEF RestIn
        <4> QED BY <2>6, <4>1, <4>2, <4>3
      <3> QED BY <1>16, <2>1, <2>2, <2>3, <2>4, <2>6, <3>1 DEF AccountsFor
    <2> QED BY <2>5, <2>6
  <1> QED BY <1>1, <1>8, <1>15, <1>16 DEF GoesOn, LeavesTell

LEMMA LastIsBare ==
  ASSUME NEW t \in Seq(TreeEntries)
  PROVE  /\ Len(t) \in Nat /\ Trailing(t, Len(t)) /\ IdsAt(t, KidsOf(t, Len(t))) = <<>>
         /\ \A i \in 0 .. Len(t) : Deep(t, i) \in Nat
         /\ \A i \in 0 .. Len(t) - 1 : Trailing(t, i) => Deep(t, i) < Deep(t, Len(t))
  <1>1. PICK n \in Nat : n = Len(t)
    BY LenProperties
  <1>2. n + 1 .. n = {}
    BY <1>1
  <1>3. Trailing(t, n)
    BY <1>1, <1>2 DEF Trailing
  <1>4. KidsOf(t, n) = {}
    BY <1>1, <1>2 DEF KidsOf
  <1>5. \A j \in 1 .. n : t[j].level \in Nat
    <2>1. \A j \in 1 .. n : t[j] \in TreeEntries
      BY <1>1, ElementOfSeq
    <2> QED BY <2>1 DEF TreeEntries
  <1>6. ASSUME NEW i \in 0 .. n PROVE Deep(t, i) \in Nat
    <2>1. CASE i = 0
      BY <2>1 DEF Deep
    <2>2. CASE i # 0
      <3>1. i \in 1 .. n
        BY <2>2
      <3>2. PICK l \in Nat : l = t[i].level
        BY <1>5, <3>1
      <3> QED BY <2>2, <3>2 DEF Deep
    <2> QED BY <2>1, <2>2
  <1>7. ASSUME NEW i \in 0 .. n - 1, Trailing(t, i) PROVE Deep(t, i) < Deep(t, n)
    <2>1. n \in i + 1 .. n /\ n \in 1 .. n /\ n # 0 /\ i \in 0 .. n
      OBVIOUS
    <2>2. PICK l \in Nat : l = t[n].level
      BY <1>5, <2>1
    <2>3. Deep(t, i) <= l
      BY <1>1, <1>7, <2>1, <2>2 DEF Trailing
    <2>4. Deep(t, n) = l + 1
      BY <2>1, <2>2 DEF Deep
    <2>5. PICK e \in Nat : e = Deep(t, i)
      BY <1>6, <2>1
    <2> QED BY <2>3, <2>4, <2>5
  <1> QED BY <1>1, <1>3, <1>4, <1>6, <1>7, NoIds

\* An answer: what is listed below the last entry is to be processed.
LEMMA TreeOpens ==
  ASSUME NEW nav, NEW t \in Seq(TreeEntries), NEW v \in Seq(Listings), NEW l \in Listings,
         Deep(t, Len(t)) = Len(v), NEW w, w = Append(v, l)
  PROVE  /\ \A i \in 0 .. Len(t) - 1 : AccountsFor(nav, t, v, i) => AccountsFor(nav, t, w, i)
         /\ Chained(IdsAt(t, KidsOf(t, Len(t))), RestIn(t, w, Len(t))) = Whole(l)
  <1>1. PICK n \in Nat, c \in Nat : n = Len(t) /\ c = Len(v)
    BY LenProperties
  <1>2. /\ Len(w) = c + 1 /\ w[c + 1] = l
        /\ \A j \in 1 .. c : w[j] = v[j]
    BY <1>1, AppendProperties
  <1>3. RestIn(t, w, n) = Whole(l)
    <2>1. Trailing(t, n) /\ Deep(t, n) = c
      BY <1>1, LastIsBare
    <2> QED BY <1>2, <2>1 DEF RestIn
  <1>4. Chained(<<>>, Whole(l)) = Whole(l)
    <2>1. PICK y \in Seq(Nodes), z \in Seq(Markets) : l = [nodes |-> y, markets |-> z]
      BY DEF Listings
    <2>2. y \in Seq(Ids) /\ z \in Seq(Ids)
      BY SeqMonotonic DEF Ids
    <2>3. y \o z \in Seq(Ids)
      BY <2>2, ConcatProperties
    <2>4. PICK x \in Seq(Ids) : x = Whole(l)
      BY <2>1, <2>3 DEF Whole
    <2>5. <<>> \o x = x
      BY ConcatEmptySeq
    <2> QED BY <2>4, <2>5 DEF Chained
  <1>5. ASSUME NEW i \in 0 .. n - 1, AccountsFor(nav, t, v, i) PROVE AccountsFor(nav, t, w, i)
    <2>1. RestIn(t, w, i) = RestIn(t, v, i)
      <3>1. CASE ~ Trailing(t, i)
        BY <3>1 DEF RestIn
      <3>2. CASE Trailing(t, i)
        <4>1. PICK e \in Nat : e = Deep(t, i) /\ e < c
          <5>1. i \in 0 .. Len(t) /\ i \in 0 .. Len(t) - 1
            BY <1>1
          <5>2. Deep(t, i) \in Nat /\ Deep(t, i) < Deep(t, Len(t))
            BY <3>2, <5>1, LastIsBare
          <5> QED BY <1>1, <5>2
        <4>2. w[e + 1] = v[e + 1] /\ e < Len(w) /\ e < Len(v)
          BY <1>1, <1>2, <4>1
        <4> QED BY <4>1, <4>2 DEF RestIn
      <3> QED BY <3>1, <3>2
    <2> QED BY <1>5, <2>1 DEF AccountsFor
  <1>6. IdsAt(t, KidsOf(t, n)) = <<>>
    BY <1>1, LastIsBare
  <1> QED BY <1>1, <1>3, <1>4, <1>5, <1>6

\* A refusal: the last entry shows what became of its request.
MarkedAs(tree, kind) == [tree EXCEPT ![Len(tree)].kind = kind]

IsMarked(t, u, kind) ==
  /\ Len(u) = Len(t)
  /\ \A j \in 1 .. Len(t) : u[j] = IF j = Len(t) THEN [t[j] EXCEPT !.kind = kind] ELSE t[j]
  /\ u[Len(t)].kind = kind /\ Deep(u, Len(t)) = Deep(t, Len(t))
  /\ u \in Seq(TreeEntries)
  /\ \A nav, v : \A i \in 0 .. Len(t) - 1 : AccountsFor(nav, t, v, i) => AccountsFor(nav, u, v, i)

LEMMA TreeIsMarked ==
  ASSUME NEW t \in Seq(TreeEntries), NEW kind \in Kinds, t # <<>>,
         NEW u, u = MarkedAs(t, kind)
  PROVE  IsMarked(t, u, kind)
  <1>1. PICK n \in Nat : n = Len(t) /\ n # 0
    BY EmptySeq
  <1>2. n \in 1 .. n
    BY <1>1
  <1>3. \A j \in 1 .. n : t[j] \in TreeEntries
    BY <1>1, ElementOfSeq
  <1>4. PICK x \in Ids, y \in Nat, z \in Kinds : t[n] = [id |-> x, level |-> y, kind |-> z]
    BY <1>2, <1>3 DEF TreeEntries
  <1>5. PICK e \in TreeEntries : e = [id |-> x, level |-> y, kind |-> kind]
    BY DEF TreeEntries
  <1>6. [t[n] EXCEPT !.kind = kind] = e
    BY <1>4, <1>5
  <1>7. u = [t EXCEPT ![n] = e]
    BY <1>1, <1>6 DEF MarkedAs
  <1>8. /\ [t EXCEPT ![n] = e] \in Seq(TreeEntries) /\ Len([t EXCEPT ![n] = e]) = Len(t)
        /\ \A j \in 1 .. Len(t) : [t EXCEPT ![n] = e][j] = IF j = n THEN e ELSE t[j]
    BY <1>1, <1>2, ExceptSeq
  <1>9. /\ u \in Seq(TreeEntries) /\ Len(u) = Len(t)
        /\ \A j \in 1 .. Len(t) : u[j] = IF j = n THEN e ELSE t[j]
    BY ONLY <1>7, <1>8, Zenon
  <1>10. u[n] = e
    BY <1>1, <1>2, <1>9
  <1>11. u[n].kind = kind /\ u[n].level = y /\ t[n].level = y
    BY <1>4, <1>5, <1>10
  <1>12. Deep(u, n) = Deep(t, n)
    BY <1>11 DEF Deep
  <1>13. \A j \in 1 .. n : /\ t[j].id \in Ids /\ t[j].level \in Nat
                           /\ u[j].id = t[j].id /\ u[j].level = t[j].level
    <2>1. ASSUME NEW j \in 1 .. n, j # n PROVE t[j] \in TreeEntries /\ u[j] = t[j]
      BY <1>1, <1>3, <1>9, <2>1
    <2>2. t[n].id = x /\ u[n].id = x
      BY <1>4, <1>5, <1>10
    <2>3. ASSUME NEW j \in 1 .. n
          PROVE  /\ t[j].id \in Ids /\ t[j].level \in Nat
                 /\ u[j].id = t[j].id /\ u[j].level = t[j].level
      BY <1>11, <2>1, <2>2 DEF TreeEntries
    <2> QED BY <2>3
  <1>14. Grows(t, u, <<>>, 0)
    <2>1. <<>> \in Seq(Ids) /\ Len(<<>>) = 0 /\ 1 .. 0 = {}
      BY EmptySeq
    <2>2. Len(u) = Len(t) + 0
      BY <1>1, <1>9
    <2> QED BY <1>1, <1>13, <2>1, <2>2 DEF Grows
  <1>15. Follows(t, u, <<>>, 0)
    BY <1>14, TreeFollows
  <1>16. ASSUME NEW nav, NEW v, NEW i \in 0 .. n - 1, AccountsFor(nav, t, v, i) PROVE AccountsFor(nav, u, v, i)
    <2>1. i \in 0 .. Len(t)
      BY <1>1
    <2>2. PICK a \in Seq(Ids) : a = IdsAt(t, KidsOf(t, i))
      BY <1>15, <2>1 DEF Follows
    <2>3. /\ Deep(u, i) = Deep(t, i) /\ (Trailing(u, i) <=> Trailing(t, i))
          /\ IdsAt(u, KidsOf(u, i)) = a
      BY <1>15, <2>1, <2>2, ChainEmpty DEF Follows
    <2>4. RestIn(u, v, i) = RestIn(t, v, i)
      BY <2>3 DEF RestIn
    <2>5. OwedIn(nav, u, i) = OwedIn(nav, t, i)
      <3>1. CASE i = 0
        BY <3>1 DEF OwedIn
      <3>2. CASE i # 0
        <4>1. i \in 1 .. Len(t) /\ i # n
          BY <1>1, <3>2
        <4>2. u[i] = t[i]
          BY <1>9, <4>1
        <4> QED BY ONLY <3>2, <4>2 DEF OwedIn
      <3> QED BY <3>1, <3>2
    <2> QED BY <1>16, <2>2, <2>3, <2>4, <2>5 DEF AccountsFor
  <1>17. \A j \in 1 .. Len(t) : u[j] = IF j = Len(t) THEN [t[j] EXCEPT !.kind = kind] ELSE t[j]
    BY <1>1, <1>6, <1>9
  <1> QED BY <1>1, <1>9, <1>11, <1>12, <1>16, <1>17 DEF IsMarked

\* Where the walk stands: no deeper than the bound, and what it asks for is the last entry.
WalkStands ==
  /\ Len(stack) <= MaxDepth + 1
  /\ stack # <<>> => status = "walking"
  /\ wanted # None => status = "walking" /\ Deep(found, Len(found)) = Len(stack)
  /\ wanted = Root => found = <<>>
  /\ wanted \in Nodes => /\ found # <<>> /\ Len(stack) <= MaxDepth
                         /\ found[Len(found)].id = wanted
                         /\ found[Len(found)].kind = "node"

\* What stands below an entry and what is still to be processed is what IG lists for it.
WalkAccounts ==
  status \in {"walking", "ok"} =>
    \A i \in 0 .. Len(found) :
      \/ wanted # None /\ i = Len(found)
      \/ AccountsFor(graph, found, stack, i)

WalkInv == WalkTypeOK /\ WalkStands /\ WalkAccounts

WalkNext == Build \/ WalkStep

LEMMA FoundIsTree ==
  ASSUME WalkTypeOK PROVE found \in Seq(TreeEntries)
  <1>1. [id : Ids, level : Levels, kind : Kinds] \subseteq TreeEntries
    BY HierarchyAssumption DEF TreeEntries, Levels
  <1> QED BY <1>1, SeqMonotonic DEF WalkTypeOK

LEMMA WalkBegins == WalkInit => WalkInv
  <1> SUFFICES ASSUME WalkInit PROVE WalkInv
    OBVIOUS
  <1>1. graph \in Graphs
    BY HierarchyAssumption DEF WalkInit
  <1>2. WalkTypeOK
    BY <1>1 DEF WalkInit, WalkTypeOK
  <1>3. WalkStands
    BY HierarchyAssumption DEF WalkInit, WalkStands, Ids
  <1>4. WalkAccounts
    BY DEF WalkInit, WalkAccounts
  <1> QED BY <1>2, <1>3, <1>4 DEF WalkInv

LEMMA BuildSteps == WalkInv /\ Build => WalkInv'
  <1> SUFFICES ASSUME WalkInv, Build PROVE WalkInv'
    OBVIOUS
  <1>1. Len(<<>>) = 0 /\ Deep(<<>>, 0) = 0
    BY DEF Deep
  <1>2. WalkTypeOK'
    BY DEF Build, WalkTypeOK
  <1>3. WalkStands'
    BY <1>1, HierarchyAssumption DEF Build, WalkStands, Ids
  <1>4. WalkAccounts'
    BY <1>1, HierarchyAssumption DEF Build, WalkAccounts
  <1> QED BY <1>2, <1>3, <1>4 DEF WalkInv

LEMMA AnsweredSteps == WalkInv /\ Answered => WalkInv'
  <1> SUFFICES ASSUME WalkInv, Answered PROVE WalkInv'
    OBVIOUS
  <1>1. PICK t \in Seq(TreeEntries), v \in Seq(Listings), nav \in Graphs :
          t = found /\ v = stack /\ nav = graph
    BY FoundIsTree DEF WalkInv, WalkTypeOK
  <1>2. PICK n \in Nat, c \in Nat : n = Len(t) /\ c = Len(v)
    BY LenProperties
  <1>3. wanted \in Nodes \cup {Root} /\ status = "walking" /\ Deep(t, n) = c
    BY <1>1, <1>2 DEF WalkInv, WalkTypeOK, WalkStands, Answered
  <1>4. PICK l \in Listings : l = nav[wanted]
    BY <1>3, HierarchyAssumption
  <1>5. PICK w \in Seq(Listings) : w = Append(v, l) /\ Len(w) = c + 1
    BY <1>2, AppendProperties
  <1>6. stack' = w /\ found' = t /\ graph' = nav /\ wanted' = None /\ status' = "walking"
    BY <1>1, <1>3, <1>4, <1>5 DEF Answered
  <1>7. /\ \A i \in 0 .. Len(t) - 1 : AccountsFor(nav, t, v, i) => AccountsFor(nav, t, w, i)
        /\ Chained(IdsAt(t, KidsOf(t, Len(t))), RestIn(t, w, Len(t))) = Whole(l)
    BY <1>2, <1>3, <1>5, TreeOpens
  <1>8. OwedIn(nav, t, n) = Whole(l) /\ c <= MaxDepth
    <2>1. CASE wanted = Root
      <3>1. n = 0 /\ c = 0
        BY <1>1, <1>2, <1>3, <2>1 DEF WalkInv, WalkStands, Deep
      <3> QED BY <1>4, <2>1, <3>1, HierarchyAssumption DEF OwedIn
    <2>2. CASE wanted \in Nodes
      <3>1. t # <<>> /\ c <= MaxDepth /\ t[n].id = wanted /\ t[n].kind = "node"
        BY <1>1, <1>2, <2>2 DEF WalkInv, WalkStands
      <3>2. n # 0
        BY <1>2, <3>1, EmptySeq
      <3>3. PICK y \in Nat : y = t[n].level
        <4>1. n \in 1 .. Len(t)
          BY <1>2, <3>2
        <4>2. t[n] \in TreeEntries
          BY <4>1, ElementOfSeq
        <4> QED BY <4>2 DEF TreeEntries
      <3>4. y + 1 = c
        BY <1>3, <3>2, <3>3 DEF Deep
      <3>5. y < MaxDepth
        BY <3>1, <3>4, HierarchyAssumption
      <3> QED BY <1>4, <3>1, <3>2, <3>3, <3>5 DEF OwedIn
    <2> QED BY <1>3, <2>1, <2>2
  <1>9. ASSUME NEW i \in 0 .. n PROVE AccountsFor(nav, t, w, i)
    <2>1. CASE i = n
      BY <1>2, <1>7, <1>8, <2>1 DEF AccountsFor
    <2>2. CASE i # n
      <3>1. i \in 0 .. Len(t) - 1 /\ i # Len(t) /\ i \in 0 .. Len(t)
        BY <1>2, <2>2
      <3>2. AccountsFor(nav, t, v, i)
        BY <1>1, <1>3, <3>1 DEF WalkInv, WalkAccounts
      <3> QED BY <1>7, <3>1, <3>2
    <2> QED BY <2>1, <2>2
  <1>10. WalkTypeOK'
    BY <1>1, <1>5, <1>6 DEF WalkInv, WalkTypeOK
  <1>11. WalkStands'
    <2>1. Len(w) <= MaxDepth + 1
      BY <1>5, <1>8, HierarchyAssumption
    <2> QED BY <1>6, <2>1, HierarchyAssumption DEF WalkStands, Ids
  <1>12. WalkAccounts'
    BY <1>2, <1>6, <1>9 DEF WalkAccounts
  <1> QED BY <1>10, <1>11, <1>12 DEF WalkInv

LEMMA RefusedSteps == WalkInv /\ Refused => WalkInv'
  <1> SUFFICES ASSUME WalkInv, Refused PROVE WalkInv'
    OBVIOUS
  <1>1. PICK t \in Seq(TreeEntries), v \in Seq(Listings), nav \in Graphs :
          t = found /\ v = stack /\ nav = graph
    BY FoundIsTree DEF WalkInv, WalkTypeOK
  <1>2. wanted \in Nodes
    BY DEF WalkInv, WalkTypeOK, Refused
  <1>3. /\ status = "walking" /\ Deep(t, Len(t)) = Len(v) /\ t # <<>>
        /\ Len(v) <= MaxDepth + 1
    BY <1>1, <1>2, HierarchyAssumption DEF WalkInv, WalkStands, Refused
  <1>4. PICK kind \in {"cut", "error"} : found' = MarkedAs(t, kind)
    BY <1>1 DEF Refused, Marked, MarkedAs
  <1>5. kind \in Kinds /\ kind # "node"
    BY DEF Kinds
  <1>6. PICK u : u = MarkedAs(t, kind)
    OBVIOUS
  <1>7. /\ Len(u) = Len(t)
        /\ \A j \in 1 .. Len(t) : u[j] = IF j = Len(t) THEN [t[j] EXCEPT !.kind = kind] ELSE t[j]
        /\ u[Len(t)].kind = kind /\ Deep(u, Len(t)) = Deep(t, Len(t))
        /\ u \in Seq(TreeEntries)
        /\ \A i \in 0 .. Len(t) - 1 : AccountsFor(nav, t, v, i) => AccountsFor(nav, u, v, i)
    <2>1. IsMarked(t, u, kind)
      BY <1>3, <1>5, <1>6, TreeIsMarked
    <2> QED BY <2>1 DEF IsMarked
  <1>8. PICK n \in Nat \ {0} : n = Len(t) /\ n = Len(u)
    BY <1>3, <1>7, EmptySeq
  <1>9. found' = u /\ stack' = v /\ graph' = nav /\ wanted' = None /\ status' = "walking"
    BY <1>1, <1>3, <1>4, <1>6 DEF Refused
  <1>10. ASSUME NEW i \in 0 .. n PROVE AccountsFor(nav, u, v, i)
    <2>1. CASE i = n
      <3>1. IdsAt(u, KidsOf(u, n)) = <<>>
        BY <1>7, <1>8, LastIsBare
      <3>2. RestIn(u, v, n) = <<>>
        <4>1. Deep(u, n) = Len(v) /\ Len(v) \in Nat
          BY <1>3, <1>7, <1>8, LenProperties
        <4> QED BY <4>1 DEF RestIn
      <3>3. OwedIn(nav, u, n) = <<>>
        BY <1>5, <1>7, <1>8 DEF OwedIn
      <3>4. Chained(<<>>, <<>>) = <<>>
        BY ChainEmpty, EmptySeq
      <3> QED BY <2>1, <3>1, <3>2, <3>3, <3>4 DEF AccountsFor
    <2>2. CASE i # n
      <3>1. i \in 0 .. Len(t) - 1 /\ i # Len(t) /\ i \in 0 .. Len(t)
        BY <1>8, <2>2
      <3>2. AccountsFor(nav, t, v, i)
        BY <1>1, <1>3, <3>1 DEF WalkInv, WalkAccounts
      <3> QED BY <1>7, <3>1, <3>2
    <2> QED BY <2>1, <2>2
  <1>11. WalkTypeOK'
    <2>1. t \in Seq([id : Ids, level : Levels, kind : Kinds])
      BY <1>1 DEF WalkInv, WalkTypeOK
    <2> DEFINE E == [id : Ids, level : Levels, kind : Kinds]
    <2>2. ASSUME NEW j \in 1 .. n PROVE u[j] \in [id : Ids, level : Levels, kind : Kinds]
      <3>1. t[j] \in [id : Ids, level : Levels, kind : Kinds]
        BY <1>8, <2>1, ElementOfSeq
      <3>2. [t[j] EXCEPT !.kind = kind] \in [id : Ids, level : Levels, kind : Kinds]
        BY <1>5, <3>1
      <3>3. u[j] = IF j = Len(t) THEN [t[j] EXCEPT !.kind = kind] ELSE t[j]
        BY <1>7, <1>8
      <3> QED BY ONLY <3>1, <3>2, <3>3, Zenon
    <2>3. u \in Seq([id : Ids, level : Levels, kind : Kinds])
      <3>1. DOMAIN u = 1 .. n /\ u \in [1 .. n -> TreeEntries]
        BY <1>7, <1>8, LenProperties
      <3>2. \A j \in 1 .. n : u[j] \in E
        BY <2>2
      <3> HIDE DEF E
      <3>3. u \in [1 .. n -> E]
        BY <3>1, <3>2
      <3>4. u \in Seq(E)
        BY <3>3, SeqDef
      <3> QED BY <3>4 DEF E
    <2> QED BY <1>1, <1>9, <2>3 DEF WalkInv, WalkTypeOK
  <1>12. WalkStands'
    BY <1>3, <1>9, HierarchyAssumption DEF WalkStands, Ids
  <1>13. WalkAccounts'
    BY <1>8, <1>9, <1>10 DEF WalkAccounts
  <1> QED BY <1>11, <1>12, <1>13 DEF WalkInv

LEMMA RefusedRootSteps == WalkInv /\ RefusedRoot => WalkInv'
  <1> SUFFICES ASSUME WalkInv, RefusedRoot PROVE WalkInv'
    OBVIOUS
  <1>1. wanted # None
    BY HierarchyAssumption DEF RefusedRoot
  <1>2. found = <<>> /\ Deep(found, Len(found)) = Len(stack)
    BY <1>1 DEF WalkInv, WalkStands, RefusedRoot
  <1>3. Len(stack) = 0
    BY <1>2 DEF Deep
  <1>4. stack = <<>>
    BY <1>3, EmptySeq DEF WalkInv, WalkTypeOK
  <1>5. WalkTypeOK'
    BY DEF RefusedRoot, WalkInv, WalkTypeOK
  <1>6. WalkStands'
    BY <1>4, HierarchyAssumption DEF RefusedRoot, WalkInv, WalkStands, Ids
  <1>7. WalkAccounts'
    BY DEF RefusedRoot, WalkAccounts
  <1> QED BY <1>5, <1>6, <1>7 DEF WalkInv

LEMMA DescendSteps == WalkInv /\ Descend => WalkInv'
  <1> SUFFICES ASSUME WalkInv, Descend PROVE WalkInv'
    OBVIOUS
  <1>1. PICK t \in Seq(TreeEntries), v \in Seq(Listings), nav \in Graphs :
          t = found /\ v = stack /\ nav = graph
    BY FoundIsTree DEF WalkInv, WalkTypeOK
  <1>2. wanted = None /\ v # <<>> /\ status = "walking" /\ Len(v) <= MaxDepth + 1
    BY <1>1 DEF WalkInv, WalkStands, Descend
  <1>3. PICK n \in Nat, c \in Nat : n = Len(t) /\ c + 1 = Len(v) /\ c = Len(v) - 1
    <2>1. Len(v) \in Nat \ {0} /\ Len(t) \in Nat
      BY <1>2, EmptySeq, LenProperties
    <2>2. Len(v) - 1 \in Nat /\ (Len(v) - 1) + 1 = Len(v)
      BY <2>1
    <2> QED BY <2>1, <2>2
  <1>4. c \in Levels /\ c <= MaxDepth
    BY <1>2, <1>3, HierarchyAssumption DEF Levels
  <1>5. PICK listed \in Seq(Nodes) : listed = v[Len(v)].nodes /\ listed # <<>>
    <2>1. Len(v) \in 1 .. Len(v)
      BY <1>3
    <2>2. v[Len(v)] \in Listings
      BY <2>1, ElementOfSeq
    <2> QED BY <1>1, <2>2 DEF Descend, Listings
  <1>6. PICK h \in Nodes : h = Head(listed)
    BY <1>5, HeadTailProperties
  <1>7. PICK e \in [id : Ids, level : Levels, kind : Kinds] : e = [id |-> h, level |-> c, kind |-> "node"]
    BY <1>4, <1>6 DEF Ids, Kinds
  <1>8. PICK u : u = Append(t, [id |-> Head(listed), level |-> Len(v) - 1, kind |-> "node"]) /\ u = Append(t, e)
    BY <1>3, <1>6, <1>7
  <1>9. PICK w : w = [v EXCEPT ![Len(v)].nodes = Tail(listed)]
    OBVIOUS
  <1>10. /\ found' = u /\ stack' = w /\ graph' = nav /\ status' = "walking"
         /\ wanted' = IF c + 1 > MaxDepth THEN None ELSE h
    BY <1>1, <1>2, <1>3, <1>5, <1>6, <1>8, <1>9 DEF Descend, Entry, Depth, AtBound
  <1>11. /\ GoesOn(t, v, u, w)
         /\ IdsAt(u, KidsOf(u, Len(t) + 1)) = <<>> /\ RestIn(u, w, Len(t) + 1) = <<>>
         /\ Deep(u, Len(t) + 1) = Len(v)
    <2>1. GoesOn(t, v, u, w) /\ LastIsNew(t, v, u, w)
      BY <1>2, <1>5, <1>8, <1>9, TreeDescends
    <2> QED BY <2>1 DEF LastIsNew
  <1>12. w \in Seq(Listings) /\ Len(w) = c + 1
    <2>1. PICK q \in Seq(Nodes) : q = Tail(listed)
      BY <1>5, HeadTailProperties
    <2>2. c + 1 \in 1 .. Len(v)
      BY <1>3
    <2>3. v[c + 1] \in Listings
      BY <2>2, ElementOfSeq
    <2>4. PICK y \in Seq(Nodes), z \in Seq(Markets) : v[c + 1] = [nodes |-> y, markets |-> z]
      BY <2>3 DEF Listings
    <2>5. PICK x \in Listings : x = [nodes |-> q, markets |-> z]
      BY DEF Listings
    <2>6. [[nodes |-> y, markets |-> z] EXCEPT !.nodes = q] = x
      BY <2>5
    <2>7. w = [v EXCEPT ![c + 1] = x]
      BY <1>3, <1>9, <2>1, <2>4, <2>6
    <2>8. [v EXCEPT ![c + 1] = x] \in Seq(Listings) /\ Len([v EXCEPT ![c + 1] = x]) = Len(v)
      BY <2>2, ExceptSeq
    <2>9. w \in Seq(Listings) /\ Len(w) = Len(v)
      BY ONLY <2>7, <2>8, Zenon
    <2> QED BY <1>3, <2>9
  <1>13. /\ u \in Seq([id : Ids, level : Levels, kind : Kinds]) /\ Len(u) = n + 1 /\ u[n + 1] = e
         /\ \A j \in 1 .. n : u[j] = t[j]
    <2>1. t \in Seq([id : Ids, level : Levels, kind : Kinds])
      BY <1>1 DEF WalkInv, WalkTypeOK
    <2> QED BY <1>3, <1>8, <2>1, AppendProperties
  <1>14. ASSUME NEW i \in 0 .. n PROVE AccountsFor(nav, u, w, i)
    <2>1. i \in 0 .. Len(t)
      BY <1>3
    <2>2. AccountsFor(nav, t, v, i)
      BY <1>1, <1>2, <2>1 DEF WalkInv, WalkAccounts
    <2> QED BY <1>11, <2>1, <2>2 DEF GoesOn
  <1>15. c + 1 > MaxDepth => AccountsFor(nav, u, w, n + 1)
    <2>1. SUFFICES ASSUME c + 1 > MaxDepth PROVE AccountsFor(nav, u, w, n + 1)
      OBVIOUS
    <2>2. u[n + 1].level = c /\ ~ (c < MaxDepth) /\ n + 1 # 0
      BY <1>7, <1>13, <2>1, HierarchyAssumption
    <2>3. OwedIn(nav, u, n + 1) = <<>>
      BY <2>2 DEF OwedIn
    <2>4. Chained(<<>>, <<>>) = <<>>
      BY ChainEmpty, EmptySeq
    <2> QED BY <1>3, <1>11, <2>3, <2>4 DEF AccountsFor
  <1>16. WalkTypeOK'
    BY <1>1, <1>6, <1>10, <1>12, <1>13 DEF WalkInv, WalkTypeOK
  <1>17. WalkStands'
    <2>1. Len(u) = n + 1 /\ Deep(u, Len(u)) = c + 1 /\ u # <<>>
      <3>1. Len(<<>>) = 0
        OBVIOUS
      <3> QED BY <1>3, <1>11, <1>13, <3>1
    <2>2. u[Len(u)].id = h /\ u[Len(u)].kind = "node"
      BY <1>7, <1>13
    <2>3. c + 1 > MaxDepth \/ c + 1 <= MaxDepth
      BY HierarchyAssumption
    <2>4. h # Root /\ None # h /\ None \notin Nodes /\ None # Root
      BY <1>6, HierarchyAssumption DEF Ids
    <2>5. Len(w) <= MaxDepth + 1
      BY <1>4, <1>12, HierarchyAssumption
    <2> QED BY <1>10, <1>12, <2>1, <2>2, <2>3, <2>4, <2>5 DEF WalkStands
  <1>18. WalkAccounts'
    <2>1. ASSUME NEW i \in 0 .. n + 1
          PROVE  (wanted' # None /\ i = n + 1) \/ AccountsFor(nav, u, w, i)
      <3>1. None # h
        BY <1>6, HierarchyAssumption DEF Ids
      <3>2. CASE i = n + 1
        BY <1>10, <1>15, <3>1, <3>2
      <3>3. CASE i # n + 1
        <4>1. i \in 0 .. n
          BY <3>3
        <4> QED BY <1>14, <4>1
      <3> QED BY <3>2, <3>3
    <2> QED BY <1>10, <1>13, <2>1 DEF WalkAccounts
  <1> QED BY <1>16, <1>17, <1>18 DEF WalkInv

LEMMA AscendSteps == WalkInv /\ Ascend => WalkInv'
  <1> SUFFICES ASSUME WalkInv, Ascend PROVE WalkInv'
    OBVIOUS
  <1>1. PICK t \in Seq(TreeEntries), v \in Seq(Listings), nav \in Graphs :
          t = found /\ v = stack /\ nav = graph
    BY FoundIsTree DEF WalkInv, WalkTypeOK
  <1>2. wanted = None /\ v # <<>> /\ status = "walking" /\ Len(v) <= MaxDepth + 1
    BY <1>1 DEF WalkInv, WalkStands, Ascend
  <1>3. PICK n \in Nat, c \in Nat : n = Len(t) /\ c + 1 = Len(v) /\ c = Len(v) - 1
    <2>1. Len(v) \in Nat \ {0} /\ Len(t) \in Nat
      BY <1>2, EmptySeq, LenProperties
    <2>2. Len(v) - 1 \in Nat /\ (Len(v) - 1) + 1 = Len(v)
      BY <2>1
    <2> QED BY <2>1, <2>2
  <1>4. c \in Levels /\ c <= MaxDepth
    BY <1>2, <1>3, HierarchyAssumption DEF Levels
  <1>5. PICK listed \in Seq(Markets) : listed = v[c + 1].markets /\ v[c + 1].nodes = <<>>
    <2>1. c + 1 \in 1 .. Len(v)
      BY <1>3
    <2>2. v[c + 1] \in Listings
      BY <2>1, ElementOfSeq
    <2> QED BY <1>1, <1>3, <2>2 DEF Ascend, Listings
  <1>6. PICK u : u = t \o [j \in DOMAIN listed |-> [id |-> listed[j], level |-> c, kind |-> "market"]]
    OBVIOUS
  <1>7. PICK w : w = SubSeq(v, 1, c)
    OBVIOUS
  <1>8. /\ found' = u /\ stack' = w /\ graph' = nav /\ wanted' = None
        /\ status' = IF c = 0 THEN "ok" ELSE "walking"
    BY <1>1, <1>2, <1>3, <1>5, <1>6, <1>7 DEF Ascend, Entry, Depth
  <1>9. GoesOn(t, v, u, w) /\ LeavesTell(t, u, w)
    BY <1>3, <1>5, <1>6, <1>7, TreeAscends
  <1>10. w \in Seq(Listings) /\ Len(w) = c
    <2>1. \A j \in 1 .. c : v[j] \in Listings
      <3>1. \A j \in 1 .. c : j \in 1 .. Len(v)
        BY <1>3
      <3> QED BY <3>1, ElementOfSeq
    <2>2. /\ SubSeq(v, 1, c) \in Seq(Listings)
          /\ Len(SubSeq(v, 1, c)) = IF 1 <= c THEN c - 1 + 1 ELSE 0
      BY <2>1, SubSeqProperties
    <2> QED BY <1>7, <2>2
  <1>11. u \in Seq([id : Ids, level : Levels, kind : Kinds])
    <2> DEFINE E == [id : Ids, level : Levels, kind : Kinds]
    <2>1. \A j \in DOMAIN listed : [id |-> listed[j], level |-> c, kind |-> "market"] \in E
      <3>1. \A j \in DOMAIN listed : listed[j] \in Markets
        BY LenProperties, ElementOfSeq
      <3> QED BY <1>4, <3>1 DEF Ids, Kinds
    <2>2. t \in Seq(E)
      BY <1>1 DEF WalkInv, WalkTypeOK
    <2> HIDE DEF E
    <2>3. PICK f \in [DOMAIN listed -> E] :
            f = [j \in DOMAIN listed |-> [id |-> listed[j], level |-> c, kind |-> "market"]]
      BY <2>1
    <2>4. f \in Seq(E)
      <3>1. PICK m \in Nat : DOMAIN listed = 1 .. m
        BY LenProperties
      <3> QED BY <3>1, SeqDef
    <2>5. t \o f \in Seq(E)
      BY <2>2, <2>4, ConcatProperties
    <2> QED BY <1>6, <2>3, <2>5 DEF E
  <1>12. ASSUME NEW i \in 0 .. Len(u) PROVE AccountsFor(nav, u, w, i)
    <2>1. Len(u) \in Nat
      BY <1>11, LenProperties
    <2>2. CASE i \in 0 .. Len(t)
      <3>1. AccountsFor(nav, t, v, i)
        BY <1>1, <1>2, <2>2 DEF WalkInv, WalkAccounts
      <3> QED BY <1>9, <2>2, <3>1 DEF GoesOn
    <2>3. CASE i \notin 0 .. Len(t)
      <3>1. i \in Len(t) + 1 .. Len(u)
        BY <1>3, <2>1, <2>3
      <3> QED BY <1>9, <3>1 DEF LeavesTell
    <2> QED BY <2>2, <2>3
  <1>13. WalkTypeOK'
    BY <1>1, <1>8, <1>10, <1>11 DEF WalkInv, WalkTypeOK
  <1>14. WalkStands'
    <2>1. w # <<>> => c # 0
      BY <1>10, EmptySeq
    <2>2. None \notin Nodes /\ None # Root
      BY HierarchyAssumption DEF Ids
    <2>3. Len(w) <= MaxDepth + 1
      BY <1>4, <1>10, HierarchyAssumption
    <2> QED BY <1>8, <2>1, <2>2, <2>3 DEF WalkStands
  <1>15. WalkAccounts'
    BY <1>8, <1>12 DEF WalkAccounts
  <1> QED BY <1>13, <1>14, <1>15 DEF WalkInv

LEMMA WalkGoesOn == WalkInv /\ [WalkNext]_walk => WalkInv'
  <1>1. WalkInv /\ UNCHANGED walk => WalkInv'
    <2> SUFFICES ASSUME WalkInv, UNCHANGED walk PROVE WalkInv'
      OBVIOUS
    <2>1. /\ graph' = graph /\ status' = status /\ wanted' = wanted /\ stack' = stack
          /\ found' = found
      BY DEF walk
    <2> QED BY <2>1 DEF WalkInv, WalkTypeOK, WalkStands, WalkAccounts
  <1> QED BY <1>1, BuildSteps, AnsweredSteps, RefusedSteps, RefusedRootSteps, DescendSteps,
             AscendSteps DEF WalkNext, WalkStep

\* The invariant gives what a walk that returned tells.
LEMMA WalkTold == WalkInv => WalkTells
  <1> SUFFICES ASSUME WalkInv, status = "ok" PROVE WalkTells
    BY DEF WalkTells
  <1>1. PICK t \in Seq(TreeEntries), nav \in Graphs : t = found /\ nav = graph
    BY FoundIsTree DEF WalkInv, WalkTypeOK
  <1>2. stack = <<>> /\ wanted = None
    BY DEF WalkInv, WalkStands
  <1>3. PICK n \in Nat : n = Len(t) /\ DOMAIN t = 1 .. n
    BY LenProperties
  <1>4. \A j \in 1 .. n : t[j].id \in Ids /\ t[j].level \in Nat
    <2>1. \A j \in 1 .. n : t[j] \in TreeEntries
      BY <1>3, ElementOfSeq
    <2> QED BY <2>1 DEF TreeEntries
  <1>5. ASSUME NEW i \in 0 .. n PROVE IdsAt(t, KidsOf(t, i)) = OwedIn(nav, t, i)
    <2>1. AccountsFor(nav, t, <<>>, i)
      BY <1>1, <1>2, <1>3 DEF WalkInv, WalkAccounts
    <2>2. RestIn(t, <<>>, i) = <<>>
      <3>1. Len(<<>>) = 0
        OBVIOUS
      <3>2. PICK e \in Nat : e = Deep(t, i)
        BY <1>3, LastIsBare
      <3> QED BY <3>1, <3>2 DEF RestIn
    <2>3. PICK a \in Seq(Ids) : a = IdsAt(t, KidsOf(t, i))
      <3>1. Grows(t, t, <<>>, 0)
        <4>1. <<>> \in Seq(Ids) /\ Len(<<>>) = 0 /\ 1 .. 0 = {}
          BY EmptySeq
        <4>2. Len(t) = Len(t) + 0
          BY <1>3
        <4> QED BY <1>3, <1>4, <4>1, <4>2 DEF Grows
      <3>2. Follows(t, t, <<>>, 0)
        BY <3>1, TreeFollows
      <3> QED BY <1>3, <3>2 DEF Follows
    <2>4. Chained(a, <<>>) = a
      BY ChainEmpty
    <2> QED BY <2>1, <2>2, <2>3, <2>4 DEF AccountsFor
  <1>6. IdsOf({j \in DOMAIN found : found[j].level = 0}) = ListedIn(Root)
    <2>1. {j \in DOMAIN t : t[j].level = 0} = KidsOf(t, 0)
      BY <1>3, <1>4 DEF KidsOf, Deep
    <2>2. OwedIn(nav, t, 0) = nav[Root].nodes \o nav[Root].markets
      BY DEF OwedIn, Whole
    <2>3. IdsAt(t, KidsOf(t, 0)) = OwedIn(nav, t, 0)
      BY <1>5
    <2> QED BY <1>1, <2>1, <2>2, <2>3, IdsOfIs DEF ListedIn
  <1>7. ASSUME NEW i \in DOMAIN found
        PROVE  IdsOf({j \in Below(i) : found[j].level = found[i].level + 1}) =
                 IF found[i].kind = "node" /\ found[i].level < MaxDepth
                 THEN ListedIn(found[i].id)
                 ELSE <<>>
    <2>1. i \in 1 .. n /\ i # 0 /\ i \in 0 .. n
      BY <1>1, <1>3
    <2>2. PICK l \in Nat : l = t[i].level
      BY <1>4, <2>1
    <2>3. ASSUME NEW k \in i + 1 .. n PROVE t[k].level > l <=> l + 1 <= t[k].level
      <3>1. k \in 1 .. n
        BY <2>1
      <3>2. PICK x \in Nat : x = t[k].level
        BY <1>4, <3>1
      <3> QED BY <3>2
    <2>4. Below(i) = {j \in i + 1 .. n : \A k \in i + 1 .. j : t[k].level > l}
      BY <1>1, <1>3, <2>2 DEF Below
    <2>5. KidsOf(t, i) = {j \in i + 1 .. n : t[j].level = l + 1 /\ \A k \in i + 1 .. j : l + 1 <= t[k].level}
      BY <1>3, <2>1, <2>2 DEF KidsOf, Deep
    <2>6. ASSUME NEW j \in i + 1 .. n
          PROVE  (\A k \in i + 1 .. j : t[k].level > l) <=> (\A k \in i + 1 .. j : l + 1 <= t[k].level)
      <3>1. \A k \in i + 1 .. j : k \in i + 1 .. n
        OBVIOUS
      <3> QED BY <2>3, <3>1
    <2>7. {j \in Below(i) : t[j].level = l + 1} = KidsOf(t, i)
      BY <2>4, <2>5, <2>6
    <2>8. IdsOf(KidsOf(t, i)) = OwedIn(nav, t, i)
      BY <1>1, <1>5, <2>1, IdsOfIs
    <2>9. OwedIn(nav, t, i) = IF t[i].kind = "node" /\ t[i].level < MaxDepth THEN ListedIn(t[i].id) ELSE <<>>
      BY <1>1, <2>1 DEF OwedIn, Whole, ListedIn
    <2> QED BY <1>1, <2>2, <2>7, <2>8, <2>9
  <1> QED BY <1>6, <1>7 DEF WalkTells

\* The tree of a walk that returned (build_market_hierarchy) tells IG's navigation, whatever
\* the navigation is, whatever cycles and repetitions are in it, whichever requests fail and
\* at any bound on the depth.
THEOREM TreesAreTold == WalkInit /\ [][WalkNext]_walk => []WalkTells
  <1> QED BY WalkBegins, WalkGoesOn, WalkTold, PTL

-----------------------------------------------------------------------------
(* The price store.                                                        *)

PricesNext == \E p \in Procs : Initialize(p) \/ StorePrices(p) \/ PriceStep(p)

PricesSpec == PricesInit /\ [][PricesNext]_prs

Names7 == {"create_table", "add_column", "drop_legacy", "add_unique", "create_index",
           "drop_trigger", "create_trigger"}

\* The statement after each, and the end of a migration.
Following ==
  [create_table |-> "add_column", add_column |-> "drop_legacy", drop_legacy |-> "add_unique",
   add_unique |-> "create_index", create_index |-> "drop_trigger",
   drop_trigger |-> "create_trigger", create_trigger |-> "idle"]

\* A migration goes on with the next statement, or has returned.
LEMMA StatementGoesOn ==
  ASSUME NEW p \in Procs, NEW name \in Names7, NEW s, Statement(p, name, s)
  PROVE  /\ at[p] = name /\ schema' = s /\ UNCHANGED store
         /\ name # "create_table" => \A q \in Procs : dirty[q] = {}
         /\ at' = [at EXCEPT ![p] = Following[name]]
         /\ IF name = "create_trigger" THEN migrated' = TRUE ELSE UNCHANGED migrated
  <1> DEFINE n == CHOOSE i \in DOMAIN Statements : Statements[i] = name
  <1>1. DOMAIN Statements = 1 .. 7 /\ Len(Statements) = 7
    BY DEF Statements
  <1>2. \E i \in DOMAIN Statements : Statements[i] = name
    BY <1>1 DEF Statements, Names7
  <1>3. n \in DOMAIN Statements /\ Statements[n] = name
    BY <1>2
  <1>4. /\ at[p] = name /\ schema' = s /\ UNCHANGED store
        /\ name # "create_table" => \A q \in Procs : dirty[q] = {}
        /\ IF n = Len(Statements)
           THEN at' = [at EXCEPT ![p] = "idle"] /\ migrated' = TRUE
           ELSE at' = [at EXCEPT ![p] = Statements[n + 1]] /\ UNCHANGED migrated
    BY DEF Statement
  <1> HIDE DEF n
  <1> QED BY <1>1, <1>3, <1>4 DEF Statements, Following

\* What a process has done of its migration holds for good.
Migrates(p) ==
  /\ at[p] \in Names7 \ {"create_table"} => schema.table
  /\ at[p] \in {"add_unique", "create_index", "drop_trigger", "create_trigger"}
       => "legacy" \notin schema.unique
  /\ at[p] \in {"create_index", "drop_trigger", "create_trigger"} => AlreadyExists
  /\ at[p] \in {"drop_trigger", "create_trigger"} => schema.resolution

\* The open transactions have written different rows, and count the new ones among them.
CountsNew(p) ==
  /\ at[p] # "store" => dirty[p] = {} /\ added[p] = 0
  /\ IsFiniteSet(dirty[p]) /\ added[p] = Cardinality(dirty[p] \ prices)
  /\ \A q \in Procs \ {p} : dirty[p] \cap dirty[q] = {}

PricesInv ==
  /\ PricesTypeOK
  /\ PricesUsable
  /\ IsFiniteSet(prices)
  /\ \A p \in Procs : Migrates(p)
  /\ \A p \in Procs : CountsNew(p)

LEMMA StatementNames == {Statements[i] : i \in DOMAIN Statements} = Names7
  <1>1. DOMAIN Statements = 1 .. 7
    BY DEF Statements
  <1>2. ASSUME NEW name \in Names7 PROVE \E i \in DOMAIN Statements : name = Statements[i]
    BY <1>1 DEF Statements, Names7
  <1>3. ASSUME NEW i \in DOMAIN Statements PROVE Statements[i] \in Names7
    BY <1>1 DEF Statements, Names7
  <1> QED BY <1>2, <1>3

\* The schema as statements leave it.
Advances(s) ==
  /\ s \in Schemas
  /\ schema.table => s.table
  /\ s.orphan = schema.orphan
  /\ schema.table => (schema.resolution => s.resolution)
  /\ schema.table => ("current" \in schema.unique => "current" \in s.unique)
  /\ "legacy" \notin schema.unique => "legacy" \notin s.unique

LEMMA StatementKeeps ==
  ASSUME PricesInv, NEW p \in Procs, NEW name \in Names7, NEW s, Statement(p, name, s),
         Advances(s),
         name = "create_table" => s.table,
         name = "drop_legacy" => "legacy" \notin s.unique,
         name = "add_unique" => "current" \in s.unique \/ s.orphan,
         name = "create_index" => s.resolution
  PROVE  PricesInv'
  <1>1. /\ at[p] = name /\ schema' = s /\ UNCHANGED store
        /\ name # "create_table" => \A q \in Procs : dirty[q] = {}
        /\ at' = [at EXCEPT ![p] = Following[name]]
        /\ IF name = "create_trigger" THEN migrated' = TRUE ELSE UNCHANGED migrated
    BY StatementGoesOn, Zenon
  <1>0. at \in [Procs -> {"idle", "store"} \cup Names7] /\ migrated \in BOOLEAN
    BY StatementNames DEF PricesInv, PricesTypeOK
  <1>2. /\ at' \in [Procs -> {"idle", "store"} \cup Names7]
        /\ at'[p] \notin {"store", "create_table"}
        /\ \A q \in Procs \ {p} : at'[q] = at[q]
        /\ migrated' \in BOOLEAN
        /\ migrated' => migrated \/ name = "create_trigger"
    <2>2. /\ at' = [at EXCEPT ![p] = Following[name]]
          /\ Following[name] \in {"idle"} \cup (Names7 \ {"create_table"})
      BY <1>1 DEF Names7, Following
    <2>3. CASE name = "create_trigger"
      BY <1>0, <1>1, <2>2, <2>3 DEF Names7
    <2>4. CASE name # "create_trigger"
      BY <1>0, <1>1, <2>2, <2>4 DEF Names7
    <2> QED BY <2>3, <2>4
  <1>3. PricesTypeOK'
    BY <1>1, <1>2, StatementNames DEF PricesInv, PricesTypeOK, Advances, store
  <1>4. schema \in Schemas
    BY DEF PricesInv, PricesTypeOK
  <1>5. ASSUME NEW q \in Procs PROVE Migrates(q)'
    <2>1. CASE q = p
      <3>1. at'[p] \in Names7 => s.table
        BY <1>1, <1>0, <2>1 DEF PricesInv, PricesTypeOK, Migrates, Advances, Names7, Following
      <3>2. at'[p] \in {"add_unique", "create_index", "drop_trigger", "create_trigger"}
              => "legacy" \notin s.unique
        BY <1>1, <1>0, <2>1 DEF PricesInv, PricesTypeOK, Migrates, Advances, Names7, Following
      <3>3. at'[p] \in {"create_index", "drop_trigger", "create_trigger"}
              => "current" \in s.unique \/ s.orphan
        BY <1>1, <1>0, <2>1
        DEF PricesInv, PricesTypeOK, Migrates, Advances, Names7, Following, AlreadyExists
      <3>4. at'[p] \in {"drop_trigger", "create_trigger"} => s.resolution
        BY <1>1, <1>0, <2>1 DEF PricesInv, PricesTypeOK, Migrates, Advances, Names7, Following
      <3> QED BY <1>1, <1>2, <2>1, <3>1, <3>2, <3>3, <3>4 DEF Migrates, AlreadyExists
    <2>2. CASE q # p
      BY <1>1, <1>2, <1>4, <2>2 DEF PricesInv, Migrates, Advances, AlreadyExists, Names7
    <2> QED BY <2>1, <2>2
  <1>6. PricesUsable'
    <2>1. migrated => Usable' /\ "legacy" \notin s.unique
      BY <1>1 DEF PricesInv, PricesUsable, Usable, Advances
    <2>2. name = "create_trigger" => Usable' /\ "legacy" \notin s.unique
      BY <1>1 DEF PricesInv, Migrates, Usable, AlreadyExists, Advances, Names7
    <2>3. Cardinality(prices') = reported'
      BY <1>1 DEF PricesInv, PricesUsable, store
    <2> QED BY <1>1, <1>2, <2>1, <2>2, <2>3 DEF PricesUsable
  <1>7. ASSUME NEW q \in Procs PROVE CountsNew(q)'
    <2>1. CountsNew(q) /\ CountsNew(p)
      BY DEF PricesInv
    <2>2. /\ at[p] # "store" /\ at'[p] # "store"
          /\ \A r \in Procs : dirty'[r] = dirty[r] /\ added'[r] = added[r]
          /\ prices' = prices
      BY <1>1, <1>2 DEF store, Names7
    <2>3. at'[q] # "store" => at[q] # "store"
      BY <1>2, <2>2
    <2> QED BY <2>1, <2>2, <2>3 DEF CountsNew
  <1> QED BY <1>1, <1>3, <1>5, <1>6, <1>7 DEF PricesInv, store

LEMMA PriceStatements ==
  ASSUME PricesInv, NEW p \in Procs,
         \/ CreateTable(p) \/ AddColumn(p) \/ DropLegacy(p) \/ AddUnique(p)
         \/ CreateIndex(p) \/ DropTrigger(p) \/ CreateTrigger(p)
  PROVE  PricesInv'
  <1>0. schema \in Schemas
    BY DEF PricesInv, PricesTypeOK
  <1> DEFINE created == [schema EXCEPT !.table = TRUE, !.resolution = TRUE, !.unique = {"current"}]
  <1>1. CASE CreateTable(p)
    <2>1. CASE schema.table
      <3>1. Statement(p, "create_table", schema)
        BY <1>1, <2>1 DEF CreateTable
      <3>2. Advances(schema)
        BY <1>0 DEF Advances
      <3> QED BY <2>1, <3>1, <3>2, StatementKeeps DEF Names7
    <2>2. CASE ~schema.table
      <3>1. Statement(p, "create_table", created)
        BY <1>1, <2>2 DEF CreateTable
      <3>2. Advances(created) /\ created.table
        BY <1>0, <2>2 DEF Advances, Schemas
      <3> QED BY <3>1, <3>2, StatementKeeps DEF Names7
    <2> QED BY <2>1, <2>2
  <1>2. CASE AddColumn(p)
    <2> DEFINE s == [schema EXCEPT !.resolution = TRUE]
    <2>1. Advances(s) /\ Advances(schema)
      BY <1>0 DEF Advances, Schemas
    <2>2. Statement(p, "add_column", s) \/ Statement(p, "add_column", schema)
      BY <1>2 DEF AddColumn
    <2> HIDE DEF s
    <2> QED BY <2>1, <2>2, StatementKeeps DEF Names7
  <1>3. CASE DropLegacy(p)
    <2> DEFINE s == [schema EXCEPT !.unique = @ \ {"legacy"}]
    <2>1. Advances(s) /\ "legacy" \notin s.unique
      BY <1>0 DEF Advances, Schemas
    <2>2. Statement(p, "drop_legacy", s)
      BY <1>3 DEF DropLegacy
    <2> HIDE DEF s
    <2> QED BY <2>1, <2>2, StatementKeeps DEF Names7
  <1>4. CASE AddUnique(p)
    <2> DEFINE s == [schema EXCEPT !.unique = @ \cup {"current"}]
    <2>1. Advances(s) /\ "current" \in s.unique /\ Advances(schema)
      BY <1>0 DEF Advances, Schemas
    <2>2. \/ AlreadyExists /\ Statement(p, "add_unique", schema)
          \/ Statement(p, "add_unique", s)
      BY <1>4 DEF AddUnique
    <2> HIDE DEF s
    <2>3. CASE AlreadyExists /\ Statement(p, "add_unique", schema)
      BY <2>1, <2>3, StatementKeeps DEF Names7, AlreadyExists
    <2>4. CASE Statement(p, "add_unique", s)
      BY <2>1, <2>4, StatementKeeps DEF Names7
    <2> QED BY <2>2, <2>3, <2>4
  <1>5. CASE CreateIndex(p)
    <2>1. Advances(schema) /\ schema.resolution /\ Statement(p, "create_index", schema)
      BY <1>0, <1>5 DEF Advances, CreateIndex
    <2> QED BY <2>1, StatementKeeps DEF Names7
  <1>6. CASE DropTrigger(p)
    <2> DEFINE s == [schema EXCEPT !.trigger = FALSE]
    <2>1. Advances(s) /\ Statement(p, "drop_trigger", s)
      BY <1>0, <1>6 DEF Advances, Schemas, DropTrigger
    <2> HIDE DEF s
    <2> QED BY <2>1, StatementKeeps DEF Names7
  <1>7. CASE CreateTrigger(p)
    <2> DEFINE s == [schema EXCEPT !.trigger = TRUE]
    <2>1. Advances(s) /\ Statement(p, "create_trigger", s)
      BY <1>0, <1>7 DEF Advances, Schemas, CreateTrigger
    <2> HIDE DEF s
    <2> QED BY <2>1, StatementKeeps DEF Names7
  <1> QED BY <1>1, <1>2, <1>3, <1>4, <1>5, <1>6, <1>7

\* What a step does that leaves the schema alone.
LEMMA PriceRows ==
  ASSUME PricesInv, NEW p \in Procs, UNCHANGED <<schema, migrated>>,
         \A q \in Procs \ {p} : at'[q] = at[q] /\ dirty'[q] = dirty[q] /\ added'[q] = added[q],
         at'[p] \in {"idle", "store", "create_table"},
         PricesTypeOK', IsFiniteSet(prices'), Cardinality(prices') = reported',
         CountsNew(p)', prices \subseteq prices',
         \A q \in Procs \ {p} : dirty[q] \cap (dirty'[p] \cup (prices' \ prices)) = {}
  PROVE  PricesInv'
  <1>1. PricesUsable'
    BY DEF PricesInv, PricesUsable, Usable
  <1>2. ASSUME NEW q \in Procs PROVE Migrates(q)'
    BY DEF PricesInv, Migrates, AlreadyExists, Names7
  <1>3. ASSUME NEW q \in Procs PROVE CountsNew(q)'
    <2>1. CASE q = p
      BY <2>1
    <2>2. CASE q # p
      <3>1. CountsNew(q) /\ dirty'[q] = dirty[q] /\ added'[q] = added[q] /\ at'[q] = at[q]
        BY <2>2 DEF PricesInv
      <3>2. dirty[q] \ prices' = dirty[q] \ prices
        BY <2>2 DEF PricesInv, PricesTypeOK
      <3>3. \A r \in Procs \ {q} : dirty'[q] \cap dirty'[r] = {}
        BY <2>2, <3>1 DEF CountsNew
      <3> QED BY <3>1, <3>2, <3>3 DEF CountsNew
    <2> QED BY <2>1, <2>2
  <1> QED BY <1>1, <1>2, <1>3 DEF PricesInv

\* The row that an upsert writes is new, or counted before.
LEMMA UpsertKeeps ==
  ASSUME PricesInv, NEW p \in Procs, UpsertPrice(p)
  PROVE  PricesInv'
  <1> DEFINE k == Head(todo[p])
  <1>1. todo[p] \in Seq(Keys \cup {BadTime}) /\ todo[p] # <<>>
    BY DEF PricesInv, PricesTypeOK, UpsertPrice
  <1>2. k \in Keys /\ Tail(todo[p]) \in Seq(Keys \cup {BadTime})
    BY <1>1, HeadTailProperties DEF UpsertPrice
  <1>3. /\ at[p] = "store" /\ UNCHANGED <<schema, prices, at, reported, migrated>>
        /\ \A q \in Procs \ {p} : k \notin dirty[q]
        /\ added' = [added EXCEPT ![p] = @ + IF IsNew(p, k) THEN 1 ELSE 0]
        /\ dirty' = [dirty EXCEPT ![p] = @ \cup {k}]
        /\ todo' = [todo EXCEPT ![p] = Tail(@)]
    BY DEF UpsertPrice
  <1> HIDE DEF k
  <1>4. CountsNew(p) /\ dirty[p] \in SUBSET Keys /\ added[p] \in Nat
    BY DEF PricesInv, PricesTypeOK
  <1>5. /\ dirty'[p] = dirty[p] \cup {k}
        /\ added'[p] = added[p] + IF IsNew(p, k) THEN 1 ELSE 0
        /\ \A q \in Procs \ {p} : dirty'[q] = dirty[q] /\ added'[q] = added[q]
    BY <1>3 DEF PricesInv, PricesTypeOK
  <1>6. IsFiniteSet(dirty'[p]) /\ added'[p] = Cardinality(dirty'[p] \ prices)
    <2>1. IsFiniteSet(dirty[p]) /\ IsFiniteSet(dirty[p] \ prices) /\ IsFiniteSet(dirty[p] \cup {k})
      BY <1>4, FS_Difference, FS_AddElement DEF CountsNew
    <2>2. CASE IsNew(p, k)
      <3>1. (dirty[p] \cup {k}) \ prices = (dirty[p] \ prices) \cup {k} /\ k \notin dirty[p] \ prices
        BY <2>2 DEF IsNew
      <3>2. Cardinality((dirty[p] \ prices) \cup {k}) = Cardinality(dirty[p] \ prices) + 1
        BY <2>1, <3>1, FS_AddElement
      <3> QED BY <1>4, <1>5, <2>1, <2>2, <3>1, <3>2 DEF CountsNew
    <2>3. CASE ~IsNew(p, k)
      <3>1. (dirty[p] \cup {k}) \ prices = dirty[p] \ prices
        BY <2>3 DEF IsNew
      <3>2. added'[p] = added[p]
        BY <1>4, <1>5, <2>3
      <3> QED BY <1>4, <1>5, <2>1, <3>1, <3>2 DEF CountsNew
    <2> QED BY <2>2, <2>3
  <1>7. CountsNew(p)'
    BY <1>3, <1>4, <1>5, <1>6 DEF CountsNew
  <1>8. PricesTypeOK'
    BY <1>1, <1>2, <1>3 DEF PricesInv, PricesTypeOK
  <1>9. IsFiniteSet(prices') /\ Cardinality(prices') = reported'
    BY <1>3 DEF PricesInv, PricesUsable
  <1>10. \A q \in Procs \ {p} : dirty[q] \cap (dirty'[p] \cup (prices' \ prices)) = {}
    BY <1>3, <1>4, <1>5 DEF CountsNew
  <1>11. /\ UNCHANGED <<schema, migrated>> /\ prices \subseteq prices'
         /\ \A q \in Procs \ {p} : at'[q] = at[q] /\ dirty'[q] = dirty[q] /\ added'[q] = added[q]
         /\ at'[p] \in {"idle", "store", "create_table"}
    BY <1>3, <1>5
  <1> QED BY <1>7, <1>8, <1>9, <1>10, <1>11, PriceRows

\* A commit adds the new rows it counted; nobody else has written them.
LEMMA CommitKeeps ==
  ASSUME PricesInv, NEW p \in Procs, CommitPrices(p)
  PROVE  PricesInv'
  <1>1. /\ at[p] = "store" /\ UNCHANGED <<schema, todo, migrated>>
        /\ prices' = prices \cup dirty[p] /\ reported' = reported + added[p]
        /\ dirty' = [dirty EXCEPT ![p] = {}] /\ added' = [added EXCEPT ![p] = 0]
        /\ at' = [at EXCEPT ![p] = "idle"]
    BY DEF CommitPrices
  <1>2. /\ CountsNew(p) /\ dirty[p] \in SUBSET Keys /\ added[p] \in Nat
        /\ IsFiniteSet(prices) /\ Cardinality(prices) = reported
    BY DEF PricesInv, PricesTypeOK, PricesUsable
  <1>3. IsFiniteSet(prices') /\ Cardinality(prices') = reported'
    <2>1. PICK new : new = dirty[p] \ prices
      OBVIOUS
    <2>2. IsFiniteSet(new) /\ added[p] = Cardinality(new)
      BY <1>2, <2>1, FS_Difference DEF CountsNew
    <2>3. prices' = prices \cup new /\ prices \cap new = {}
      BY <1>1, <2>1
    <2>4. /\ IsFiniteSet(prices \cup new)
          /\ Cardinality(prices \cup new) = Cardinality(prices) + Cardinality(new) - Cardinality(prices \cap new)
      BY <1>2, <2>2, FS_Union
    <2>5. Cardinality({}) = 0 /\ Cardinality(prices) \in Nat /\ Cardinality(new) \in Nat
      BY <1>2, <2>2, FS_EmptySet, FS_CardinalityType
    <2>6. Cardinality(prices \cup new) = reported + added[p]
      <3>1. Cardinality(prices \cap new) = 0
        BY <2>3, <2>5, Zenon
      <3>2. /\ Cardinality(prices \cup new)
                 = Cardinality(prices) + Cardinality(new) - Cardinality(prices \cap new)
            /\ Cardinality(prices) = reported /\ Cardinality(new) = added[p]
        BY <1>2, <2>2, <2>4
      <3> QED BY <2>5, <3>1, <3>2
    <2> QED BY <1>1, <2>3, <2>4, <2>6
  <1>4. /\ dirty'[p] = {} /\ added'[p] = 0 /\ at'[p] = "idle"
        /\ \A q \in Procs \ {p} : dirty'[q] = dirty[q] /\ added'[q] = added[q] /\ at'[q] = at[q]
    BY <1>1 DEF PricesInv, PricesTypeOK
  <1>5. CountsNew(p)'
    <2>1. {} \ prices' = {} /\ IsFiniteSet({}) /\ Cardinality({}) = 0
      BY FS_EmptySet
    <2> QED BY <1>4, <2>1 DEF CountsNew
  <1>6. PricesTypeOK'
    BY <1>1, <1>2 DEF PricesInv, PricesTypeOK
  <1>7. \A q \in Procs \ {p} : dirty[q] \cap (dirty'[p] \cup (prices' \ prices)) = {}
    BY <1>1, <1>2, <1>4 DEF CountsNew
  <1> QED BY <1>1, <1>3, <1>4, <1>5, <1>6, <1>7, PriceRows

\* A process that begins, stops, or passes over a price has written nothing.
LEMMA OtherPriceSteps ==
  ASSUME PricesInv, NEW p \in Procs,
         Initialize(p) \/ StorePrices(p) \/ SkipPrice(p) \/ Stop(p)
  PROVE  PricesInv'
  <1>1. /\ at \in [Procs -> {"idle", "store"} \cup Names7] /\ dirty \in [Procs -> SUBSET Keys]
        /\ added \in [Procs -> Nat] /\ todo \in [Procs -> Seq(Keys \cup {BadTime})]
    BY StatementNames DEF PricesInv, PricesTypeOK
  <1>2. UNCHANGED <<schema, migrated, prices, reported>>
    BY DEF Initialize, StorePrices, SkipPrice, Stop, store
  <1>3. /\ \A q \in Procs \ {p} : at'[q] = at[q] /\ dirty'[q] = dirty[q] /\ added'[q] = added[q]
        /\ at'[p] \in {"idle", "store", "create_table"}
        /\ at' \in [Procs -> {"idle", "store"} \cup Names7]
    BY <1>1 DEF Initialize, StorePrices, SkipPrice, Stop, store, Names7
  <1>4. /\ \/ dirty'[p] = {} /\ added'[p] = 0
           \/ at[p] = "store" /\ at'[p] = "store" /\ dirty'[p] = dirty[p] /\ added'[p] = added[p]
        /\ dirty' \in [Procs -> SUBSET Keys] /\ added' \in [Procs -> Nat]
    <2>1. CASE Initialize(p)
      BY <1>1, <2>1 DEF Initialize, store, PricesInv, CountsNew
    <2>2. CASE StorePrices(p)
      BY <1>1, <2>2 DEF StorePrices
    <2>3. CASE SkipPrice(p)
      BY <1>1, <2>3 DEF SkipPrice
    <2>4. CASE Stop(p)
      BY <1>1, <2>4 DEF Stop
    <2> QED BY <2>1, <2>2, <2>3, <2>4
  <1>5. todo' \in [Procs -> Seq(Keys \cup {BadTime})]
    <2>1. CASE Initialize(p)
      BY <1>1, <2>1 DEF Initialize, store
    <2>2. CASE StorePrices(p)
      BY <1>1, <2>2, PriceAssumption DEF StorePrices, PricesInv, PricesTypeOK
    <2>3. CASE SkipPrice(p)
      BY <1>1, <2>3 DEF SkipPrice
    <2>4. CASE Stop(p)
      BY <1>1, <2>4 DEF Stop
    <2> QED BY <2>1, <2>2, <2>3, <2>4
  <1>6. PricesTypeOK'
    BY <1>2, <1>3, <1>4, <1>5, StatementNames DEF PricesInv, PricesTypeOK
  <1>7. CountsNew(p)'
    <2>1. CountsNew(p)
      BY DEF PricesInv
    <2>2. {} \ prices' = {} /\ IsFiniteSet({}) /\ Cardinality({}) = 0
      BY FS_EmptySet
    <2> QED BY <1>2, <1>3, <1>4, <2>1, <2>2 DEF CountsNew
  <1>8. \A q \in Procs \ {p} : dirty[q] \cap (dirty'[p] \cup (prices' \ prices)) = {}
    BY <1>2, <1>4 DEF PricesInv, CountsNew
  <1>9. IsFiniteSet(prices') /\ Cardinality(prices') = reported'
    BY <1>2 DEF PricesInv, PricesUsable
  <1> QED BY <1>2, <1>3, <1>6, <1>7, <1>8, <1>9, PriceRows

LEMMA PricesBegin == PricesInit => PricesInv
  <1> SUFFICES ASSUME PricesInit PROVE PricesInv
    OBVIOUS
  <1>1. IsFiniteSet({}) /\ Cardinality({}) = 0 /\ {} \ {} = {}
    BY FS_EmptySet
  <1>2. PricesTypeOK
    <2>1. schema \in Schemas
      BY PriceAssumption DEF PricesInit
    <2>2. todo \in [Procs -> Seq(Keys \cup {BadTime})]
      BY DEF PricesInit
    <2> QED BY <2>1, <2>2 DEF PricesInit, PricesTypeOK
  <1>3. PricesUsable
    BY <1>1 DEF PricesInit, PricesUsable
  <1>4. ASSUME NEW p \in Procs PROVE Migrates(p) /\ CountsNew(p)
    BY <1>1 DEF PricesInit, Migrates, CountsNew, Names7
  <1> QED BY <1>1, <1>2, <1>3, <1>4 DEF PricesInv, PricesInit

LEMMA PricesStep == PricesInv /\ [PricesNext]_prs => PricesInv'
  <1> SUFFICES ASSUME PricesInv, [PricesNext]_prs PROVE PricesInv'
    OBVIOUS
  <1>1. ASSUME NEW p \in Procs, Initialize(p) \/ StorePrices(p) \/ PriceStep(p) PROVE PricesInv'
    BY <1>1, PriceStatements, UpsertKeeps, CommitKeeps, OtherPriceSteps DEF PriceStep
  <1>2. CASE UNCHANGED prs
    BY <1>2 DEF prs, PricesInv, PricesTypeOK, PricesUsable, Usable, Migrates, AlreadyExists, CountsNew
  <1> QED BY <1>1, <1>2 DEF PricesNext

\* Once an initialization has returned no batch is refused by the schema, whatever database it
\* found and whoever stopped half way; and the reported insertions add up to the rows.
THEOREM PricesAdd == PricesSpec => []PricesUsable
  <1>1. PricesInv => PricesUsable
    BY DEF PricesInv
  <1> QED BY <1>1, PricesBegin, PricesStep, PTL DEF PricesSpec
-----------------------------------------------------------------------------
(* The filtered markets.                                                   *)

FilteredNext == \E w \in Writers : StoreFiltered(w) \/ FilteredStep(w)

FilteredSpec == FilteredInit /\ [][FilteredNext]_flt

\* A row is what the last of the places `at` of a walk says; there is none without a place.
RowTold(row, tree, places) ==
  IF places = {} THEN row = NoRow
  ELSE /\ row # NoRow
       /\ \E i \in places : /\ \A j \in places : j <= i
                           /\ row.name = tree[i].name
                           /\ row.symbol \in SymbolsFor(tree[i])

\* A writer has processed the first n listings of its walk: its open rows are theirs.
Processed(w, n) ==
  /\ n \in 0 .. Len(walked[w])
  /\ unseen[w] \in Seq(Listed) /\ Len(unseen[w]) = Len(walked[w]) - n
  /\ \A i \in 1 .. Len(unseen[w]) : unseen[w][i] = walked[w][n + i]
  /\ \A e \in Filed :
       RowTold(unsaved[w][e], walked[w], {i \in Lists(walked[w], e) : i <= n})

FilteredInv ==
  /\ FilteredTypeOK
  /\ FilteredTells
  /\ \A w \in Writers : writing[w] = "writing" => \E n \in Nat : Processed(w, n)

\* One more listing: it adds itself to the places of its own EPIC, if its form is right.
LEMMA NextListing ==
  ASSUME FilteredInv, NEW w \in Writers, NEW n \in Nat, Processed(w, n), unseen[w] # <<>>
  PROVE  /\ n + 1 \in 1 .. Len(walked[w]) /\ walked[w][n + 1] = Head(unseen[w])
         /\ Head(unseen[w]) \in Listed /\ Head(unseen[w]).epic \in Filed
         /\ Tail(unseen[w]) \in Seq(Listed)
         /\ Len(Tail(unseen[w])) = Len(walked[w]) - (n + 1)
         /\ \A i \in 1 .. Len(Tail(unseen[w])) : Tail(unseen[w])[i] = walked[w][n + 1 + i]
         /\ \A e \in Filed :
              {i \in Lists(walked[w], e) : i <= n + 1}
                = {i \in Lists(walked[w], e) : i <= n}
                    \cup (IF Head(unseen[w]).epic = e /\ ValidFormat(Head(unseen[w]))
                          THEN {n + 1} ELSE {})
  <1>1. walked[w] \in Seq(Listed) /\ Len(walked[w]) \in Nat /\ DOMAIN walked[w] = 1 .. Len(walked[w])
    BY FilteredAssumption DEF FilteredInv, FilteredTypeOK
  <1>2. unseen[w] \in Seq(Listed) /\ Len(unseen[w]) = Len(walked[w]) - n /\ n \in 0 .. Len(walked[w])
    BY DEF Processed
  <1>3. /\ Head(unseen[w]) = unseen[w][1] /\ Head(unseen[w]) \in Listed
        /\ Len(unseen[w]) \in Nat \ {0} /\ Tail(unseen[w]) \in Seq(Listed)
        /\ Len(Tail(unseen[w])) = Len(unseen[w]) - 1
        /\ \A i \in 1 .. Len(Tail(unseen[w])) : Tail(unseen[w])[i] = unseen[w][i + 1]
    BY <1>2, HeadTailProperties, EmptySeq
  <1>4. n + 1 \in 1 .. Len(walked[w]) /\ walked[w][n + 1] = Head(unseen[w])
    BY <1>1, <1>2, <1>3 DEF Processed
  <1>5. \A i \in 1 .. Len(Tail(unseen[w])) : Tail(unseen[w])[i] = walked[w][n + 1 + i]
    BY <1>1, <1>2, <1>3 DEF Processed
  <1>6. ASSUME NEW e \in Filed
        PROVE  {i \in Lists(walked[w], e) : i <= n + 1}
                 = {i \in Lists(walked[w], e) : i <= n}
                     \cup (IF Head(unseen[w]).epic = e /\ ValidFormat(Head(unseen[w]))
                           THEN {n + 1} ELSE {})
    <2>1. \A i \in Lists(walked[w], e) : i <= n + 1 <=> i <= n \/ i = n + 1
      BY <1>1 DEF Lists
    <2>2. n + 1 \in Lists(walked[w], e) <=> Head(unseen[w]).epic = e /\ ValidFormat(Head(unseen[w]))
      BY <1>1, <1>4 DEF Lists, ValidFormat
    <2>3. \A i \in Lists(walked[w], e) : i \in Nat
      BY <1>1 DEF Lists
    <2> QED BY <2>1, <2>2, <2>3
  <1> QED BY <1>2, <1>3, <1>4, <1>5, <1>6 DEF Filed

\* The other writers' progress is their own.
LEMMA ProcessedStays ==
  ASSUME NEW w \in Writers, NEW n, Processed(w, n),
         unseen'[w] = unseen[w], walked'[w] = walked[w], unsaved'[w] = unsaved[w]
  PROVE  Processed(w, n)'
  BY DEF Processed

LEMMA FilteredBegins ==
  ASSUME FilteredInv, NEW w \in Writers, StoreFiltered(w)
  PROVE  FilteredInv'
  <1>1. PICK tree \in Walks : /\ walked' = [walked EXCEPT ![w] = tree]
                              /\ unseen' = [unseen EXCEPT ![w] = tree]
    BY DEF StoreFiltered
  <1>2. /\ writing' = [writing EXCEPT ![w] = "writing"]
        /\ unsaved' = [unsaved EXCEPT ![w] = NoRows]
        /\ UNCHANGED <<filtered, complete>>
    BY DEF StoreFiltered
  <1>3. tree \in Seq(Listed) /\ Len(tree) \in Nat
    BY FilteredAssumption
  <1>4. FilteredTypeOK'
    BY <1>1, <1>2, <1>3 DEF FilteredInv, FilteredTypeOK, NoRows
  <1>5. FilteredTells'
    BY <1>2 DEF FilteredInv, FilteredTells
  <1>6. Processed(w, 0)'
    <2>1. walked'[w] = tree /\ unseen'[w] = tree /\ unsaved'[w] = NoRows
      BY <1>1, <1>2 DEF FilteredInv, FilteredTypeOK
    <2>2. \A e \in Filed : {i \in Lists(tree, e) : i <= 0} = {}
      BY <1>3 DEF Lists
    <2>3. \A e \in Filed : RowTold(NoRows[e], tree, {i \in Lists(tree, e) : i <= 0})
      BY <2>2 DEF RowTold, NoRows
    <2>4. /\ 0 \in 0 .. Len(tree) /\ Len(tree) = Len(tree) - 0
          /\ \A i \in 1 .. Len(tree) : tree[i] = tree[0 + i]
      BY <1>3
    <2> QED BY <1>3, <2>1, <2>3, <2>4, Zenon DEF Processed
  <1>7. ASSUME NEW x \in Writers, writing'[x] = "writing" PROVE \E n \in Nat : Processed(x, n)'
    <2>1. CASE x = w
      BY <1>6, <2>1
    <2>2. CASE x # w
      <3>1. /\ unseen'[x] = unseen[x] /\ walked'[x] = walked[x] /\ unsaved'[x] = unsaved[x]
            /\ writing[x] = "writing"
        BY <1>1, <1>2, <1>7, <2>2 DEF FilteredInv, FilteredTypeOK
      <3> QED BY <3>1, ProcessedStays DEF FilteredInv
    <2> QED BY <2>1, <2>2
  <1> QED BY <1>4, <1>5, <1>7 DEF FilteredInv

\* What a listing leaves of the open rows: its own row if it has the form of an option.
LEMMA ListingKeeps ==
  ASSUME FilteredInv, NEW w \in Writers, PassOver(w) \/ UpsertMarket(w)
  PROVE  FilteredInv'
  <1> DEFINE head == Head(unseen[w])
  <1>1. /\ writing[w] = "writing" /\ unseen[w] # <<>>
        /\ unseen' = [unseen EXCEPT ![w] = Tail(@)]
        /\ UNCHANGED <<filtered, walked, writing, complete>>
    BY DEF PassOver, UpsertMarket
  <1>2. PICK n \in Nat : Processed(w, n)
    BY <1>1 DEF FilteredInv
  <1>3. /\ n + 1 \in 1 .. Len(walked[w]) /\ walked[w][n + 1] = head
        /\ head \in Listed /\ head.epic \in Filed
        /\ Tail(unseen[w]) \in Seq(Listed)
        /\ Len(Tail(unseen[w])) = Len(walked[w]) - (n + 1)
        /\ \A i \in 1 .. Len(Tail(unseen[w])) : Tail(unseen[w])[i] = walked[w][n + 1 + i]
        /\ \A e \in Filed :
             {i \in Lists(walked[w], e) : i <= n + 1}
               = {i \in Lists(walked[w], e) : i <= n}
                   \cup (IF head.epic = e /\ ValidFormat(head) THEN {n + 1} ELSE {})
    BY <1>1, <1>2, NextListing
  <1> HIDE DEF head
  <1>4. /\ unsaved \in [Writers -> [Filed -> {NoRow} \cup MarketRows]]
        /\ unseen \in [Writers -> Seq(Listed)]
    BY DEF FilteredInv, FilteredTypeOK
  <1>5. /\ unsaved' \in [Writers -> [Filed -> {NoRow} \cup MarketRows]]
        /\ \A x \in Writers \ {w} : unsaved'[x] = unsaved[x]
        /\ \A e \in Filed :
             RowTold(unsaved'[w][e], walked[w], {i \in Lists(walked[w], e) : i <= n + 1})
    <2>1. CASE PassOver(w)
      <3>1. unsaved' = unsaved /\ ~ValidFormat(head)
        BY <2>1 DEF PassOver, head
      <3>2. \A e \in Filed : {i \in Lists(walked[w], e) : i <= n + 1} = {i \in Lists(walked[w], e) : i <= n}
        BY <1>3, <3>1
      <3> QED BY <1>2, <1>4, <3>1, <3>2 DEF Processed
    <2>2. CASE UpsertMarket(w)
      <3>1. PICK symbol \in SymbolsFor(head) :
              unsaved' = [unsaved EXCEPT ![w][head.epic] = [name |-> head.name, symbol |-> symbol]]
        BY <2>2 DEF UpsertMarket, head
      <3> DEFINE row == [name |-> head.name, symbol |-> symbol]
      <3>2. ValidFormat(head)
        BY <2>2 DEF UpsertMarket, head
      <3>3. row \in MarketRows /\ row # NoRow
        BY <1>3, <3>1, FilteredAssumption DEF MarketRows, SymbolsFor
      <3>4. row.name = head.name /\ row.symbol \in SymbolsFor(head)
        OBVIOUS
      <3> HIDE DEF row
      <3>5. /\ unsaved' \in [Writers -> [Filed -> {NoRow} \cup MarketRows]]
            /\ \A x \in Writers \ {w} : unsaved'[x] = unsaved[x]
            /\ unsaved'[w][head.epic] = row
            /\ \A e \in Filed : e # head.epic => unsaved'[w][e] = unsaved[w][e]
        BY <1>3, <1>4, <3>1, <3>3 DEF row
      <3>6. ASSUME NEW e \in Filed
            PROVE  RowTold(unsaved'[w][e], walked[w], {i \in Lists(walked[w], e) : i <= n + 1})
        <4>1. CASE e # head.epic
          <5>1. {i \in Lists(walked[w], e) : i <= n + 1} = {i \in Lists(walked[w], e) : i <= n}
            BY <1>3, <4>1
          <5> QED BY <1>2, <3>5, <4>1, <5>1 DEF Processed
        <4>2. CASE e = head.epic
          <5>1. PICK places : places = {i \in Lists(walked[w], e) : i <= n + 1}
            OBVIOUS
          <5>2. n + 1 \in places /\ \A j \in places : j <= n + 1
            BY <1>3, <3>2, <4>2, <5>1
          <5>3. /\ row # NoRow /\ row.name = walked[w][n + 1].name
                /\ row.symbol \in SymbolsFor(walked[w][n + 1])
            BY <1>3, <3>3, <3>4
          <5>4. RowTold(row, walked[w], places)
            BY <5>2, <5>3 DEF RowTold
          <5> QED BY <3>5, <4>2, <5>1, <5>4
        <4> QED BY <4>1, <4>2
      <3> QED BY <3>5, <3>6
    <2> QED BY <2>1, <2>2
  <1>6. FilteredTypeOK'
    BY <1>1, <1>3, <1>4, <1>5 DEF FilteredInv, FilteredTypeOK
  <1>7. FilteredTells'
    BY <1>1 DEF FilteredInv, FilteredTells
  <1>8. Processed(w, n + 1)'
    <2>1. unseen'[w] = Tail(unseen[w]) /\ walked'[w] = walked[w]
      BY <1>1, <1>4
    <2>2. n + 1 \in 0 .. Len(walked[w])
      BY <1>3
    <2> QED BY <1>3, <1>5, <2>1, <2>2 DEF Processed
  <1>9. ASSUME NEW x \in Writers, writing'[x] = "writing" PROVE \E m \in Nat : Processed(x, m)'
    <2>1. CASE x = w
      BY <1>8, <2>1
    <2>2. CASE x # w
      <3>1. /\ unseen'[x] = unseen[x] /\ walked'[x] = walked[x] /\ unsaved'[x] = unsaved[x]
            /\ writing[x] = "writing"
        BY <1>1, <1>4, <1>5, <1>9, <2>2
      <3> QED BY <3>1, ProcessedStays DEF FilteredInv
    <2> QED BY <2>1, <2>2
  <1> QED BY <1>6, <1>7, <1>9 DEF FilteredInv

\* All of a walk is in the open rows when they are committed.
LEMMA MarketsCommit ==
  ASSUME FilteredInv, NEW w \in Writers, CommitMarkets(w)
  PROVE  FilteredInv'
  <1>1. /\ writing[w] = "writing" /\ unseen[w] = <<>>
        /\ filtered' = [e \in Filed |-> IF unsaved[w][e] # NoRow THEN unsaved[w][e] ELSE filtered[e]]
        /\ complete' = complete \cup {walked[w]}
        /\ unsaved' = [unsaved EXCEPT ![w] = NoRows]
        /\ writing' = [writing EXCEPT ![w] = "ok"]
        /\ UNCHANGED <<unseen, walked>>
    BY DEF CommitMarkets
  <1>2. PICK n \in Nat : Processed(w, n)
    BY <1>1 DEF FilteredInv
  <1>3. FilteredTypeOK
    BY DEF FilteredInv
  <1>4. walked[w] \in Walks /\ walked[w] \in Seq(Listed) /\ Len(walked[w]) \in Nat
    BY <1>3, FilteredAssumption DEF FilteredTypeOK
  <1>5. \A e \in Filed : RowTold(unsaved[w][e], walked[w], Lists(walked[w], e))
    <2>1. n = Len(walked[w])
      BY <1>1, <1>2, <1>4 DEF Processed
    <2>2. \A e \in Filed : {i \in Lists(walked[w], e) : i <= n} = Lists(walked[w], e)
      BY <1>4, <2>1 DEF Lists
    <2> QED BY <1>2, <2>2 DEF Processed
  <1>6. FilteredTypeOK'
    BY <1>1, <1>3, <1>4 DEF FilteredTypeOK, NoRows
  <1>7. ASSUME NEW e \in Filed, filtered'[e] # NoRow
        PROVE  \E tree \in complete' :
                 /\ Lists(tree, e) # {}
                 /\ filtered'[e].name = LastOf(tree, e).name
                 /\ filtered'[e].symbol \in SymbolsFor(LastOf(tree, e))
    <2>1. CASE unsaved[w][e] # NoRow
      <3>1. filtered'[e] = unsaved[w][e] /\ walked[w] \in complete'
        BY <1>1, <2>1
      <3>2. Lists(walked[w], e) # {}
        BY <1>5, <2>1 DEF RowTold
      <3>3. PICK i \in Lists(walked[w], e) :
              /\ \A j \in Lists(walked[w], e) : j <= i
              /\ unsaved[w][e].name = walked[w][i].name
              /\ unsaved[w][e].symbol \in SymbolsFor(walked[w][i])
        BY <1>5, <3>2 DEF RowTold
      <3>4. LastOf(walked[w], e) = walked[w][i]
        <4> DEFINE m == CHOOSE k \in Lists(walked[w], e) : \A j \in Lists(walked[w], e) : j <= k
        <4>1. m \in Lists(walked[w], e) /\ \A j \in Lists(walked[w], e) : j <= m
          BY <3>3
        <4>2. m = i
          <5>1. m \in Nat /\ i \in Nat /\ m <= i /\ i <= m
            BY <1>4, <3>3, <4>1 DEF Lists
          <5> QED BY <5>1
        <4> QED BY <4>2 DEF LastOf
      <3> QED BY <3>1, <3>2, <3>3, <3>4
    <2>2. CASE unsaved[w][e] = NoRow
      <3>1. filtered'[e] = filtered[e] /\ complete \subseteq complete'
        BY <1>1, <2>2
      <3>2. PICK tree \in complete :
                 /\ Lists(tree, e) # {}
                 /\ filtered[e].name = LastOf(tree, e).name
                 /\ filtered[e].symbol \in SymbolsFor(LastOf(tree, e))
        BY <1>7, <3>1 DEF FilteredInv, FilteredTells
      <3> QED BY <3>1, <3>2
    <2> QED BY <2>1, <2>2
  <1>8. ASSUME NEW tree \in complete', NEW e \in Filed, Lists(tree, e) # {}
        PROVE  filtered'[e] # NoRow
    <2>1. CASE tree \in complete
      <3>1. filtered[e] # NoRow
        BY <1>8, <2>1 DEF FilteredInv, FilteredTells
      <3> QED BY <1>1, <3>1
    <2>2. CASE tree = walked[w]
      BY <1>1, <1>5, <1>8, <2>2 DEF RowTold
    <2> QED BY <1>1, <1>8, <2>1, <2>2
  <1>9. FilteredTells'
    BY <1>7, <1>8 DEF FilteredTells
  <1>10. ASSUME NEW x \in Writers, writing'[x] = "writing" PROVE \E m \in Nat : Processed(x, m)'
    <2>1. /\ unseen'[x] = unseen[x] /\ walked'[x] = walked[x] /\ unsaved'[x] = unsaved[x]
          /\ writing[x] = "writing"
      BY <1>1, <1>3, <1>10 DEF FilteredTypeOK
    <2> QED BY <2>1, ProcessedStays DEF FilteredInv
  <1> QED BY <1>6, <1>9, <1>10 DEF FilteredInv

LEMMA MarketsRollBack ==
  ASSUME FilteredInv, NEW w \in Writers, MarketsFail(w)
  PROVE  FilteredInv'
  <1>1. /\ unsaved' = [unsaved EXCEPT ![w] = NoRows]
        /\ writing' = [writing EXCEPT ![w] = "error"]
        /\ UNCHANGED <<filtered, unseen, walked, complete>>
    BY DEF MarketsFail
  <1>2. FilteredTypeOK'
    BY <1>1 DEF FilteredInv, FilteredTypeOK, NoRows
  <1>3. FilteredTells'
    BY <1>1 DEF FilteredInv, FilteredTells
  <1>4. ASSUME NEW x \in Writers, writing'[x] = "writing" PROVE \E m \in Nat : Processed(x, m)'
    <2>1. /\ unseen'[x] = unseen[x] /\ walked'[x] = walked[x] /\ unsaved'[x] = unsaved[x]
          /\ writing[x] = "writing"
      BY <1>1, <1>4 DEF FilteredInv, FilteredTypeOK
    <2> QED BY <2>1, ProcessedStays DEF FilteredInv
  <1> QED BY <1>2, <1>3, <1>4 DEF FilteredInv

LEMMA FilteredInitially == FilteredInit => FilteredInv
  <1> SUFFICES ASSUME FilteredInit PROVE FilteredInv
    OBVIOUS
  <1>1. (CHOOSE tree \in Walks : TRUE) \in Walks
    BY FilteredAssumption
  <1>2. FilteredTypeOK
    BY <1>1 DEF FilteredInit, FilteredTypeOK, NoRows
  <1>3. FilteredTells
    BY DEF FilteredInit, FilteredTells, NoRows
  <1> QED BY <1>2, <1>3 DEF FilteredInv, FilteredInit

LEMMA FilteredGoesOn == FilteredInv /\ [FilteredNext]_flt => FilteredInv'
  <1> SUFFICES ASSUME FilteredInv, [FilteredNext]_flt PROVE FilteredInv'
    OBVIOUS
  <1>1. ASSUME NEW w \in Writers, StoreFiltered(w) \/ FilteredStep(w) PROVE FilteredInv'
    BY <1>1, FilteredBegins, ListingKeeps, MarketsCommit, MarketsRollBack DEF FilteredStep
  <1>2. CASE UNCHANGED flt
    BY <1>2 DEF flt, FilteredInv, FilteredTypeOK, FilteredTells, Processed
  <1> QED BY <1>1, <1>2 DEF FilteredNext

\* A row is what the last listing of its EPIC says in one stored walk, name and symbol
\* together, and a stored walk has a row for every option it lists, whoever wrote beside it.
THEOREM MarketsAreTold == FilteredSpec => []FilteredTells
  <1>1. FilteredInv => FilteredTells
    BY DEF FilteredInv
  <1> QED BY <1>1, FilteredInitially, FilteredGoesOn, PTL DEF FilteredSpec
-----------------------------------------------------------------------------
(* The paged histories.                                                    *)

SyncNext == Post \/ GetHistory \/ SyncStep

SyncSpec == SyncInit /\ [][SyncNext]_syn

\* What was there at the call and is not yet read stands on the pages still to come.
StillToCome(n) == \A e \in asked :
  e \in EntriesOf(read) \/ \E i \in DOMAIN history : i > (n - 1) * Rows /\ history[i] = e

\* The rows sent so far are the transaction's, but for those that were stored before.
RowsSent(some) ==
  /\ ig_options = held
  /\ some = {read[i] : i \in 1 .. stored} \ ig_options
  /\ inserted = Cardinality(some)

SyncInv ==
  /\ SyncTypeOK /\ Len(history) <= MaxHistory
  /\ HistoryComplete
  /\ sync \in {"idle", "page"} => stored = 0 /\ inserted = 0
  /\ sync = "page" => StillToCome(current) /\ batch = {}
  /\ sync = "storing" => reading = "transactions" /\ RowsSent(batch)

LEMMA EntriesFinite ==
  ASSUME NEW S, S \subseteq Entries
  PROVE  IsFiniteSet(S) /\ Cardinality(S) \in Nat
  <1>1. IsFiniteSet(Entries)
    BY SyncAssumption, FS_Interval DEF Entries
  <1> QED BY <1>1, FS_Subset, FS_CardinalityType

\* A width of w bits counts at least to 0.
LEMMA CountsPositive == 2 ^ CountWidth \in Nat \ {0}
  <1> DEFINE S == 1 .. CountWidth
  <1>1. IsFiniteSet(S) /\ Cardinality(S) = CountWidth
    BY SyncAssumption, FS_Interval
  <1>2. IsFiniteSet(SUBSET S) /\ Cardinality(SUBSET S) = 2 ^ CountWidth
    BY <1>1, FS_SUBSET
  <1>3. SUBSET S # {}
    OBVIOUS
  <1> HIDE DEF S
  <1> QED BY <1>2, <1>3, FS_CardinalityType, FS_EmptySet

\* The pages hold the whole history, and their number survives the cast.
LEMMA PagesHoldAll ==
  ASSUME history \in Seq(Entries), Len(history) <= MaxHistory
  PROVE  /\ TotalPages \in Nat /\ TotalPages * Rows >= Len(history)
         /\ TotalPages % 2 ^ CountWidth = TotalPages
  <1>1. PICK pages \in Nat : pages = 2 ^ CountWidth /\ pages > 0
    BY CountsPositive
  <1>2. Len(history) \in Nat /\ Rows \in Nat /\ Rows > 0 /\ Len(history) <= Rows * (pages - 1)
    BY <1>1, SyncAssumption
  <1>3. ASSUME NEW l \in Nat, NEW r \in Nat, r > 0, NEW m \in Nat, l <= r * (m - 1)
        PROVE  /\ (l + r - 1) \div r \in Nat /\ ((l + r - 1) \div r) * r >= l
               /\ (l + r - 1) \div r < m
    <2> DEFINE q == (l + r - 1) \div r
    <2>1. q \in Int /\ r * q <= l + r - 1 /\ l + r - 1 < r * q + r
      BY <1>3
    <2> HIDE DEF q
    <2>2. ASSUME NEW a \in Int, NEW b \in Int, a <= b PROVE r * a <= r * b
      BY <1>3, <2>2
    <2>3. q >= 0
      <3>1. CASE q <= 0 - 1
        <4>1. r * q <= r * (0 - 1) /\ r * (0 - 1) = 0 - r /\ r * q \in Int
          BY <2>1, <2>2, <3>1
        <4> QED BY <1>3, <2>1, <4>1
      <3> QED BY <2>1, <3>1
    <2>4. q < m
      <3>1. CASE q >= m
        <4>1. r * m <= r * q /\ r * (m - 1) = r * m - r /\ r * q \in Int /\ r * m \in Int
          BY <2>1, <2>2, <3>1
        <4> QED BY <1>3, <2>1, <4>1
      <3> QED BY <1>3, <2>1, <3>1
    <2>5. q * r = r * q /\ r * q \in Int
      BY <2>1
    <2>6. q \in Nat /\ q * r >= l /\ q < m
      BY <1>3, <2>1, <2>3, <2>4, <2>5
    <2> QED BY <2>6 DEF q
  <1>4. /\ TotalPages \in Nat /\ TotalPages * Rows >= Len(history) /\ TotalPages < pages
    BY <1>1, <1>2, <1>3 DEF TotalPages
  <1>5. \A n \in Nat : n < pages => n % pages = n
    BY <1>1
  <1> QED BY <1>1, <1>4, <1>5, Zenon
\* An entry of a history that is posted to stays where it was or moves back.
LEMMA PostMoves ==
  ASSUME SyncTypeOK, Post
  PROVE  /\ history' \in Seq(Entries) /\ Len(history') = Len(history) + 1
         /\ Len(history') <= MaxHistory
         /\ \A i \in DOMAIN history : \E j \in DOMAIN history' : j >= i /\ history'[j] = history[i]
  <1>1. PICK n \in 0 .. Len(history) :
          history' = SubSeq(history, 1, n) \o <<Len(history) + 1>>
                       \o SubSeq(history, n + 1, Len(history))
    BY DEF Post
  <1>2. history \in Seq(Entries) /\ Len(history) \in Nat /\ DOMAIN history = 1 .. Len(history)
    BY DEF SyncTypeOK
  <1>3. Len(history) + 1 \in Entries /\ Len(history) < MaxHistory
    BY <1>2, SyncAssumption DEF Post, Entries
  <1> DEFINE a == SubSeq(history, 1, n)
             m == <<Len(history) + 1>>
             b == SubSeq(history, n + 1, Len(history))
  <1>4. /\ a \in Seq(Entries) /\ Len(a) = n /\ \A i \in 1 .. n : a[i] = history[i]
    BY <1>2, SubSeqProperties
  <1>5. m \in Seq(Entries) /\ Len(m) = 1
    BY <1>3
  <1>6. /\ b \in Seq(Entries) /\ Len(b) = Len(history) - n
        /\ \A i \in 1 .. Len(history) - n : b[i] = history[n + i]
    <2>1. \A i \in n + 1 .. Len(history) : history[i] \in Entries
      BY <1>2
    <2>2. /\ b \in Seq(Entries)
          /\ Len(b) = IF n + 1 <= Len(history) THEN Len(history) - (n + 1) + 1 ELSE 0
          /\ \A i \in 1 .. Len(history) - (n + 1) + 1 : b[i] = history[n + 1 + i - 1]
      BY <1>2, <2>1, SubSeqProperties
    <2> HIDE DEF b
    <2>3. ASSUME NEW i \in 1 .. Len(history) - n PROVE b[i] = history[n + i]
      <3>1. i \in 1 .. Len(history) - (n + 1) + 1 /\ n + 1 + i - 1 = n + i
        BY <1>2
      <3> QED BY <2>2, <3>1
    <2>4. Len(b) = Len(history) - n
      <3>1. /\ Len(history) \in Nat /\ n \in 0 .. Len(history)
            /\ Len(b) = IF n + 1 <= Len(history) THEN Len(history) - (n + 1) + 1 ELSE 0
        BY <1>2, <2>2
      <3> QED BY ONLY <3>1
    <2> QED BY <2>2, <2>3, <2>4
  <1> HIDE DEF a, m, b
  <1>7. /\ a \o m \in Seq(Entries) /\ Len(a \o m) = n + 1
        /\ \A i \in 1 .. n + 1 : (a \o m)[i] = IF i <= n THEN a[i] ELSE m[i - n]
    <2>1. /\ a \o m \in Seq(Entries) /\ Len(a \o m) = Len(a) + Len(m)
          /\ \A i \in 1 .. Len(a) + Len(m) : (a \o m)[i] = IF i <= Len(a) THEN a[i] ELSE m[i - Len(a)]
      BY <1>4, <1>5, ConcatProperties
    <2> QED BY <1>4, <1>5, <2>1
  <1>8. /\ (a \o m) \o b \in Seq(Entries)
        /\ Len((a \o m) \o b) = n + 1 + Len(b)
        /\ \A i \in 1 .. n + 1 + Len(b) :
             ((a \o m) \o b)[i] = IF i <= n + 1 THEN (a \o m)[i] ELSE b[i - (n + 1)]
    <2>1. /\ (a \o m) \o b \in Seq(Entries) /\ Len((a \o m) \o b) = Len(a \o m) + Len(b)
          /\ \A i \in 1 .. Len(a \o m) + Len(b) :
               ((a \o m) \o b)[i] = IF i <= Len(a \o m) THEN (a \o m)[i] ELSE b[i - Len(a \o m)]
      BY <1>6, <1>7, ConcatProperties
    <2> QED BY <1>7, <2>1
  <1>9. history' = (a \o m) \o b
    BY <1>1 DEF a, m, b
  <1>10. Len(history') = Len(history) + 1 /\ DOMAIN history' = 1 .. Len(history) + 1
    BY <1>2, <1>6, <1>8, <1>9
  <1>11. ASSUME NEW i \in DOMAIN history
         PROVE  \E j \in DOMAIN history' : j >= i /\ history'[j] = history[i]
    <2>1. CASE i <= n
      <3>1. history'[i] = history[i] /\ i \in DOMAIN history'
        BY <1>2, <1>4, <1>6, <1>7, <1>8, <1>9, <1>10, <2>1
      <3> QED BY <1>2, <3>1
    <2>2. CASE i > n
      <3>0. i - n \in 1 .. Len(history) - n /\ n + (i - n) = i
        BY <1>2, <2>2
      <3>1. history'[i + 1] = b[i - n] /\ i + 1 \in DOMAIN history'
        <4>1. /\ i + 1 \in 1 .. n + 1 + Len(b) /\ ~ (i + 1 <= n + 1)
              /\ (i + 1) - (n + 1) = i - n /\ i + 1 \in 1 .. Len(history) + 1
          <5>1. /\ i \in 1 .. Len(history) /\ n \in 0 .. Len(history) /\ Len(history) \in Nat
                /\ Len(b) = Len(history) - n
            BY <1>2, <1>6
          <5> QED BY ONLY <2>2, <5>1
        <4>2. ((a \o m) \o b)[i + 1] = b[(i + 1) - (n + 1)]
          BY <1>8, <4>1
        <4> QED BY <1>9, <1>10, <4>1, <4>2
      <3>2. b[i - n] = history[i]
        BY <1>6, <3>0
      <3> QED BY <1>2, <3>1, <3>2
    <2> QED BY <1>2, <2>1, <2>2
  <1>12. history' \in Seq(Entries) /\ Len(history') <= MaxHistory
    BY <1>2, <1>3, <1>8, <1>9, <1>10, SyncAssumption
  <1> QED BY <1>10, <1>11, <1>12

\* A page holds what stands on it.
LEMMA PageHolds ==
  ASSUME history \in Seq(Entries), NEW n \in Nat \ {0}
  PROVE  /\ PageRows(n) \in Seq(Entries)
         /\ \A i \in DOMAIN history :
              i > (n - 1) * Rows /\ i <= n * Rows => history[i] \in EntriesOf(PageRows(n))
  <1> DEFINE last == IF n * Rows < Len(history) THEN n * Rows ELSE Len(history)
  <1>1. PICK k \in Nat : k = (n - 1) * Rows
    <2>1. ASSUME NEW a \in Nat, NEW b \in Nat PROVE a * b \in Nat
      OBVIOUS
    <2> QED BY <2>1, SyncAssumption
  <1>2. PICK l \in Nat : l = n * Rows
    <2>1. ASSUME NEW a \in Nat, NEW b \in Nat PROVE a * b \in Nat
      OBVIOUS
    <2> QED BY <2>1, SyncAssumption
  <1>3. Len(history) \in Nat /\ DOMAIN history = 1 .. Len(history)
    OBVIOUS
  <1>4. last \in Nat /\ last <= Len(history) /\ (last = l \/ last = Len(history))
    BY <1>2, <1>3
  <1>5. PageRows(n) = SubSeq(history, k + 1, last)
    BY <1>1 DEF PageRows
  <1> HIDE DEF last
  <1>6. \A i \in k + 1 .. last : history[i] \in Entries
    <2>1. \A i \in 1 .. Len(history) : history[i] \in Entries
      BY ElementOfSeq
    <2>2. \A i \in k + 1 .. last : i \in 1 .. Len(history)
      <3>1. k \in Nat /\ Len(history) \in Nat /\ last \in Nat /\ last <= Len(history)
        BY <1>1, <1>3, <1>4
      <3> QED BY ONLY <3>1
    <2> QED BY <2>1, <2>2
  <1>7. /\ PageRows(n) \in Seq(Entries)
        /\ Len(PageRows(n)) = IF k + 1 <= last THEN last - (k + 1) + 1 ELSE 0
        /\ \A i \in 1 .. last - (k + 1) + 1 : PageRows(n)[i] = history[k + 1 + i - 1]
    BY <1>4, <1>5, <1>6, SubSeqProperties
  <1>8. ASSUME NEW i \in DOMAIN history, i > (n - 1) * Rows, i <= n * Rows
        PROVE  history[i] \in EntriesOf(PageRows(n))
    <2>0. i > k /\ i <= l
      BY <1>1, <1>2, <1>8
    <2>1. i \in k + 1 .. last
      <3>1. /\ i \in Nat /\ i <= Len(history) /\ k \in Nat /\ last \in Nat /\ Len(history) \in Nat
            /\ i > k /\ i <= l /\ (last = l \/ last = Len(history))
        <4>1. k \in Nat
          BY <1>1
        <4>2. i \in Nat /\ i <= Len(history) /\ Len(history) \in Nat
          BY <1>3
        <4> QED BY <1>4, <2>0, <4>1, <4>2
      <3> QED BY ONLY <3>1
    <2>2. i - k \in 1 .. last - (k + 1) + 1 /\ i - k \in 1 .. Len(PageRows(n))
      BY <1>4, <1>7, <2>1
    <2>3. PageRows(n)[i - k] = history[i]
      <3>1. PageRows(n)[i - k] = history[k + 1 + (i - k) - 1]
        BY <1>7, <2>2
      <3>2. k + 1 + (i - k) - 1 = i
        BY <1>3
      <3> QED BY <3>1, <3>2
    <2>4. DOMAIN PageRows(n) = 1 .. Len(PageRows(n))
      BY <1>7
    <2> QED BY <2>2, <2>3, <2>4 DEF EntriesOf
  <1> QED BY <1>7, <1>8

LEMMA PostKeeps ==
  ASSUME SyncInv, Post
  PROVE  SyncInv'
  <1>1. UNCHANGED <<sync, reading, asked, current, read, ig_options, batch, stored, inserted, held>>
    BY DEF Post
  <1>2. /\ history' \in Seq(Entries) /\ Len(history') <= MaxHistory
        /\ \A i \in DOMAIN history : \E j \in DOMAIN history' : j >= i /\ history'[j] = history[i]
    BY PostMoves, Zenon DEF SyncInv
  <1>3. SyncTypeOK'
    BY <1>1, <1>2 DEF SyncInv, SyncTypeOK
  <1>4. HistoryComplete' /\ (sync' = "storing" => reading' = "transactions" /\ RowsSent(batch)')
    BY <1>1 DEF SyncInv, HistoryComplete, EntriesOf, RowsSent
  <1>5. ASSUME sync' = "page" PROVE StillToCome(current)'
    <2>1. StillToCome(current)
      BY <1>1, <1>5 DEF SyncInv
    <2>2. (current - 1) * Rows \in Int /\ DOMAIN history \subseteq Int /\ DOMAIN history' \subseteq Int
      BY <1>2, SyncAssumption DEF SyncInv, SyncTypeOK
    <2>3. \A i \in DOMAIN history : i > (current - 1) * Rows =>
            \E j \in DOMAIN history' : j > (current - 1) * Rows /\ history'[j] = history[i]
      BY <1>2, <2>2
    <2> QED BY <1>1, <2>1, <2>3 DEF StillToCome, EntriesOf
  <1> QED BY <1>1, <1>2, <1>3, <1>4, <1>5 DEF SyncInv
\* A page moves entries from those to come to those that are read; when the last page is
\* read there is none to come.
LEMMA PageReadKeeps ==
  ASSUME SyncInv, PageRead
  PROVE  SyncInv'
  <1>1. /\ sync = "page" /\ read' = read \o PageRows(current)
        /\ UNCHANGED <<history, reading, asked, ig_options, batch, stored, inserted>>
    BY DEF PageRead
  <1>2. /\ SyncTypeOK /\ Len(history) <= MaxHistory /\ StillToCome(current)
        /\ batch = {} /\ stored = 0 /\ inserted = 0
    BY <1>1 DEF SyncInv
  <1>3. /\ current \in Nat \ {0} /\ history \in Seq(Entries) /\ read \in Seq(Entries)
        /\ Len(history) \in Nat /\ DOMAIN history = 1 .. Len(history)
    BY <1>2 DEF SyncTypeOK
  <1>4. /\ PageRows(current) \in Seq(Entries)
        /\ \A i \in DOMAIN history :
             i > (current - 1) * Rows /\ i <= current * Rows
               => history[i] \in EntriesOf(PageRows(current))
    BY <1>3, PageHolds
  <1>5. /\ read' \in Seq(Entries) /\ EntriesOf(read) \subseteq EntriesOf(read')
        /\ EntriesOf(PageRows(current)) \subseteq EntriesOf(read')
    <2>1. PICK more \in Seq(Entries) : more = PageRows(current)
      BY <1>4
    <2>2. /\ read' \in Seq(Entries) /\ Len(read') = Len(read) + Len(more)
          /\ \A i \in 1 .. Len(read) + Len(more) :
               read'[i] = IF i <= Len(read) THEN read[i] ELSE more[i - Len(read)]
      BY <1>1, <1>3, <2>1, ConcatProperties
    <2>3. /\ Len(read) \in Nat /\ Len(more) \in Nat /\ DOMAIN read = 1 .. Len(read)
          /\ DOMAIN more = 1 .. Len(more) /\ DOMAIN read' = 1 .. Len(read')
      BY <1>3, <2>1, <2>2
    <2>4. ASSUME NEW i \in DOMAIN read PROVE i \in DOMAIN read' /\ read'[i] = read[i]
      BY <2>2, <2>3
    <2>5. ASSUME NEW i \in DOMAIN more
          PROVE  Len(read) + i \in DOMAIN read' /\ read'[Len(read) + i] = more[i]
      BY <2>2, <2>3
    <2> QED BY <2>1, <2>2, <2>4, <2>5 DEF EntriesOf
  <1>6. ASSUME NEW e \in asked
        PROVE  e \in EntriesOf(read') \/ \E i \in DOMAIN history : i > current * Rows /\ history[i] = e
    <2>1. CASE e \in EntriesOf(read)
      BY <1>5, <2>1
    <2>2. CASE \E i \in DOMAIN history : i > (current - 1) * Rows /\ history[i] = e
      <3>1. PICK i \in DOMAIN history : i > (current - 1) * Rows /\ history[i] = e
        BY <2>2
      <3>2. i <= current * Rows \/ i > current * Rows
        <4>1. i \in Int /\ current * Rows \in Int
          BY <1>3, SyncAssumption
        <4> QED BY ONLY <4>1
      <3>3. CASE i <= current * Rows
        BY <1>4, <1>5, <3>1, <3>3
      <3> QED BY <3>1, <3>2, <3>3
    <2> QED BY <1>2, <2>1, <2>2 DEF StillToCome
  <1>7. stored' \in 0 .. Len(read') /\ inserted' \in 0 .. stored'
    BY <1>1, <1>2, <1>5
  <1>8. CASE ~Done(TotalPages) /\ current' = current + 1 /\ UNCHANGED <<sync, held>>
    <2>1. SyncTypeOK'
      BY <1>1, <1>2, <1>3, <1>5, <1>7, <1>8 DEF SyncTypeOK
    <2>2. (current + 1) - 1 = current
      BY <1>3
    <2>3. StillToCome(current)'
      BY <1>1, <1>6, <1>8, <2>2 DEF StillToCome
    <2>4. HistoryComplete'
      BY <1>1, <1>2, <1>8 DEF HistoryComplete
    <2> QED BY <1>1, <1>2, <1>8, <2>1, <2>3, <2>4 DEF SyncInv
  <1>9. CASE /\ Done(TotalPages) /\ held' = ig_options /\ UNCHANGED current
             /\ sync' = IF reading = "transactions" /\ read' # <<>> THEN "storing" ELSE "ok"
    <2>1. /\ TotalPages \in Nat /\ TotalPages * Rows >= Len(history)
          /\ TotalPages % 2 ^ CountWidth = TotalPages
      BY <1>2, <1>3, PagesHoldAll
    <2>2. current >= TotalPages
      BY <1>9, <2>1 DEF Done, LastTransactions, LastCosts
    <2>3. current * Rows >= Len(history)
      <3>1. ASSUME NEW a \in Nat, NEW b \in Nat, NEW r \in Nat, a >= b PROVE a * r >= b * r
        BY <3>1
      <3>2. current * Rows >= TotalPages * Rows
        BY <1>3, <2>1, <2>2, <3>1, SyncAssumption
      <3>3. current * Rows \in Int /\ TotalPages * Rows \in Int /\ Len(history) \in Int
        BY <1>3, <2>1, SyncAssumption
      <3>4. TotalPages * Rows >= Len(history)
        BY <2>1
      <3> QED BY ONLY <3>2, <3>3, <3>4
    <2>4. asked \subseteq EntriesOf(read')
      <3>1. ASSUME NEW i \in DOMAIN history PROVE ~(i > current * Rows)
        <4>1. i \in Int /\ i <= Len(history) /\ Len(history) \in Int /\ current * Rows \in Int
          BY <1>3, SyncAssumption
        <4> QED BY ONLY <2>3, <4>1
      <3> QED BY <1>6, <3>1
    <2>5. SyncTypeOK'
      BY <1>1, <1>2, <1>3, <1>5, <1>7, <1>9 DEF SyncTypeOK
    <2>6. HistoryComplete'
      <3>1. sync' = "ok" /\ reading' = "transactions" => asked' = {} /\ held' = ig_options'
        <4>1. EntriesOf(<<>>) = {}
          BY DEF EntriesOf
        <4> QED BY <1>1, <1>9, <2>4, <4>1
      <3>2. Cardinality(ig_options) \in Nat
        BY <1>2, EntriesFinite DEF SyncTypeOK
      <3> QED BY <1>1, <1>2, <1>9, <2>4, <3>1, <3>2 DEF HistoryComplete
    <2>7. RowsSent(batch)'
      <3>1. {read'[i] : i \in 1 .. stored'} = {}
        BY <1>1, <1>2
      <3> QED BY <1>1, <1>2, <1>9, <3>1, FS_EmptySet DEF RowsSent
    <2> QED BY <1>1, <1>2, <1>9, <2>5, <2>6, <2>7 DEF SyncInv
  <1> QED BY <1>8, <1>9 DEF PageRead

\* A row counts once, whether it was stored before or sent twice.
LEMMA InsertKeeps ==
  ASSUME SyncInv, InsertRow
  PROVE  SyncInv'
  <1> DEFINE raw == read[stored + 1]
  <1>1. /\ sync = "storing" /\ stored < Len(read) /\ Count(raw)
        /\ batch' = batch \cup ({raw} \ ig_options) /\ stored' = stored + 1
        /\ UNCHANGED <<history, sync, reading, asked, current, read, ig_options, held>>
    BY DEF InsertRow
  <1>2. SyncTypeOK /\ RowsSent(batch) /\ reading = "transactions"
    BY <1>1 DEF SyncInv
  <1>3. /\ stored \in Nat /\ inserted \in 0 .. stored /\ read \in Seq(Entries)
        /\ stored + 1 \in 1 .. Len(read) /\ raw \in Entries
        /\ ig_options \subseteq Entries /\ batch \subseteq Entries \ ig_options
    <2>1. /\ stored \in 0 .. Len(read) /\ inserted \in 0 .. stored /\ read \in Seq(Entries)
          /\ ig_options \subseteq Entries /\ batch \subseteq Entries \ ig_options
      BY <1>2 DEF SyncTypeOK
    <2>2. stored \in Nat /\ stored + 1 \in 1 .. Len(read)
      BY <1>1, <2>1
    <2> QED BY <2>1, <2>2, ElementOfSeq
  <1> HIDE DEF raw
  <1>4. /\ batch' \subseteq Entries \ ig_options
        /\ inserted' = inserted \/ inserted' = inserted + 1
        /\ inserted' = Cardinality(batch')
    <2>1. IsFiniteSet(batch) /\ inserted = Cardinality(batch)
      BY <1>2, <1>3, EntriesFinite DEF RowsSent
    <2>2. CASE raw \in ig_options \cup batch
      <3>1. batch' = batch
        BY <1>1, <2>2
      <3>2. inserted' = inserted
        BY <1>1, <1>3, <2>2 DEF Count
      <3> QED BY <1>3, <2>1, <3>1, <3>2
    <2>3. CASE raw \notin ig_options \cup batch
      <3>1. batch' = batch \cup {raw}
        BY <1>1, <2>3
      <3>2. inserted' = inserted + 1
        BY <1>1, <2>3 DEF Count
      <3>3. Cardinality(batch \cup {raw}) = Cardinality(batch) + 1
        BY <2>1, <2>3, FS_AddElement
      <3> QED BY <1>3, <2>1, <2>3, <3>1, <3>2, <3>3
    <2> QED BY <2>2, <2>3
  <1>5. SyncTypeOK'
    <2>1. stored' \in 0 .. Len(read') /\ inserted' \in 0 .. stored'
      BY <1>1, <1>3, <1>4
    <2> QED BY <1>1, <1>2, <1>4, <2>1 DEF SyncTypeOK
  <1>6. RowsSent(batch)'
    <2>1. {read[i] : i \in 1 .. stored + 1} = {read[i] : i \in 1 .. stored} \cup {raw}
      <3>1. 1 .. stored + 1 = (1 .. stored) \cup {stored + 1}
        BY <1>3
      <3> QED BY <3>1 DEF raw
    <2>2. batch' = {read'[i] : i \in 1 .. stored'} \ ig_options'
      <3>1. PICK those : those = {read[i] : i \in 1 .. stored}
        OBVIOUS
      <3>2. batch = those \ ig_options
        BY <1>2, <3>1 DEF RowsSent
      <3>3. batch' = (those \cup {raw}) \ ig_options
        BY <1>1, <3>2
      <3>4. {read'[i] : i \in 1 .. stored'} = those \cup {raw}
        BY <1>1, <2>1, <3>1
      <3> QED BY <1>1, <3>3, <3>4
    <2> QED BY <1>1, <1>2, <1>4, <2>2 DEF RowsSent
  <1>7. HistoryComplete'
    BY <1>1 DEF SyncInv, HistoryComplete
  <1> QED BY <1>1, <1>2, <1>5, <1>6, <1>7 DEF SyncInv

\* The commit adds the rows that were counted, among which is every one that was read.
LEMMA CommitRowsKeeps ==
  ASSUME SyncInv, CommitRows
  PROVE  SyncInv'
  <1>1. /\ sync = "storing" /\ stored = Len(read) /\ ig_options' = ig_options \cup batch
        /\ batch' = {} /\ sync' = "ok"
        /\ UNCHANGED <<history, reading, asked, current, read, stored, inserted, held>>
    BY DEF CommitRows
  <1>2. SyncTypeOK /\ RowsSent(batch) /\ asked \subseteq EntriesOf(read)
    BY <1>1 DEF SyncInv, HistoryComplete
  <1>3. SyncTypeOK'
    BY <1>1, <1>2 DEF SyncTypeOK
  <1>4. EntriesOf(read) \subseteq ig_options'
    <2>1. DOMAIN read = 1 .. stored
      BY <1>1, <1>2 DEF SyncTypeOK
    <2> QED BY <1>1, <1>2, <2>1 DEF RowsSent, EntriesOf
  <1>5. Cardinality(ig_options') = Cardinality(held') + inserted'
    <2>1. /\ IsFiniteSet(ig_options) /\ IsFiniteSet(batch) /\ ig_options \cap batch = {}
          /\ Cardinality(ig_options) \in Nat /\ Cardinality(batch) \in Nat
      BY <1>2, EntriesFinite DEF SyncTypeOK
    <2>2. Cardinality(ig_options \cup batch)
            = Cardinality(ig_options) + Cardinality(batch) - Cardinality(ig_options \cap batch)
      BY <2>1, FS_Union
    <2>3. Cardinality(ig_options \cap batch) = 0
      BY <2>1, FS_EmptySet, Zenon
    <2>4. Cardinality(ig_options \cup batch) = Cardinality(ig_options) + Cardinality(batch)
      BY <2>1, <2>2, <2>3
    <2> QED BY <1>1, <1>2, <2>4 DEF RowsSent
  <1>6. HistoryComplete'
    BY <1>1, <1>2, <1>4, <1>5 DEF HistoryComplete, EntriesOf
  <1> QED BY <1>1, <1>3, <1>6 DEF SyncInv

LEMMA OtherSyncSteps ==
  ASSUME SyncInv, GetHistory \/ PageFailed \/ StoreFailed
  PROVE  SyncInv'
  <1>1. CASE GetHistory
    <2>1. /\ sync' = "page" /\ reading' \in {"transactions", "costs"} /\ asked' = EntriesOf(history)
          /\ current' = 1 /\ read' = <<>> /\ batch' = {} /\ stored' = 0 /\ inserted' = 0
          /\ held' = {} /\ UNCHANGED <<history, ig_options>>
      BY <1>1 DEF GetHistory
    <2>2. history \in Seq(Entries) /\ EntriesOf(history) \subseteq Entries
      BY DEF SyncInv, SyncTypeOK, EntriesOf
    <2>3. SyncTypeOK'
      BY <2>1, <2>2, EmptySeq DEF SyncInv, SyncTypeOK
    <2>4. StillToCome(current)'
      <3>1. ASSUME NEW i \in DOMAIN history PROVE i > (1 - 1) * Rows
        <4>1. (1 - 1) * Rows = 0 /\ i >= 1 /\ i \in Int
          BY <2>2, SyncAssumption
        <4> QED BY ONLY <4>1
      <3> QED BY <2>1, <3>1 DEF StillToCome, EntriesOf
    <2>5. HistoryComplete'
      BY <2>1 DEF HistoryComplete
    <2> QED BY <2>1, <2>3, <2>4, <2>5 DEF SyncInv
  <1>2. CASE PageFailed
    <2>1. /\ sync = "page" /\ sync' = "error"
          /\ UNCHANGED <<history, reading, asked, current, read, ig_options, batch, stored, inserted, held>>
      BY <1>2 DEF PageFailed
    <2>2. SyncTypeOK' /\ HistoryComplete'
      BY <2>1 DEF SyncInv, SyncTypeOK, HistoryComplete
    <2> QED BY <2>1, <2>2 DEF SyncInv
  <1>3. CASE StoreFailed
    <2>1. /\ sync = "storing" /\ sync' = "error" /\ batch' = {}
          /\ UNCHANGED <<history, reading, asked, current, read, ig_options, stored, inserted, held>>
      BY <1>3 DEF StoreFailed
    <2>2. SyncTypeOK' /\ HistoryComplete'
      BY <2>1 DEF SyncInv, SyncTypeOK, HistoryComplete, RowsSent
    <2> QED BY <2>1, <2>2 DEF SyncInv
  <1> QED BY <1>1, <1>2, <1>3

LEMMA SyncBegins == SyncInit => SyncInv
  <1> SUFFICES ASSUME SyncInit PROVE SyncInv
    OBVIOUS
  <1>1. SyncTypeOK
    BY EmptySeq DEF SyncInit, SyncTypeOK
  <1>2. HistoryComplete /\ Len(history) <= MaxHistory
    BY SyncAssumption, EmptySeq DEF SyncInit, HistoryComplete
  <1> QED BY <1>1, <1>2 DEF SyncInit, SyncInv

LEMMA SyncGoesOn == SyncInv /\ [SyncNext]_syn => SyncInv'
  <1> SUFFICES ASSUME SyncInv, [SyncNext]_syn PROVE SyncInv'
    OBVIOUS
  <1>1. CASE SyncNext
    BY <1>1, PostKeeps, PageReadKeeps, InsertKeeps, CommitRowsKeeps, OtherSyncSteps
    DEF SyncNext, SyncStep
  <1>2. CASE UNCHANGED syn
    BY <1>2 DEF syn, SyncInv, SyncTypeOK, HistoryComplete, StillToCome, RowsSent, EntriesOf
  <1> QED BY <1>1, <1>2

\* A history that is read holds all that was there at the call, whatever is posted meanwhile,
\* and once it is stored each entry is a row and the reported count the number of new ones.
THEOREM HistoriesComplete == SyncSpec => []HistoryComplete
  <1>1. SyncInv => HistoryComplete
    BY DEF SyncInv
  <1> QED BY <1>1, SyncBegins, SyncGoesOn, PTL DEF SyncSpec
-----------------------------------------------------------------------------
(* The tree of a walk and the tables of the database (MarketDatabase).  The    *)
(* statements of a refresh send every row of its tree once, nodes after their  *)
(* parents; what its transaction has written, with what it has still to send,  *)
(* is that tree; a service that has met no other of its exchange has deleted   *)
(* what was there, and no row is written by two transactions.                  *)

Tables == {"node", "instrument"}

\* A row's parent, or an instrument's node, is a node.
Sound(r) == r \in TableRows /\ (r.ref = None \/ r.ref \in {"node"} \X Ids)

OwnRows(x) == {r \in TableRows : Sound(r) /\ r.exchange = x}

SqlOrders == [op : {"delete", "insert"}, table : Tables, list : Seq(TableRows)]

\* Where rows stand in the statements of a program.
Sends(p, i, j) == i \in DOMAIN p /\ j \in DOMAIN p[i].list

Row(p, i, j) == p[i].list[j]

ToSend(p) == UNION {{Row(p, i, j) : j \in DOMAIN p[i].list} : i \in DOMAIN p}

\* The tables whose DELETE has not run.
Uncleared(p) ==
  IF p = <<>> \/ p[1].op = "insert" THEN {} ELSE IF p[1].table = "instrument" THEN Tables ELSE {"node"}

\* Instruments are deleted, nodes are deleted, rows are sent.
Staged(p) ==
  /\ p # <<>> /\ p[1].op = "delete" /\ p[1].table = "instrument" =>
       Len(p) >= 2 /\ p[2].op = "delete" /\ p[2].table = "node"
  /\ \A i \in 2 .. Len(p) :
       p[i].op = "delete" =>
         i = 2 /\ p[2].table = "node" /\ p[1].op = "delete" /\ p[1].table = "instrument"
  /\ \A i \in DOMAIN p : p[i].op = "delete" => p[i].list = <<>>

OncePerKey(p) ==
  \A i, k \in DOMAIN p : \A j \in DOMAIN p[i].list, l \in DOMAIN p[k].list :
    Row(p, i, j).key = Row(p, k, l).key => i = k /\ j = l

\* Every row is sent with or after the one it refers to, which may have been written.
ParentsFirst(p, there) ==
  \A i \in DOMAIN p : \A j \in DOMAIN p[i].list :
    \/ Row(p, i, j).ref \in there \cup {None}
    \/ \E k \in 1 .. i : \E l \in DOMAIN p[k].list : Row(p, k, l).key = Row(p, i, j).ref

DbTypes ==
  /\ exchange \in Naming /\ open \in SUBSET Services
  /\ rows \in [RowKeys -> TableRows \cup {None}]
  /\ \A k \in RowKeys : rows[k] # None => rows[k].key = k /\ Sound(rows[k])
  /\ script \in [Services -> Seq(SqlOrders)]
  /\ DOMAIN snapshot = Services /\ DOMAIN written = Services /\ DOMAIN given = Services
  /\ repeated \in [Services -> BOOLEAN] /\ met \in [Services -> SUBSET Exchanges]
  /\ DOMAIN refreshed = Exchanges
  /\ \A x \in Exchanges : refreshed[x] = None \/ refreshed[x] \in SUBSET TableRows
  /\ \A s \in Services \ open :
       script[s] = <<>> /\ written[s] = Nothing /\ snapshot[s] = None /\ given[s] = {}

\* The rows that a DELETE has seen are there, and not its own.
Seen(s) ==
  snapshot[s] = None \/
    /\ snapshot[s] \in SUBSET RowKeys /\ script[s] # <<>> /\ script[s][1].op = "delete"
    /\ \A k \in snapshot[s] : /\ k[1] = script[s][1].table /\ k \notin DOMAIN written[s]
                              /\ rows[k] # None /\ rows[k].exchange = exchange[s]

\* What was written are rows of the exchange, what was deleted were.
Writes(s) ==
  /\ DOMAIN written[s] \in SUBSET RowKeys
  /\ \A k \in DOMAIN written[s] :
       \/ written[s][k] = None /\ (rows[k] # None => rows[k].exchange = exchange[s])
       \/ written[s][k] \in OwnRows(exchange[s]) /\ written[s][k].key = k

\* With what is still to be sent, what was written is the tree.
Sending(s) ==
  /\ Staged(script[s]) /\ OncePerKey(script[s])
  /\ ToSend(script[s]) \subseteq OwnRows(exchange[s])
  /\ Uncleared(script[s]) # {} => Wrote(s) = {}
  /\ \A r \in ToSend(script[s]) : r.key \notin Wrote(s)
  /\ given[s] = {written[s][k] : k \in Wrote(s)} \cup ToSend(script[s])

\* Whom a service may meet is noted.
Noted(s) ==
  /\ \A t \in open \ {s} : exchange[t] \in met[s]
  /\ \A k \in RowKeys : rows[k] # None => rows[k].exchange \in met[s] \cup {exchange[s]}

\* Alone, it has deleted what was stored for its exchange.
Clears(s) ==
  exchange[s] \notin met[s] =>
    \A k \in RowKeys :
      rows[k] # None /\ rows[k].exchange = exchange[s] /\ k \notin DOMAIN written[s] =>
        /\ k[1] \in Uncleared(script[s])
        /\ snapshot[s] # None /\ k[1] = script[s][1].table => k \in snapshot[s]

Refers(s) == repeated[s] \/ ParentsFirst(script[s], Wrote(s))

Refreshes(s) == Seen(s) /\ Writes(s) /\ Sending(s) /\ Noted(s) /\ Clears(s) /\ Refers(s)

\* No row is written by two transactions.
Apart == \A s \in open : \A t \in open \ {s} : DOMAIN written[s] \cap DOMAIN written[t] = {}

DatabaseInv == DbTypes /\ (\A s \in open : Refreshes(s)) /\ Apart /\ WholeRefresh

\* A bounded set of numbers has a greatest one.
LEMMA GreatestOf ==
  ASSUME NEW N \in Nat, NEW T \in SUBSET (1 .. N), T # {}
  PROVE  \E x \in T : \A y \in T : y <= x
  <1> DEFINE R == {N - y : y \in T}
  <1>1. R \in SUBSET Nat /\ R # {}
    <2>1. ASSUME NEW y \in T PROVE N - y \in Nat
      <3>1. y \in 1 .. N
        OBVIOUS
      <3> QED BY <3>1
    <2>2. PICK y \in T : TRUE
      OBVIOUS
    <2>3. N - y \in R
      OBVIOUS
    <2> QED BY <2>1, <2>3
  <1>2. PICK r \in R : \A z \in R : r <= z
    <2> HIDE DEF R
    <2> QED BY <1>1, LeastOf
  <1>3. PICK x \in T : r = N - x
    OBVIOUS
  <1>4. ASSUME NEW y \in T PROVE y <= x
    <2>1. N - y \in R
      OBVIOUS
    <2>2. r <= N - y /\ x \in 1 .. N /\ y \in 1 .. N
      BY <1>2, <2>1
    <2> QED BY <1>3, <2>2
  <1> QED BY <1>4

\* The row that is kept of a key is its last.
IsLast(list, j) == \A k \in j + 1 .. Len(list) : list[k].key # list[j].key

LEMMA LastLikeIs ==
  ASSUME NEW list \in Seq(TableRows), NEW i \in DOMAIN list
  PROVE  /\ LastLike(list, i) \in DOMAIN list
         /\ list[LastLike(list, i)].key = list[i].key
         /\ IsLast(list, LastLike(list, i))
  <1> DEFINE T == {j \in 1 .. Len(list) : list[j].key = list[i].key}
  <1>1. Len(list) \in Nat /\ DOMAIN list = 1 .. Len(list)
    BY LenProperties
  <1>2. T # {} /\ T \in SUBSET (1 .. Len(list))
    BY <1>1
  <1>3. PICK x \in T : \A y \in T : y <= x
    <2> HIDE DEF T
    <2> QED BY <1>1, <1>2, GreatestOf
  <1>4. x \in DOMAIN list /\ list[x].key = list[i].key
    BY <1>1
  <1>5. \A k \in x + 1 .. Len(list) : list[k].key # list[i].key
    <2> SUFFICES ASSUME NEW k \in x + 1 .. Len(list), list[k].key = list[i].key PROVE FALSE
      OBVIOUS
    <2>1. x \in Nat /\ x >= 1
      BY <1>1, <1>4
    <2>2. k \in 1 .. Len(list) /\ ~ (k <= x)
      BY <1>1, <2>1
    <2> QED BY <1>3, <2>2
  <1> QED BY <1>4, <1>5 DEF LastLike, IsLast

\* Two last rows of one key are one row.
LEMMA LastIsOne ==
  ASSUME NEW list \in Seq(TableRows), NEW i \in DOMAIN list, NEW j \in DOMAIN list,
         IsLast(list, i), IsLast(list, j), list[i].key = list[j].key
  PROVE  i = j
  <1>1. Len(list) \in Nat /\ DOMAIN list = 1 .. Len(list)
    BY LenProperties
  <1>2. CASE i < j
    <2>1. j \in i + 1 .. Len(list)
      BY <1>1, <1>2
    <2> QED BY <2>1 DEF IsLast
  <1>3. CASE j < i
    <2>1. i \in j + 1 .. Len(list)
      BY <1>1, <1>3
    <2> QED BY <2>1 DEF IsLast
  <1>4. i \in Nat /\ j \in Nat
    BY <1>1
  <1> QED BY <1>2, <1>3, <1>4

Distinct(list) == \A i, j \in DOMAIN list : list[i].key = list[j].key => i = j

Members(list) == {list[i] : i \in DOMAIN list}

\* What is left of a list has every key once, with the last of its rows.
LEMMA DedupeIs ==
  ASSUME NEW list \in Seq(TableRows)
  PROVE  /\ Dedupe(list) \in Seq(TableRows)
         /\ Distinct(Dedupe(list))
         /\ Members(Dedupe(list)) = Upserted(list)
         /\ Distinct(list) => Dedupe(list) = list
  <1>1. PICK L \in Nat : L = Len(list) /\ DOMAIN list = 1 .. L
    BY LenProperties
  <1>2. PICK F : F = Firsts(list)
    OBVIOUS
  <1>3. F \in SUBSET Int /\ IsFiniteSet(F) /\ F \subseteq 1 .. L
    <2>1. F \in SUBSET (1 .. L)
      BY <1>1, <1>2 DEF Firsts
    <2>2. IsFiniteSet(1 .. L)
      BY <1>1, FS_Interval
    <2>3. IsFiniteSet(F)
      BY <2>1, <2>2, FS_Subset
    <2>4. F \subseteq 1 .. L /\ 1 .. L \subseteq Int
      BY <2>1
    <2> QED BY <2>3, <2>4
  <1>4. PICK C \in Nat : C = Cardinality(F)
    BY <1>3, FS_CardinalityType
  <1>5. /\ \A n \in 1 .. C : Nth(F, n) \in F /\ Rank(F, Nth(F, n)) = n
        /\ \A i \in F : Nth(F, Rank(F, i)) = i
        /\ \A i \in F : Rank(F, i) \in 1 .. C
    BY <1>3, <1>4, NthFacts, RankFacts
  <1>6. PICK d : d = Dedupe(list)
    OBVIOUS
  <1>7. d = [n \in 1 .. C |-> list[LastLike(list, Nth(F, n))]]
    BY <1>2, <1>4, <1>6 DEF Dedupe
  <1>8. \A n \in 1 .. C : /\ Nth(F, n) \in DOMAIN list /\ LastLike(list, Nth(F, n)) \in DOMAIN list
                          /\ d[n] = list[LastLike(list, Nth(F, n))]
                          /\ d[n].key = list[Nth(F, n)].key
                          /\ IsLast(list, LastLike(list, Nth(F, n)))
    BY <1>1, <1>3, <1>5, <1>7, LastLikeIs
  <1>9. d \in Seq(TableRows) /\ DOMAIN d = 1 .. C
    <2>1. \A n \in 1 .. C : d[n] \in TableRows
      BY <1>8, ElementOfSeq
    <2>2. d \in [1 .. C -> TableRows]
      BY <1>7, <2>1
    <2> QED BY <1>7, <2>2, SeqDef
  <1>10. Distinct(d)
    <2> SUFFICES ASSUME NEW m \in 1 .. C, NEW n \in 1 .. C, d[m].key = d[n].key PROVE m = n
      BY <1>9 DEF Distinct
    <2>1. PICK i \in F, j \in F : i = Nth(F, m) /\ j = Nth(F, n)
      BY <1>5
    <2>2. list[i].key = list[j].key
      BY <1>8, <2>1
    <2>3. i \in 1 .. L /\ j \in 1 .. L
      BY <1>3
    <2>4. /\ \A k \in 1 .. i - 1 : list[k].key # list[i].key
          /\ \A k \in 1 .. j - 1 : list[k].key # list[j].key
      BY <1>2 DEF Firsts
    <2>5. ~ (i < j)
      <3> SUFFICES ASSUME i < j PROVE FALSE
        OBVIOUS
      <3>1. i \in 1 .. j - 1
        BY <2>3
      <3> QED BY <2>2, <2>4, <3>1
    <2>6. ~ (j < i)
      <3> SUFFICES ASSUME j < i PROVE FALSE
        OBVIOUS
      <3>1. j \in 1 .. i - 1
        BY <2>3
      <3> QED BY <2>2, <2>4, <3>1
    <2>7. i = j
      BY <2>3, <2>5, <2>6
    <2> QED BY <1>5, <2>1, <2>7
  <1>11. Members(d) = Upserted(list)
    <2>1. ASSUME NEW n \in 1 .. C PROVE d[n] \in Upserted(list)
      <3>1. PICK j \in DOMAIN list : d[n] = list[j] /\ IsLast(list, j)
        BY <1>8
      <3> QED BY <3>1 DEF Upserted, IsLast
    <2>2. ASSUME NEW j \in DOMAIN list, IsLast(list, j) PROVE list[j] \in Members(d)
      <3> DEFINE T == {i \in 1 .. L : list[i].key = list[j].key}
      <3>1. T \in SUBSET Nat /\ T # {}
        BY <1>1
      <3>2. PICK f \in T : \A y \in T : f <= y
        <4> HIDE DEF T
        <4> QED BY <3>1, LeastOf
      <3>3. f \in 1 .. L /\ list[f].key = list[j].key
        OBVIOUS
      <3>4. \A k \in 1 .. f - 1 : list[k].key # list[f].key
        <4> SUFFICES ASSUME NEW k \in 1 .. f - 1, list[k].key = list[f].key PROVE FALSE
          OBVIOUS
        <4>1. k \in 1 .. L /\ ~ (f <= k)
          BY <3>3
        <4> QED BY <3>2, <3>3, <4>1
      <3>5. f \in F
        BY <1>1, <1>2, <3>3, <3>4 DEF Firsts
      <3>6. PICK n \in 1 .. C : Nth(F, n) = f
        BY <1>5, <3>5
      <3>7. PICK l \in DOMAIN list : l = LastLike(list, f) /\ d[n] = list[l] /\ IsLast(list, l)
        BY <1>8, <3>6
      <3>8. list[l].key = list[j].key
        BY <1>1, <3>3, <3>7, LastLikeIs
      <3>9. l = j
        BY <2>2, <3>7, <3>8, LastIsOne
      <3> QED BY <1>9, <3>7, <3>9 DEF Members
    <2>3. Members(d) \subseteq Upserted(list)
      BY <1>9, <2>1 DEF Members
    <2>4. ASSUME NEW r \in Upserted(list) PROVE r \in Members(d)
      <3>1. PICK j \in DOMAIN list : r = list[j] /\ IsLast(list, j)
        BY DEF Upserted, IsLast
      <3> QED BY <2>2, <3>1
    <2> QED BY <2>3, <2>4
  <1>12. ASSUME Distinct(list) PROVE d = list
    <2>1. F = 1 .. L
      <3> SUFFICES ASSUME NEW i \in 1 .. L, NEW j \in 1 .. i - 1, list[j].key = list[i].key
                   PROVE  FALSE
        BY <1>1, <1>2, <1>3 DEF Firsts
      <3>1. j \in 1 .. L /\ j # i
        OBVIOUS
      <3> QED BY <1>1, <1>12, <3>1 DEF Distinct
    <2>2. \A i \in 1 .. L : Rank(F, i) = i
      <3> SUFFICES ASSUME NEW i \in 1 .. L PROVE Rank(F, i) = i
        OBVIOUS
      <3>1. UpTo(F, i) = 1 .. i
        BY <2>1 DEF UpTo
      <3>2. Cardinality(1 .. i) = IF 1 > i THEN 0 ELSE i - 1 + 1
        BY FS_Interval
      <3> QED BY <3>1, <3>2 DEF Rank
    <2>3. C = L
      <3>1. Cardinality(1 .. L) = IF 1 > L THEN 0 ELSE L - 1 + 1
        BY FS_Interval
      <3> QED BY <1>4, <2>1, <3>1
    <2>4. ASSUME NEW n \in 1 .. L PROVE d[n] = list[n]
      <3>1. Nth(F, n) = n
        BY <1>5, <2>1, <2>2
      <3>2. LastLike(list, n) \in DOMAIN list /\ list[LastLike(list, n)].key = list[n].key
        BY <1>1, LastLikeIs
      <3>3. LastLike(list, n) = n
        BY <1>1, <1>12, <3>2 DEF Distinct
      <3> QED BY <1>8, <2>3, <3>1, <3>3
    <2> QED BY <1>1, <1>9, <2>3, <2>4, SeqEqual
  <1> QED BY <1>6, <1>9, <1>10, <1>11, <1>12

\* A count of keys equal to the length is no key twice.
LEMMA CountsKeys ==
  ASSUME NEW list \in Seq(TableRows)
  PROVE  (Cardinality(KeysOf(list)) = Len(list)) <=> Distinct(list)
  <1>1. PICK L \in Nat : L = Len(list) /\ DOMAIN list = 1 .. L
    BY LenProperties
  <1> DEFINE f == [i \in 1 .. L |-> list[i].key]
  <1>2. f \in Surjection(1 .. L, KeysOf(list))
    BY <1>1 DEF Surjection, KeysOf
  <1>3. IsFiniteSet(1 .. L) /\ Cardinality(1 .. L) = L
    <2>1. Cardinality(1 .. L) = IF 1 > L THEN 0 ELSE L - 1 + 1
      BY FS_Interval
    <2> QED BY <2>1, FS_Interval
  <1>4. (Cardinality(KeysOf(list)) = L) <=> f \in Injection(1 .. L, KeysOf(list))
    <2> HIDE DEF f
    <2>1. Cardinality(KeysOf(list)) = Cardinality(1 .. L) <=> f \in Injection(1 .. L, KeysOf(list))
      BY <1>2, <1>3, FS_Surjection
    <2> QED BY <1>3, <2>1
  <1>5. f \in Injection(1 .. L, KeysOf(list)) <=> Distinct(list)
    <2>1. f \in [1 .. L -> KeysOf(list)]
      BY <1>1 DEF KeysOf
    <2>2. (\A i, j \in 1 .. L : f[i] = f[j] => i = j) <=> Distinct(list)
      BY <1>1 DEF Distinct
    <2>3. f \in Injection(1 .. L, KeysOf(list)) <=>
            \A i, j \in 1 .. L : f[i] = f[j] => i = j
      <3> HIDE DEF f
      <3> QED BY <2>1 DEF Injection, IsInjective
    <2> QED BY <2>2, <2>3
  <1> QED BY <1>1, <1>4, <1>5

\* The place in the list of the j-th row of the i-th statement.
Base(i) == (i - 1) * Batch

LEMMA BaseFacts ==
  /\ Base(1) = 0 /\ \A i \in Nat : Base(i + 1) = Base(i) + Batch
  /\ \A i \in Nat \ {0} : Base(i) \in Nat
  /\ \A i, k \in Nat \ {0} : i < k => Base(i) + Batch <= Base(k)
  <1>1. Batch \in Nat \ {0}
    BY DatabaseAssumption
  <1>2. Base(1) = 0
    <2>1. 0 * Batch = 0
      BY <1>1
    <2> QED BY <2>1 DEF Base
  <1>3. \A i \in Nat : Base(i + 1) = Base(i) + Batch
    <2> SUFFICES ASSUME NEW i \in Nat PROVE Base(i + 1) = Base(i) + Batch
      OBVIOUS
    <2>1. PICK b \in Nat : b = Batch
      BY <1>1
    <2>2. (i + 1 - 1) * b = (i - 1) * b + b
      BY <2>1
    <2> QED BY <2>1, <2>2 DEF Base
  <1>4. ASSUME NEW i \in Nat \ {0} PROVE Base(i) \in Nat
    <2>1. PICK h \in Nat : h = i - 1
      OBVIOUS
    <2>2. PICK b \in Nat : b = Batch
      BY <1>1
    <2>3. h * b \in Nat
      OBVIOUS
    <2> QED BY <2>1, <2>2, <2>3 DEF Base
  <1>5. ASSUME NEW i \in Nat \ {0}, NEW k \in Nat \ {0}, i < k PROVE Base(i) + Batch <= Base(k)
    <2>1. PICK h \in Nat, g \in Nat, b \in Nat : h = i - 1 /\ k - 1 = h + 1 + g /\ b = Batch
      <3>1. i - 1 \in Nat /\ k - 1 - i \in Nat /\ k - 1 = (i - 1) + 1 + (k - 1 - i)
        BY <1>5
      <3> QED BY <1>1, <3>1
    <2>2. (h + 1 + g) * b = h * b + b + g * b
      OBVIOUS
    <2>3. h * b \in Nat /\ g * b \in Nat
      OBVIOUS
    <2>4. h * b + b <= (h + 1 + g) * b
      BY <2>2, <2>3
    <2> QED BY <2>1, <2>4 DEF Base
  <1> QED BY <1>2, <1>3, <1>4, <1>5

\* Statements that send a list: one after the other, whole and in its order.
Spans(p, table, list) ==
  /\ p \in Seq(SqlOrders)
  /\ \A i \in DOMAIN p : p[i].op = "insert" /\ p[i].table = table
  /\ \A i \in DOMAIN p : \A j \in DOMAIN p[i].list :
       /\ Base(i) + j \in DOMAIN list /\ j \in 1 .. Batch
       /\ Row(p, i, j) = list[Base(i) + j]
  /\ \A q \in DOMAIN list :
       \E i \in DOMAIN p : \E j \in DOMAIN p[i].list : j \in 1 .. Batch /\ q = Base(i) + j

LEMMA ChunksSend ==
  ASSUME NEW table \in Tables, NEW list \in Seq(TableRows)
  PROVE  Spans(Chunks(table, list), table, list)
  <1>1. PICK L \in Nat : L = Len(list) /\ DOMAIN list = 1 .. L
    BY LenProperties
  <1>2. PICK b \in Nat \ {0} : b = Batch
    BY DatabaseAssumption
  <1>3. PICK n : n = (Len(list) + Batch - 1) \div Batch
    OBVIOUS
  <1>4. n \in Nat /\ n * b <= L + b - 1 /\ L + b - 1 < n * b + b
    <2>1. L + b - 1 \in Nat
      OBVIOUS
    <2>2. \A x \in Nat : x \div b \in Nat /\ (x \div b) * b <= x /\ x < (x \div b) * b + b
      OBVIOUS
    <2> QED BY <1>1, <1>2, <1>3, <2>1, <2>2
  <1>5. PICK p : p = Chunks(table, list)
    OBVIOUS
  <1> DEFINE last(i) == IF i = n THEN L ELSE i * b
  <1>6. p = [i \in 1 .. n |-> Insert(table, SubSeq(list, Base(i) + 1, last(i)))]
    BY <1>1, <1>2, <1>3, <1>5 DEF Chunks, Base
  <1>7. ASSUME NEW i \in 1 .. n
        PROVE  /\ Base(i) \in Nat /\ last(i) \in Nat /\ Base(i) <= last(i) /\ last(i) <= L
               /\ last(i) <= Base(i) + b /\ (i # n => last(i) = Base(i) + b)
    <2>1. Base(i) \in Nat /\ i \in Nat \ {0} /\ Base(i + 1) = Base(i) + b
      <3>1. i \in Nat /\ i \in Nat \ {0}
        BY <1>4
      <3> QED BY <1>2, <3>1, BaseFacts
    <2>2. PICK z \in Nat : z = n * b
      BY <1>4
    <2>3. Base(n + 1) = n * b
      BY <1>2, <1>4 DEF Base
    <2>4. Base(i + 1) = i * b
      BY <1>2, <2>1 DEF Base
    <2>5. CASE i = n
      <3>1. Base(i) + b = z /\ z <= L + b - 1 /\ L < z + 1
        <4>1. L + b - 1 < z + b
          BY <1>4, <2>2
        <4> QED BY <1>4, <2>1, <2>2, <2>3, <2>5, <4>1
      <3> QED BY <2>1, <2>5, <3>1
    <2>6. CASE i # n
      <3>1. Base(i + 1) + b <= Base(n + 1)
        <4>1. i + 1 \in Nat \ {0} /\ n + 1 \in Nat \ {0} /\ i + 1 < n + 1
          BY <1>4, <2>6
        <4> QED BY <1>2, <4>1, BaseFacts
      <3>2. Base(i) + b + b <= z /\ z <= L + b - 1
        BY <1>4, <2>1, <2>2, <2>3, <3>1
      <3>3. last(i) = Base(i) + b
        BY <2>1, <2>4, <2>6
      <3> QED BY <2>1, <3>2, <3>3
    <2> QED BY <2>5, <2>6
  <1>8. ASSUME NEW i \in 1 .. n
        PROVE  /\ p[i] = Insert(table, SubSeq(list, Base(i) + 1, last(i)))
               /\ p[i].list \in Seq(TableRows) /\ DOMAIN p[i].list = 1 .. last(i) - Base(i)
               /\ \A j \in 1 .. last(i) - Base(i) : p[i].list[j] = list[Base(i) + j]
    <2>1. PICK lo \in Nat, hi \in Nat : lo = Base(i) /\ hi = last(i) /\ lo <= hi /\ hi <= L
      BY <1>7
    <2> HIDE DEF last
    <2>2. PICK c : c = SubSeq(list, lo + 1, hi)
      OBVIOUS
    <2>3. c \in Seq(TableRows) /\ Len(c) = hi - lo /\ \A j \in 1 .. hi - lo : c[j] = list[lo + j]
      <3>1. lo + 1 \in 1 .. Len(list) + 1 /\ hi \in lo .. Len(list)
        BY <1>1, <2>1
      <3>2. /\ c \in Seq(TableRows)
            /\ Len(c) = IF lo + 1 <= hi THEN hi - (lo + 1) + 1 ELSE 0
            /\ \A j \in 1 .. hi - (lo + 1) + 1 : c[j] = list[lo + 1 + j - 1]
        <4>1. \A q \in lo + 1 .. hi : list[q] \in TableRows
          <5>1. \A q \in lo + 1 .. hi : q \in 1 .. Len(list)
            BY <1>1, <2>1
          <5> QED BY <5>1, ElementOfSeq
        <4>2. PICK from \in Int, to \in Int : from = lo + 1 /\ to = hi
          BY <2>1
        <4>3. \A q \in from .. to : list[q] \in TableRows
          BY ONLY <4>1, <4>2, Zenon
        <4>4. /\ SubSeq(list, from, to) \in Seq(TableRows)
              /\ Len(SubSeq(list, from, to)) = IF from <= to THEN to - from + 1 ELSE 0
              /\ \A j \in 1 .. to - from + 1 : SubSeq(list, from, to)[j] = list[from + j - 1]
          BY ONLY <4>3, from \in Int, to \in Int, SubSeqProperties
        <4> QED BY ONLY <2>2, <4>2, <4>4, Zenon
      <3>3. hi - (lo + 1) + 1 = hi - lo /\ \A j \in 1 .. hi - lo : lo + 1 + j - 1 = lo + j
        BY <2>1
      <3>4. (IF lo + 1 <= hi THEN hi - (lo + 1) + 1 ELSE 0) = hi - lo
        BY <2>1
      <3>5. Len(c) = hi - lo
        BY ONLY <3>2, <3>4
      <3>6. \A j \in 1 .. hi - lo : c[j] = list[lo + 1 + j - 1]
        BY ONLY <3>2, <3>3, Zenon
      <3>7. ASSUME NEW j \in 1 .. hi - lo PROVE c[j] = list[lo + j]
        <4>1. lo + 1 + j - 1 = lo + j
          BY ONLY <3>3, j \in 1 .. hi - lo, Zenon
        <4> QED BY ONLY <3>6, <4>1, j \in 1 .. hi - lo, Zenon
      <3> QED BY ONLY <3>2, <3>5, <3>7, Zenon
    <2>4. DOMAIN c = 1 .. hi - lo
      BY <2>3, LenProperties
    <2>5. p[i] = Insert(table, c)
      <3>1. p[i] = Insert(table, SubSeq(list, Base(i) + 1, last(i)))
        BY ONLY <1>6, i \in 1 .. n, Zenon
      <3> QED BY ONLY <2>1, <2>2, <3>1, Zenon
    <2>6. p[i].list = c
      BY <2>5 DEF Insert
    <2>7. p[i] = Insert(table, SubSeq(list, Base(i) + 1, last(i)))
      BY <2>1, <2>2, <2>5
    <2> QED BY <2>1, <2>3, <2>4, <2>6, <2>7
  <1>9. DOMAIN p = 1 .. n
    BY <1>6
  <1>10. p \in Seq(SqlOrders)
    <2>1. \A i \in 1 .. n : p[i] \in SqlOrders
      <3> SUFFICES ASSUME NEW i \in 1 .. n PROVE p[i] \in SqlOrders
        OBVIOUS
      <3>1. PICK c : c = SubSeq(list, Base(i) + 1, last(i))
        OBVIOUS
      <3>2. p[i] = Insert(table, c) /\ p[i].list \in Seq(TableRows)
        BY <1>8, <3>1
      <3>3. p[i] = [op |-> "insert", table |-> table, list |-> c] /\ c \in Seq(TableRows)
        BY <3>2 DEF Insert
      <3> QED BY <3>3 DEF SqlOrders
    <2>2. p \in [1 .. n -> SqlOrders]
      BY <1>6, <2>1
    <2> QED BY <1>4, <2>2, SeqDef
  <1>11. \A i \in DOMAIN p : p[i].op = "insert" /\ p[i].table = table
    <2> HIDE DEF last
    <2> QED BY <1>8, <1>9 DEF Insert
  <1>12. ASSUME NEW i \in 1 .. n, NEW j \in 1 .. last(i) - Base(i)
         PROVE  /\ Base(i) + j \in 1 .. L /\ j \in 1 .. Batch
                /\ Row(p, i, j) = list[Base(i) + j]
    <2>1. PICK lo \in Nat, hi \in Nat : lo = Base(i) /\ hi = last(i) /\ lo <= hi /\ hi <= L /\ hi <= lo + b
      BY <1>7
    <2>2. j \in 1 .. hi - lo
      BY <2>1
    <2>3. lo + j \in 1 .. L /\ j \in 1 .. b
      BY <2>1, <2>2
    <2> HIDE DEF last
    <2> QED BY <1>2, <1>8, <2>1, <2>3 DEF Row
  <1>13. ASSUME NEW q \in 1 .. L
         PROVE  \E i \in 1 .. n : \E j \in 1 .. last(i) - Base(i) : j \in 1 .. Batch /\ q = Base(i) + j
    <2> DEFINE T == {i \in 1 .. n : Base(i) < q}
    <2>1. n \in Nat \ {0} /\ 1 \in 1 .. n
      <3>1. n # 0
        <4> SUFFICES ASSUME n = 0 PROVE FALSE
          OBVIOUS
        <4>1. n * b = 0
          OBVIOUS
        <4> QED BY <1>4, <4>1
      <3> QED BY <1>4, <3>1
    <2>2. 1 \in T
      BY <2>1, BaseFacts
    <2>3. PICK i \in T : \A y \in T : y <= i
      <3>1. T \in SUBSET (1 .. n) /\ T # {}
        BY <2>2
      <3> HIDE DEF T
      <3> QED BY <1>4, <3>1, GreatestOf
    <2>4. i \in 1 .. n /\ Base(i) < q
      OBVIOUS
    <2>5. PICK lo \in Nat, hi \in Nat : /\ lo = Base(i) /\ hi = last(i) /\ lo <= hi /\ hi <= L
                                        /\ hi <= lo + b /\ (i # n => hi = lo + b)
      BY <1>7, <2>4
    <2>6. q <= hi
      <3>1. CASE i = n
        BY <2>5, <3>1
      <3>2. CASE i # n
        <4>1. i + 1 \in 1 .. n /\ ~ (i + 1 <= i)
          BY <1>4, <2>4, <3>2
        <4>2. ~ (Base(i + 1) < q)
          BY <2>3, <4>1
        <4>3. Base(i + 1) = lo + b
          BY <1>2, <2>4, <2>5, BaseFacts
        <4> QED BY <2>5, <3>2, <4>2, <4>3
      <3> QED BY <3>1, <3>2
    <2>7. PICK j \in Nat : j = q - lo
      BY <2>4, <2>5
    <2>8. j \in 1 .. hi - lo /\ q = lo + j /\ j \in 1 .. b
      BY <2>4, <2>5, <2>6, <2>7
    <2> QED BY <1>2, <2>4, <2>5, <2>8
  <1>14. \A i \in DOMAIN p : DOMAIN p[i].list = 1 .. last(i) - Base(i)
    BY <1>8, <1>9
  <1>15. /\ \A i \in DOMAIN p : \A j \in DOMAIN p[i].list :
              /\ Base(i) + j \in DOMAIN list /\ j \in 1 .. Batch
              /\ Row(p, i, j) = list[Base(i) + j]
         /\ \A q \in DOMAIN list :
              \E i \in DOMAIN p : \E j \in DOMAIN p[i].list : j \in 1 .. Batch /\ q = Base(i) + j
    <2> HIDE DEF last
    <2> QED BY <1>1, <1>9, <1>12, <1>13, <1>14
  <1> QED BY <1>5, <1>10, <1>11, <1>15 DEF Spans

StoredEntries == [id : Ids, level : Levels]

\* The parent of an entry stands before it.
LEMMA ParentIs ==
  ASSUME NEW tree \in Seq(StoredEntries), InPreorder(tree), NEW i \in DOMAIN tree
  PROVE  ParentOf(tree, i) = None \/ \E j \in 1 .. i - 1 : ParentOf(tree, i) = <<"node", tree[j].id>>
  <1>1. PICK L \in Nat : L = Len(tree) /\ DOMAIN tree = 1 .. L
    BY LenProperties
  <1>2. \A j \in 1 .. L : tree[j].id \in Ids /\ tree[j].level \in Nat
    <2>1. \A j \in 1 .. L : tree[j] \in StoredEntries
      BY <1>1, ElementOfSeq
    <2> QED BY <2>1, HierarchyAssumption DEF StoredEntries, Levels
  <1>3. i \in 1 .. L
    BY <1>1
  <1>4. CASE tree[i].level = 0
    BY <1>4 DEF ParentOf
  <1>5. CASE tree[i].level # 0
    <2>1. PICK l \in Nat : l = tree[i].level /\ l # 0
      BY <1>2, <1>3, <1>5
    <2> DEFINE T == {j \in 1 .. i - 1 : tree[j].level < l}
               above == {j \in 1 .. i - 1 : tree[j].level = tree[i].level - 1}
    <2>2. tree[1].level = 0 /\ i # 1 /\ 1 \in 1 .. i - 1
      <3>1. 1 \in DOMAIN tree
        BY <1>1, <1>3
      <3>2. tree[1].level <= 0 /\ tree[1].level \in Nat
        BY <1>1, <1>2, <3>1 DEF InPreorder
      <3>3. tree[1].level = 0
        BY <3>2
      <3> QED BY <1>3, <2>1, <3>3
    <2>3. 1 \in T /\ T \in SUBSET (1 .. L)
      BY <1>3, <2>1, <2>2
    <2>4. PICK m \in T : \A y \in T : y <= m
      <3>1. T # {}
        BY <2>3
      <3> HIDE DEF T
      <3> QED BY <2>3, <3>1, GreatestOf
    <2>5. m \in 1 .. i - 1 /\ tree[m].level < l /\ tree[m].level \in Nat /\ m \in Nat
      BY <1>2, <1>3
    <2>6. tree[m].level = l - 1
      <3>1. m + 1 \in 1 .. L /\ m + 1 # 1
        BY <1>3, <2>5
      <3>2. tree[m + 1].level >= l
        <4>1. CASE m + 1 = i
          BY <2>1, <4>1
        <4>2. CASE m + 1 # i
          <5>1. m + 1 \in 1 .. i - 1 /\ ~ (m + 1 <= m)
            BY <1>3, <2>5, <4>2
          <5>2. ~ (tree[m + 1].level < l)
            BY <2>4, <5>1
          <5>3. tree[m + 1].level \in Nat
            BY <1>2, <3>1
          <5> QED BY <2>1, <5>2, <5>3
        <4> QED BY <4>1, <4>2
      <3>3. tree[m + 1].level <= tree[m + 1 - 1].level + 1
        BY <1>1, <3>1 DEF InPreorder
      <3>4. tree[m + 1].level <= tree[m].level + 1
        <4>1. m + 1 - 1 = m
          BY <2>5
        <4> QED BY <3>3, <4>1
      <3>5. PICK p \in Nat, q \in Nat : p = tree[m].level /\ q = tree[m + 1].level
        BY <1>2, <2>5, <3>1
      <3>6. p < l /\ q >= l /\ q <= p + 1
        BY <2>5, <3>2, <3>4, <3>5
      <3>7. p = l - 1
        BY ONLY <3>6, p \in Nat, q \in Nat, l \in Nat
      <3> QED BY <3>5, <3>7
    <2>7. above # {} /\ above \in SUBSET (1 .. L)
      <3>1. m \in above
        BY <2>1, <2>5, <2>6
      <3>2. above \in SUBSET (1 .. L)
        BY <1>3
      <3> QED BY <3>1, <3>2
    <2>8. \E x \in above : \A y \in above : y <= x
      <3> HIDE DEF above
      <3> QED BY <2>7, GreatestOf
    <2>9. PICK j \in 1 .. i - 1 : j = CHOOSE x \in above : \A y \in above : y <= x
      BY <2>8
    <2>10. ParentOf(tree, i) = <<"node", tree[j].id>>
      BY <1>5, <2>9 DEF ParentOf
    <2> QED BY <2>10
  <1> QED BY <1>4, <1>5

NodeKey(id) == <<"node", id>>

LEMMA FlattenIs ==
  ASSUME NEW tree \in Seq(StoredEntries), InPreorder(tree), NEW x \in Exchanges
  PROVE  /\ Flatten(tree, x) \in Seq(TableRows) /\ DOMAIN Flatten(tree, x) = DOMAIN tree
         /\ \A i \in DOMAIN tree :
              /\ Flatten(tree, x)[i] \in OwnRows(x)
              /\ Flatten(tree, x)[i].key = NodeKey(tree[i].id)
              /\ \/ Flatten(tree, x)[i].ref = None
                 \/ \E j \in 1 .. i - 1 : Flatten(tree, x)[i].ref = NodeKey(tree[j].id)
  <1>1. PICK L \in Nat : L = Len(tree) /\ DOMAIN tree = 1 .. L
    BY LenProperties
  <1>2. PICK f : f = Flatten(tree, x)
    OBVIOUS
  <1>3. f = [i \in 1 .. L |-> [key |-> NodeKey(tree[i].id), ref |-> ParentOf(tree, i),
                               level |-> tree[i].level, exchange |-> x]]
    BY <1>1, <1>2 DEF Flatten, NodeKey
  <1>4. ASSUME NEW i \in 1 .. L
        PROVE  /\ f[i] \in OwnRows(x) /\ f[i].key = NodeKey(tree[i].id)
               /\ f[i].ref = None \/ \E j \in 1 .. i - 1 : f[i].ref = NodeKey(tree[j].id)
    <2>1. \A j \in 1 .. L : tree[j].id \in Ids /\ tree[j].level \in Levels
      <3>1. \A j \in 1 .. L : tree[j] \in StoredEntries
        BY <1>1, ElementOfSeq
      <3> QED BY <3>1 DEF StoredEntries
    <2>2. PICK r : r = ParentOf(tree, i)
      OBVIOUS
    <2>3. r = None \/ \E j \in 1 .. i - 1 : r = NodeKey(tree[j].id)
      BY <1>1, <2>2, ParentIs DEF NodeKey
    <2>4. r = None \/ r \in {"node"} \X Ids
      <3>1. \A j \in 1 .. i - 1 : j \in 1 .. L
        OBVIOUS
      <3> QED BY <2>1, <2>3, <3>1 DEF NodeKey
    <2>5. PICK k : k = NodeKey(tree[i].id)
      OBVIOUS
    <2>6. k \in {"node"} \X Ids
      BY <2>1, <2>5 DEF NodeKey
    <2>7. PICK l \in Levels : l = tree[i].level
      BY <2>1
    <2>8. f[i] = [key |-> k, ref |-> r, level |-> l, exchange |-> x]
      BY <1>3, <2>2, <2>5, <2>7
    <2>9. f[i] \in TableRows
      BY <2>4, <2>6, <2>8 DEF TableRows, RowKeys
    <2>10. f[i].key = k /\ f[i].ref = r /\ f[i].exchange = x
      BY <2>8
    <2> QED BY <2>3, <2>4, <2>5, <2>9, <2>10 DEF OwnRows, Sound
  <1>5. f \in Seq(TableRows)
    <2>1. \A i \in 1 .. L : f[i] \in TableRows
      BY <1>4 DEF OwnRows
    <2>2. f \in [1 .. L -> TableRows]
      BY <1>3, <2>1
    <2> QED BY <2>2, SeqDef
  <1>6. DOMAIN f = 1 .. L
    BY <1>3
  <1> QED BY <1>1, <1>2, <1>4, <1>5, <1>6

LEMMA InstrumentsAre ==
  ASSUME NEW tree \in Seq(StoredEntries), NEW x \in Exchanges
  PROVE  /\ InstrumentsOf(tree, x) \in Seq(TableRows)
         /\ \A i \in DOMAIN InstrumentsOf(tree, x) :
              /\ InstrumentsOf(tree, x)[i] \in OwnRows(x)
              /\ InstrumentsOf(tree, x)[i].key \in {"instrument"} \X Markets
              /\ \E j \in DOMAIN tree : InstrumentsOf(tree, x)[i].ref = NodeKey(tree[j].id)
  <1>1. PICK L \in Nat : L = Len(tree) /\ DOMAIN tree = 1 .. L
    BY LenProperties
  <1>2. PICK leaves : leaves = {i \in DOMAIN tree : tree[i].id \in Markets}
    OBVIOUS
  <1>3. leaves \in SUBSET Int /\ IsFiniteSet(leaves) /\ leaves \subseteq 1 .. L
    <2>1. leaves \in SUBSET (1 .. L)
      BY <1>1, <1>2
    <2>2. IsFiniteSet(1 .. L)
      BY FS_Interval
    <2>3. IsFiniteSet(leaves)
      BY <2>1, <2>2, FS_Subset
    <2>4. leaves \subseteq 1 .. L /\ 1 .. L \subseteq Int
      BY <2>1
    <2> QED BY <2>3, <2>4
  <1>4. PICK C \in Nat : C = Cardinality(leaves)
    BY <1>3, FS_CardinalityType
  <1>5. \A n \in 1 .. C : Nth(leaves, n) \in leaves
    BY <1>3, <1>4, NthFacts
  <1>6. PICK f : f = InstrumentsOf(tree, x)
    OBVIOUS
  <1>7. f = [n \in 1 .. C |->
               [key |-> <<"instrument", tree[Nth(leaves, n)].id>>, ref |-> NodeKey(tree[Nth(leaves, n)].id),
                level |-> 0, exchange |-> x]]
    BY <1>2, <1>4, <1>6 DEF InstrumentsOf, NodeKey
  <1>8. ASSUME NEW n \in 1 .. C
        PROVE  /\ f[n] \in OwnRows(x) /\ f[n].key \in {"instrument"} \X Markets
               /\ \E j \in 1 .. L : f[n].ref = NodeKey(tree[j].id)
    <2>1. PICK j \in leaves : j = Nth(leaves, n)
      BY <1>5
    <2>2. PICK id \in Markets : id = tree[j].id
      BY <1>2
    <2>3. f[n] = [key |-> <<"instrument", id>>, ref |-> <<"node", id>>, level |-> 0, exchange |-> x]
      BY <1>7, <2>1, <2>2 DEF NodeKey
    <2>4. f[n].key = <<"instrument", id>> /\ f[n].ref = <<"node", id>> /\ f[n].exchange = x
      BY <2>3
    <2>5. <<"instrument", id>> \in {"instrument"} \X Markets /\ <<"node", id>> \in {"node"} \X Ids
      BY DEF Ids
    <2>6. 0 \in Levels
      BY HierarchyAssumption DEF Levels
    <2>7. f[n] \in TableRows
      BY <2>3, <2>5, <2>6 DEF TableRows, RowKeys
    <2>8. j \in 1 .. L /\ f[n].ref = NodeKey(tree[j].id)
      BY <1>3, <2>2, <2>4 DEF NodeKey
    <2> QED BY <2>4, <2>5, <2>7, <2>8 DEF OwnRows, Sound
  <1>9. f \in Seq(TableRows)
    <2>1. \A i \in 1 .. C : f[i] \in TableRows
      BY <1>8 DEF OwnRows
    <2>2. f \in [1 .. C -> TableRows]
      BY <1>7, <2>1
    <2> QED BY <2>2, SeqDef
  <1>10. DOMAIN f = 1 .. C
    BY <1>7
  <1> QED BY <1>1, <1>6, <1>8, <1>9, <1>10

\* Lists without a key in common are upserted one by one.
LEMMA UpsertedApart ==
  ASSUME NEW a \in Seq(TableRows), NEW b \in Seq(TableRows),
         \A i \in DOMAIN a : \A j \in DOMAIN b : a[i].key # b[j].key
  PROVE  /\ Upserted(a \o b) = Upserted(a) \cup Upserted(b)
         /\ Distinct(a \o b) => Distinct(a) /\ Distinct(b)
  <1>1. PICK A \in Nat, B \in Nat : /\ A = Len(a) /\ DOMAIN a = 1 .. A
                                    /\ B = Len(b) /\ DOMAIN b = 1 .. B
    BY LenProperties
  <1>2. PICK c \in Seq(TableRows) : c = a \o b
    BY ConcatProperties
  <1>3. /\ Len(c) = A + B /\ DOMAIN c = 1 .. A + B
        /\ \A i \in 1 .. A : c[i] = a[i]
        /\ \A j \in 1 .. B : c[A + j] = b[j]
    <2>1. Len(c) = A + B
      BY <1>1, <1>2, ConcatProperties
    <2>2. \A i \in 1 .. Len(a) + Len(b) :
            c[i] = IF i <= Len(a) THEN a[i] ELSE b[i - Len(a)]
      BY <1>2, ConcatProperties
    <2>3. \A i \in 1 .. A : c[i] = a[i]
      BY <1>1, <2>2
    <2>4. ASSUME NEW j \in 1 .. B PROVE c[A + j] = b[j]
      <3>1. PICK k \in 1 .. A + B : k = A + j /\ ~ (k <= A) /\ k - A = j
        OBVIOUS
      <3>2. c[k] = IF k <= Len(a) THEN a[k] ELSE b[k - Len(a)]
        BY <1>1, <2>2
      <3>3. c[k] = b[j]
        BY <1>1, <3>1, <3>2
      <3> QED BY <3>1, <3>3
    <2> QED BY <2>1, <2>3, <2>4, LenProperties
  <1>4. ASSUME NEW i \in 1 .. A PROVE IsLast(c, i) <=> IsLast(a, i)
    <2>1. ASSUME IsLast(c, i), NEW k \in i + 1 .. A PROVE a[k].key # a[i].key
      <3>1. k \in i + 1 .. A + B /\ k \in 1 .. A
        OBVIOUS
      <3> QED BY <1>3, <2>1, <3>1 DEF IsLast
    <2>2. ASSUME IsLast(a, i), NEW k \in i + 1 .. A + B PROVE c[k].key # c[i].key
      <3>1. CASE k <= A
        <4>1. k \in i + 1 .. A /\ k \in 1 .. A
          BY <3>1
        <4> QED BY <1>1, <1>3, <2>2, <4>1 DEF IsLast
      <3>2. CASE k > A
        <4>1. k - A \in 1 .. B /\ A + (k - A) = k
          BY <3>2
        <4>2. c[k] = b[k - A] /\ c[i] = a[i]
          BY <1>3, <4>1
        <4>3. a[i].key # b[k - A].key
          BY <1>1, <4>1
        <4> QED BY <4>2, <4>3
      <3> QED BY <3>1, <3>2
    <2> QED BY <1>1, <1>3, <2>1, <2>2 DEF IsLast
  <1>5. ASSUME NEW j \in 1 .. B PROVE IsLast(c, A + j) <=> IsLast(b, j)
    <2>1. ASSUME IsLast(c, A + j), NEW k \in j + 1 .. B PROVE b[k].key # b[j].key
      <3>1. A + k \in A + j + 1 .. A + B /\ k \in 1 .. B
        OBVIOUS
      <3> QED BY <1>3, <2>1, <3>1 DEF IsLast
    <2>2. ASSUME IsLast(b, j), NEW k \in A + j + 1 .. A + B PROVE c[k].key # c[A + j].key
      <3>1. PICK m \in 1 .. B : k = A + m /\ m \in j + 1 .. B
        <4>1. k - A \in j + 1 .. B /\ k - A \in 1 .. B /\ k = A + (k - A)
          OBVIOUS
        <4> QED BY <4>1
      <3>2. b[m].key # b[j].key
        BY <1>1, <2>2, <3>1 DEF IsLast
      <3>3. c[k] = b[m] /\ c[A + j] = b[j]
        BY <1>3, <3>1
      <3> QED BY <3>2, <3>3
    <2> QED BY <1>1, <1>3, <2>1, <2>2 DEF IsLast
  <1>6. \A list \in Seq(TableRows) : Upserted(list) = {list[i] : i \in {j \in DOMAIN list : IsLast(list, j)}}
    BY DEF Upserted, IsLast
  <1>7. ASSUME NEW r \in Upserted(c) PROVE r \in Upserted(a) \cup Upserted(b)
    <2>1. PICK i \in 1 .. A + B : r = c[i] /\ IsLast(c, i)
      BY <1>3, <1>6
    <2>2. CASE i <= A
      <3>1. i \in 1 .. A
        BY <2>2
      <3>2. r = a[i] /\ IsLast(a, i) /\ i \in DOMAIN a
        BY <1>1, <1>3, <1>4, <2>1, <3>1
      <3> QED BY <1>6, <3>2
    <2>3. CASE i > A
      <3>1. PICK j \in 1 .. B : i = A + j
        <4>1. i - A \in 1 .. B /\ i = A + (i - A)
          BY <2>3
        <4> QED BY <4>1
      <3>2. r = b[j] /\ IsLast(b, j) /\ j \in DOMAIN b
        BY <1>1, <1>3, <1>5, <2>1, <3>1
      <3> QED BY <1>6, <3>2
    <2> QED BY <2>2, <2>3
  <1>8. ASSUME NEW r \in Upserted(a) PROVE r \in Upserted(c)
    <2>1. PICK i \in 1 .. A : r = a[i] /\ IsLast(a, i)
      BY <1>1, <1>6
    <2>2. r = c[i] /\ IsLast(c, i) /\ i \in DOMAIN c
      BY <1>3, <1>4, <2>1
    <2> QED BY <1>6, <2>2
  <1>9. ASSUME NEW r \in Upserted(b) PROVE r \in Upserted(c)
    <2>1. PICK j \in 1 .. B : r = b[j] /\ IsLast(b, j)
      BY <1>1, <1>6
    <2>2. r = c[A + j] /\ IsLast(c, A + j) /\ A + j \in DOMAIN c
      BY <1>3, <1>5, <2>1
    <2> QED BY <1>6, <2>2
  <1>10. ASSUME Distinct(c) PROVE Distinct(a) /\ Distinct(b)
    <2>1. Distinct(a)
      <3>1. \A i \in 1 .. A : i \in 1 .. A + B
        OBVIOUS
      <3> QED BY <1>1, <1>3, <1>10, <3>1 DEF Distinct
    <2>2. ASSUME NEW i \in 1 .. B, NEW j \in 1 .. B, b[i].key = b[j].key PROVE i = j
      <3>1. PICK k \in 1 .. A + B, l \in 1 .. A + B : k = A + i /\ l = A + j
        OBVIOUS
      <3>2. c[k] = b[i] /\ c[l] = b[j] /\ k \in DOMAIN c /\ l \in DOMAIN c
        BY <1>3, <3>1
      <3>3. \A x, y \in DOMAIN c : c[x].key = c[y].key => x = y
        BY <1>10 DEF Distinct
      <3>4. k = l
        BY <2>2, <3>2, <3>3
      <3> QED BY <3>1, <3>4
    <2> QED BY <1>1, <2>1, <2>2 DEF Distinct
  <1> QED BY <1>2, <1>7, <1>8, <1>9, <1>10

KeysIn(set) == {r.key : r \in set}

\* Statements that send a list without repeats send every key once, and all of its rows.
LEMMA SpansOnce ==
  ASSUME NEW table \in Tables, NEW list \in Seq(TableRows), NEW p, Spans(p, table, list)
  PROVE  /\ ToSend(p) = Members(list)
         /\ Distinct(list) => OncePerKey(p)
  <1>1. ToSend(p) = Members(list)
    <2>1. ASSUME NEW i \in DOMAIN p, NEW j \in DOMAIN p[i].list PROVE Row(p, i, j) \in Members(list)
      BY DEF Spans, Members
    <2>2. ASSUME NEW q \in DOMAIN list PROVE list[q] \in ToSend(p)
      <3>1. PICK i \in DOMAIN p : \E j \in DOMAIN p[i].list : q = Base(i) + j
        BY DEF Spans
      <3>2. PICK j \in DOMAIN p[i].list : q = Base(i) + j
        BY <3>1
      <3>3. list[q] = Row(p, i, j)
        BY <3>2 DEF Spans
      <3> QED BY <3>3 DEF ToSend
    <2> QED BY <2>1, <2>2 DEF ToSend, Members
  <1>2. ASSUME Distinct(list), NEW i \in DOMAIN p, NEW k \in DOMAIN p,
               NEW j \in DOMAIN p[i].list, NEW l \in DOMAIN p[k].list,
               Row(p, i, j).key = Row(p, k, l).key
        PROVE  i = k /\ j = l
    <2>1. /\ Base(i) + j \in DOMAIN list /\ Base(k) + l \in DOMAIN list
          /\ j \in 1 .. Batch /\ l \in 1 .. Batch
          /\ Row(p, i, j) = list[Base(i) + j] /\ Row(p, k, l) = list[Base(k) + l]
      BY DEF Spans
    <2>2. Base(i) + j = Base(k) + l
      BY <1>2, <2>1 DEF Distinct
    <2>3. i \in Nat \ {0} /\ k \in Nat \ {0} /\ Batch \in Nat
      <3>1. p \in Seq(SqlOrders)
        BY DEF Spans
      <3>2. DOMAIN p = 1 .. Len(p) /\ Len(p) \in Nat
        BY <3>1, LenProperties
      <3> QED BY <3>2, DatabaseAssumption
    <2>4. PICK g \in Nat, h \in Nat : g = Base(i) /\ h = Base(k)
      BY <2>3, BaseFacts
    <2>5. ~ (i < k)
      <3> SUFFICES ASSUME i < k PROVE FALSE
        OBVIOUS
      <3>1. g + Batch <= h
        BY <2>3, <2>4, BaseFacts
      <3> QED BY <2>1, <2>2, <2>3, <2>4, <3>1
    <2>6. ~ (k < i)
      <3> SUFFICES ASSUME k < i PROVE FALSE
        OBVIOUS
      <3>1. h + Batch <= g
        BY <2>3, <2>4, BaseFacts
      <3> QED BY <2>1, <2>2, <2>3, <2>4, <3>1
    <2>7. i = k
      BY <2>3, <2>5, <2>6
    <2> QED BY <2>1, <2>2, <2>4, <2>7
  <1> QED BY <1>1, <1>2 DEF OncePerKey

LEMMA ToSendIs ==
  ASSUME NEW p, NEW r
  PROVE  r \in ToSend(p) <=> \E i \in DOMAIN p : \E j \in DOMAIN p[i].list : r = p[i].list[j]
  BY DEF ToSend, Row

\* Statements one after the other.
IsChain(c, p, q) ==
  /\ Len(c) = Len(p) + Len(q)
  /\ \A i \in DOMAIN p : c[i] = p[i]
  /\ \A i \in DOMAIN q : c[Len(p) + i] = q[i]
  /\ \A i \in DOMAIN c : i \in DOMAIN p \/ \E k \in DOMAIN q : i = Len(p) + k

LEMMA OrdersJoin ==
  ASSUME NEW p \in Seq(SqlOrders), NEW q \in Seq(SqlOrders)
  PROVE  /\ Chained(p, q) \in Seq(SqlOrders) /\ Len(Chained(p, q)) = Len(p) + Len(q)
         /\ \A i \in DOMAIN p : Chained(p, q)[i] = p[i]
         /\ \A i \in DOMAIN q : Chained(p, q)[Len(p) + i] = q[i]
         /\ \A i \in DOMAIN Chained(p, q) : i \in DOMAIN p \/ \E k \in DOMAIN q : i = Len(p) + k
  <1>1. PICK P \in Nat, Q \in Nat : /\ P = Len(p) /\ DOMAIN p = 1 .. P
                                    /\ Q = Len(q) /\ DOMAIN q = 1 .. Q
    BY LenProperties
  <1>2. PICK c \in Seq(SqlOrders) : c = Chained(p, q) /\ c = p \o q
    BY ConcatProperties DEF Chained
  <1>3. Len(c) = P + Q /\ DOMAIN c = 1 .. P + Q
    <2>1. Len(c) = P + Q
      BY <1>1, <1>2, ConcatProperties
    <2> QED BY <2>1, LenProperties
  <1>4. \A i \in 1 .. Len(p) + Len(q) : c[i] = IF i <= Len(p) THEN p[i] ELSE q[i - Len(p)]
    BY <1>2, ConcatProperties
  <1>5. \A i \in 1 .. P : c[i] = p[i]
    BY <1>1, <1>4
  <1>6. ASSUME NEW j \in 1 .. Q PROVE c[P + j] = q[j]
    <2>1. P + j \in 1 .. P + Q /\ ~ (P + j <= P) /\ P + j - P = j
      OBVIOUS
    <2> QED BY <1>1, <1>4, <2>1
  <1>7. ASSUME NEW i \in 1 .. P + Q PROVE i \in 1 .. P \/ \E k \in 1 .. Q : i = P + k
    <2>1. CASE i <= P
      BY <2>1
    <2>2. CASE i > P
      <3>1. i - P \in 1 .. Q /\ i = P + (i - P)
        BY <2>2
      <3> QED BY <3>1
    <2> QED BY <2>1, <2>2
  <1> QED BY <1>1, <1>2, <1>3, <1>5, <1>6, <1>7

LEMMA ChainIs ==
  ASSUME NEW p \in Seq(SqlOrders), NEW q \in Seq(SqlOrders)
  PROVE  IsChain(Chained(p, q), p, q)
  BY OrdersJoin DEF IsChain

LEMMA SendsJoin ==
  ASSUME NEW p \in Seq(SqlOrders), NEW q \in Seq(SqlOrders)
  PROVE  /\ ToSend(Chained(p, q)) = ToSend(p) \cup ToSend(q)
         /\ OncePerKey(p) /\ OncePerKey(q) /\ KeysIn(ToSend(p)) \cap KeysIn(ToSend(q)) = {}
              => OncePerKey(Chained(p, q))
         /\ \A T : ParentsFirst(p, T) /\ ParentsFirst(q, T \cup KeysIn(ToSend(p)))
              => ParentsFirst(Chained(p, q), T)
  <1>1. PICK P \in Nat, Q \in Nat : /\ P = Len(p) /\ DOMAIN p = 1 .. P
                                    /\ Q = Len(q) /\ DOMAIN q = 1 .. Q
    BY LenProperties
  <1>2. PICK c : c = Chained(p, q)
    OBVIOUS
  <1>3. /\ DOMAIN c = 1 .. P + Q /\ \A i \in 1 .. P : c[i] = p[i]
        /\ \A i \in 1 .. Q : c[P + i] = q[i]
        /\ \A i \in 1 .. P + Q : i \in 1 .. P \/ \E k \in 1 .. Q : i = P + k
    <2>1. c \in Seq(SqlOrders) /\ Len(c) = P + Q
      BY <1>1, <1>2, OrdersJoin
    <2>2. DOMAIN c = 1 .. P + Q
      BY <2>1, LenProperties
    <2>3. /\ \A i \in DOMAIN p : c[i] = p[i]
          /\ \A i \in DOMAIN q : c[Len(p) + i] = q[i]
          /\ \A i \in DOMAIN c : i \in DOMAIN p \/ \E k \in DOMAIN q : i = Len(p) + k
      BY <1>2, OrdersJoin
    <2> QED BY <1>1, <2>2, <2>3
  <1>4. \A i \in 1 .. P : i \in 1 .. P + Q
    OBVIOUS
  <1>5. \A i \in 1 .. Q : P + i \in 1 .. P + Q
    OBVIOUS
  <1>6. ToSend(c) = ToSend(p) \cup ToSend(q)
    <2>1. ASSUME NEW i \in 1 .. P + Q, NEW j \in DOMAIN c[i].list
          PROVE  c[i].list[j] \in ToSend(p) \cup ToSend(q)
      <3>1. CASE i \in 1 .. P
        <4>1. c[i] = p[i] /\ i \in DOMAIN p
          BY <1>1, <1>3, <3>1
        <4>2. c[i].list[j] \in ToSend(p)
          BY <4>1, ToSendIs
        <4> QED BY <4>2
      <3>2. CASE i \notin 1 .. P
        <4>1. PICK k \in DOMAIN q : c[i] = q[k]
          <5>1. PICK k \in 1 .. Q : i = P + k
            BY <1>3, <3>2
          <5> QED BY <1>1, <1>3, <5>1
        <4>2. c[i].list[j] \in ToSend(q)
          BY <4>1, ToSendIs
        <4> QED BY <4>2
      <3> QED BY <3>1, <3>2
    <2>2. ASSUME NEW i \in 1 .. P, NEW j \in DOMAIN p[i].list PROVE p[i].list[j] \in ToSend(c)
      <3>1. c[i] = p[i] /\ i \in DOMAIN c
        BY <1>3, <1>4
      <3> QED BY <3>1, ToSendIs
    <2>3. ASSUME NEW i \in 1 .. Q, NEW j \in DOMAIN q[i].list PROVE q[i].list[j] \in ToSend(c)
      <3>1. c[P + i] = q[i] /\ P + i \in DOMAIN c
        BY <1>3, <1>5
      <3> QED BY <3>1, ToSendIs
    <2>4. ASSUME NEW r \in ToSend(c) PROVE r \in ToSend(p) \cup ToSend(q)
      <3>1. PICK i \in DOMAIN c : \E j \in DOMAIN c[i].list : r = c[i].list[j]
        BY ToSendIs
      <3> QED BY <1>3, <2>1, <3>1
    <2>5. ASSUME NEW r \in ToSend(p) PROVE r \in ToSend(c)
      <3>1. PICK i \in DOMAIN p : \E j \in DOMAIN p[i].list : r = p[i].list[j]
        BY ToSendIs
      <3> QED BY <1>1, <2>2, <3>1
    <2>6. ASSUME NEW r \in ToSend(q) PROVE r \in ToSend(c)
      <3>1. PICK i \in DOMAIN q : \E j \in DOMAIN q[i].list : r = q[i].list[j]
        BY ToSendIs
      <3> QED BY <1>1, <2>3, <3>1
    <2> QED BY <2>4, <2>5, <2>6
  <1>7. ASSUME OncePerKey(p), OncePerKey(q), KeysIn(ToSend(p)) \cap KeysIn(ToSend(q)) = {}
        PROVE  OncePerKey(c)
    <2>1. ASSUME NEW i \in 1 .. P, NEW k \in 1 .. Q,
                 NEW j \in DOMAIN p[i].list, NEW l \in DOMAIN q[k].list
          PROVE  p[i].list[j].key # q[k].list[l].key
      <3>1. p[i].list[j] \in ToSend(p) /\ q[k].list[l] \in ToSend(q)
        BY <1>1, ToSendIs
      <3>2. p[i].list[j].key \in KeysIn(ToSend(p)) /\ q[k].list[l].key \in KeysIn(ToSend(q))
        BY <3>1 DEF KeysIn
      <3> QED BY <1>7, <3>2
    <2> SUFFICES ASSUME NEW i \in 1 .. P + Q, NEW k \in 1 .. P + Q,
                        NEW j \in DOMAIN c[i].list, NEW l \in DOMAIN c[k].list,
                        c[i].list[j].key = c[k].list[l].key
                 PROVE  i = k /\ j = l
      BY <1>3 DEF OncePerKey, Row
    <2>2. \A h \in 1 .. P + Q : (h \in 1 .. P /\ c[h] = p[h]) \/ \E g \in 1 .. Q : h = P + g /\ c[h] = q[g]
      BY <1>3
    <2>3. CASE i \in 1 .. P /\ k \in 1 .. P
      <3>1. c[i] = p[i] /\ c[k] = p[k]
        BY <1>3, <2>3
      <3> QED BY <1>1, <1>7, <2>3, <3>1 DEF OncePerKey, Row
    <2>4. ASSUME i \in 1 .. P, NEW g \in 1 .. Q, k = P + g, c[k] = q[g] PROVE FALSE
      <3>1. c[i] = p[i] /\ j \in DOMAIN p[i].list /\ l \in DOMAIN q[g].list
        BY <1>3, <2>4
      <3> QED BY <2>1, <2>4, <3>1
    <2>5. ASSUME k \in 1 .. P, NEW g \in 1 .. Q, i = P + g, c[i] = q[g] PROVE FALSE
      <3>1. c[k] = p[k] /\ l \in DOMAIN p[k].list /\ j \in DOMAIN q[g].list
        BY <1>3, <2>5
      <3>2. p[k].list[l].key # q[g].list[j].key
        BY <2>1, <2>5, <3>1
      <3> QED BY <2>5, <3>1, <3>2
    <2>6. ASSUME NEW h \in 1 .. Q, NEW g \in 1 .. Q, i = P + h, k = P + g, c[i] = q[h], c[k] = q[g]
          PROVE  i = k /\ j = l
      <3>1. h = g /\ j = l
        BY <1>1, <1>7, <2>6 DEF OncePerKey, Row
      <3> QED BY <2>6, <3>1
    <2>7. CASE i \in 1 .. P
      BY <2>2, <2>3, <2>4, <2>7
    <2>8. CASE i \notin 1 .. P
      <3>1. PICK h \in 1 .. Q : i = P + h /\ c[i] = q[h]
        BY <2>2, <2>8
      <3>2. k \notin 1 .. P
        BY <2>5, <3>1
      <3>3. PICK g \in 1 .. Q : k = P + g /\ c[k] = q[g]
        BY <2>2, <3>2
      <3> QED BY <2>6, <3>1, <3>3
    <2> QED BY <2>7, <2>8
  <1>8. ASSUME NEW T, ParentsFirst(p, T), ParentsFirst(q, T \cup KeysIn(ToSend(p)))
        PROVE  ParentsFirst(c, T)
    <2>1. ASSUME NEW i \in 1 .. P, NEW j \in DOMAIN p[i].list, NEW r, r = p[i].list[j].ref
          PROVE  \/ r \in T \cup {None}
                 \/ \E k \in 1 .. i : \E l \in DOMAIN c[k].list : c[k].list[l].key = r
      <3>1. \/ r \in T \cup {None}
            \/ \E k \in 1 .. i : \E l \in DOMAIN p[k].list : p[k].list[l].key = r
        BY <1>1, <1>8, <2>1 DEF ParentsFirst, Row
      <3>2. \A k \in 1 .. i : c[k] = p[k]
        <4>1. \A k \in 1 .. i : k \in 1 .. P
          OBVIOUS
        <4> QED BY <1>3, <4>1
      <3> QED BY <3>1, <3>2
    <2>2. ASSUME NEW i \in 1 .. Q, NEW j \in DOMAIN q[i].list, NEW r, r = q[i].list[j].ref
          PROVE  \/ r \in T \cup {None}
                 \/ \E k \in 1 .. P + i : \E l \in DOMAIN c[k].list : c[k].list[l].key = r
      <3>1. \/ r \in T \cup KeysIn(ToSend(p)) \cup {None}
            \/ \E k \in 1 .. i : \E l \in DOMAIN q[k].list : q[k].list[l].key = r
        BY <1>1, <1>8, <2>2 DEF ParentsFirst, Row
      <3>2. CASE r \in KeysIn(ToSend(p))
        <4>1. PICK k \in 1 .. P : \E l \in DOMAIN p[k].list : p[k].list[l].key = r
          BY <1>1, <3>2, ToSendIs DEF KeysIn
        <4>2. c[k] = p[k] /\ k \in 1 .. P + i
          BY <1>3
        <4> QED BY <4>1, <4>2
      <3>3. ASSUME NEW k \in 1 .. i, NEW l \in DOMAIN q[k].list, q[k].list[l].key = r
            PROVE  \E m \in 1 .. P + i : \E n \in DOMAIN c[m].list : c[m].list[n].key = r
        <4>1. P + k \in 1 .. P + i /\ k \in 1 .. Q
          OBVIOUS
        <4>2. c[P + k] = q[k]
          BY <1>3, <4>1
        <4> QED BY <3>3, <4>1, <4>2
      <3> QED BY <3>1, <3>2, <3>3
    <2> SUFFICES ASSUME NEW i \in 1 .. P + Q, NEW j \in DOMAIN c[i].list
                 PROVE  \/ c[i].list[j].ref \in T \cup {None}
                        \/ \E k \in 1 .. i : \E l \in DOMAIN c[k].list : c[k].list[l].key = c[i].list[j].ref
      BY <1>3 DEF ParentsFirst, Row
    <2>3. CASE i \in 1 .. P
      <3>1. c[i] = p[i]
        BY <1>3, <2>3
      <3> QED BY <2>1, <2>3, <3>1
    <2>4. CASE i \notin 1 .. P
      <3>1. PICK h \in 1 .. Q : i = P + h
        BY <1>3, <2>4
      <3>2. c[i] = q[h]
        BY <1>3, <3>1
      <3> QED BY <2>2, <3>1, <3>2
    <2> QED BY <2>3, <2>4
  <1> QED BY <1>2, <1>6, <1>7, <1>8

\* The nodes of a tree without repeats are sent after their parents.
LEMMA NodesInOrder ==
  ASSUME NEW tree \in Seq(StoredEntries), InPreorder(tree), NEW x \in Exchanges, NEW p,
         Spans(p, "node", Flatten(tree, x))
  PROVE  ParentsFirst(p, {})
  <1>1. PICK f \in Seq(TableRows) : f = Flatten(tree, x) /\ DOMAIN f = DOMAIN tree
    BY FlattenIs
  <1>2. PICK L \in Nat : L = Len(f) /\ DOMAIN f = 1 .. L
    BY LenProperties
  <1>3. \A i \in 1 .. L : /\ f[i].key = NodeKey(tree[i].id)
                          /\ f[i].ref = None \/ \E j \in 1 .. i - 1 : f[i].ref = NodeKey(tree[j].id)
    BY <1>1, <1>2, FlattenIs
  <1>4. DOMAIN p = 1 .. Len(p) /\ Len(p) \in Nat
    <2>1. p \in Seq(SqlOrders)
      BY DEF Spans
    <2> QED BY <2>1, LenProperties
  <1> SUFFICES ASSUME NEW i \in DOMAIN p, NEW j \in DOMAIN p[i].list, Row(p, i, j).ref # None
               PROVE  \E k \in 1 .. i : \E l \in DOMAIN p[k].list : Row(p, k, l).key = Row(p, i, j).ref
    BY DEF ParentsFirst
  <1>5. Base(i) + j \in 1 .. L /\ j \in 1 .. Batch /\ Row(p, i, j) = f[Base(i) + j]
    BY <1>1, <1>2 DEF Spans
  <1>6. PICK z \in 1 .. L : z = Base(i) + j
    BY <1>5
  <1>7. PICK m \in 1 .. z - 1 : f[z].ref = NodeKey(tree[m].id)
    BY <1>3, <1>5, <1>6
  <1>8. i \in Nat \ {0} /\ Batch \in Nat
    BY <1>4, DatabaseAssumption
  <1>9. PICK h \in Nat : h = Base(i) /\ z = h + j /\ m \in 1 .. L /\ m < h + j
    <2>1. Base(i) \in Nat
      BY <1>8, BaseFacts
    <2>2. m \in 1 .. L /\ m < z
      OBVIOUS
    <2> QED BY <1>6, <2>1, <2>2
  <1>10. PICK k \in DOMAIN p : \E l \in DOMAIN p[k].list : l \in 1 .. Batch /\ m = Base(k) + l
    BY <1>1, <1>2, <1>9 DEF Spans
  <1>11. PICK l \in DOMAIN p[k].list : l \in 1 .. Batch /\ m = Base(k) + l
    BY <1>10
  <1>12. k \in Nat \ {0}
    BY <1>4
  <1>13. ~ (i < k)
    <2> SUFFICES ASSUME i < k PROVE FALSE
      OBVIOUS
    <2>1. PICK g \in Nat : g = Base(k)
      BY <1>12, BaseFacts
    <2>2. h + Batch <= g
      BY <1>8, <1>9, <1>12, <2>1, BaseFacts
    <2>3. m = g + l /\ l \in 1 .. Batch
      BY <1>11, <2>1
    <2>4. j \in 1 .. Batch /\ m < h + j /\ Batch \in Nat /\ h \in Nat
      BY <1>5, <1>8, <1>9
    <2> QED BY ONLY <2>1, <2>2, <2>3, <2>4
  <1>14. k \in 1 .. i
    BY <1>8, <1>12, <1>13
  <1>15. Row(p, k, l) = f[m]
    BY <1>1, <1>11 DEF Spans
  <1>16. Row(p, k, l).key = Row(p, i, j).ref
    BY <1>3, <1>5, <1>6, <1>7, <1>9, <1>15
  <1> QED BY <1>14, <1>16

LEMMA KeysOfTree ==
  ASSUME NEW tree \in Seq(StoredEntries), InPreorder(tree), NEW x \in Exchanges
  PROVE  /\ \A r \in Upserted(Flatten(tree, x)) : r \in OwnRows(x) /\ r.key \in {"node"} \X Ids
         /\ \A r \in Upserted(InstrumentsOf(tree, x)) :
              r \in OwnRows(x) /\ r.key \in {"instrument"} \X Markets
  <1>1. ASSUME NEW r \in Upserted(Flatten(tree, x))
        PROVE  r \in OwnRows(x) /\ r.key \in {"node"} \X Ids
    <2>1. PICK i \in DOMAIN tree : r = Flatten(tree, x)[i]
      BY FlattenIs DEF Upserted
    <2>2. r \in OwnRows(x) /\ r.key = NodeKey(tree[i].id)
      BY <2>1, FlattenIs
    <2>3. tree[i].id \in Ids
      <3>1. i \in 1 .. Len(tree)
        BY LenProperties
      <3>2. tree[i] \in StoredEntries
        BY <3>1, ElementOfSeq
      <3> QED BY <3>2 DEF StoredEntries
    <2> QED BY <2>2, <2>3 DEF NodeKey
  <1>2. ASSUME NEW r \in Upserted(InstrumentsOf(tree, x))
        PROVE  r \in OwnRows(x) /\ r.key \in {"instrument"} \X Markets
    <2>1. PICK i \in DOMAIN InstrumentsOf(tree, x) : r = InstrumentsOf(tree, x)[i]
      BY DEF Upserted
    <2> QED BY <2>1, InstrumentsAre
  <1> QED BY <1>1, <1>2

TreeRows(tree, x) == Flatten(tree, x) \o InstrumentsOf(tree, x)

Clearing == <<Delete("instrument"), Delete("node")>>

\* What a service sends: the deletes, then every row of its tree once, nodes before what
\* refers to them unless an id is listed twice.
LEMMA ScriptIs ==
  ASSUME NEW tree \in Seq(StoredEntries), InPreorder(tree), NEW x \in Exchanges,
         NEW p, p = Script(tree, x)
  PROVE  /\ p \in Seq(SqlOrders) /\ Staged(p) /\ Uncleared(p) = Tables
         /\ OncePerKey(p)
         /\ ToSend(p) = Upserted(TreeRows(tree, x)) /\ ToSend(p) \subseteq OwnRows(x)
         /\ Cardinality(KeysOf(TreeRows(tree, x))) # Len(TreeRows(tree, x)) \/ ParentsFirst(p, {})
  <1>1. PICK F \in Seq(TableRows), I \in Seq(TableRows) :
             F = Flatten(tree, x) /\ I = InstrumentsOf(tree, x)
    BY FlattenIs, InstrumentsAre
  <1>2. PICK N \in Seq(TableRows), M \in Seq(TableRows) : N = Dedupe(F) /\ M = Dedupe(I)
    BY DedupeIs
  <1>3. /\ Distinct(N) /\ Members(N) = Upserted(F) /\ (Distinct(F) => N = F)
        /\ Distinct(M) /\ Members(M) = Upserted(I) /\ (Distinct(I) => M = I)
    BY <1>2, DedupeIs
  <1>4. PICK a \in Seq(SqlOrders), b \in Seq(SqlOrders) :
             /\ a = Chunks("node", N) /\ b = Chunks("instrument", M)
             /\ Spans(a, "node", N) /\ Spans(b, "instrument", M)
    <2>1. "node" \in Tables /\ "instrument" \in Tables
      BY DEF Tables
    <2>2. Spans(Chunks("node", N), "node", N) /\ Spans(Chunks("instrument", M), "instrument", M)
      BY <2>1, ChunksSend
    <2>3. Chunks("node", N) \in Seq(SqlOrders) /\ Chunks("instrument", M) \in Seq(SqlOrders)
      BY <2>2 DEF Spans
    <2> QED BY <2>2, <2>3
  <1>5. /\ ToSend(a) = Upserted(F) /\ OncePerKey(a)
        /\ ToSend(b) = Upserted(I) /\ OncePerKey(b)
    <2>1. "node" \in Tables /\ "instrument" \in Tables
      BY DEF Tables
    <2> QED BY <1>3, <1>4, <2>1, SpansOnce
  <1>6. PICK d \in Seq(SqlOrders) : d = Clearing
    <2>1. Delete("instrument") \in SqlOrders /\ Delete("node") \in SqlOrders
      BY EmptySeq DEF Delete, SqlOrders, Tables
    <2>2. <<Delete("instrument"), Delete("node")>> \in Seq(SqlOrders)
      BY <2>1
    <2> QED BY <2>2 DEF Clearing
  <1>7. /\ Len(d) = 2 /\ DOMAIN d = 1 .. 2
        /\ d[1] = Delete("instrument") /\ d[2] = Delete("node")
    BY <1>6 DEF Clearing
  <1>8. \A i \in DOMAIN d : DOMAIN d[i].list = {} /\ d[i].list = <<>> /\ d[i].op = "delete"
    BY <1>7 DEF Delete
  <1>9. ToSend(d) = {} /\ OncePerKey(d) /\ ParentsFirst(d, {})
    <2>1. ToSend(d) = {}
      BY <1>8, ToSendIs
    <2> QED BY <1>8, <2>1 DEF OncePerKey, ParentsFirst
  <1>10. PICK c \in Seq(SqlOrders) : c = Chained(d, a)
    BY OrdersJoin
  <1>11. p = Chained(c, b) /\ p \in Seq(SqlOrders)
    <2>1. p = Chained(c, b)
      BY <1>1, <1>2, <1>4, <1>6, <1>10 DEF Script, Clearing, Chained
    <2> QED BY <2>1, OrdersJoin
  <1>21. /\ Len(c) = Len(d) + Len(a)
         /\ \A i \in DOMAIN d : c[i] = d[i]
         /\ \A i \in DOMAIN a : c[Len(d) + i] = a[i]
         /\ \A i \in DOMAIN c : i \in DOMAIN d \/ \E k \in DOMAIN a : i = Len(d) + k
    <2>1. IsChain(c, d, a)
      BY <1>10, ChainIs
    <2> QED BY <2>1 DEF IsChain
  <1>22. /\ Len(p) = Len(c) + Len(b)
         /\ \A i \in DOMAIN c : p[i] = c[i]
         /\ \A i \in DOMAIN b : p[Len(c) + i] = b[i]
         /\ \A i \in DOMAIN p : i \in DOMAIN c \/ \E k \in DOMAIN b : i = Len(c) + k
    <2>1. IsChain(p, c, b)
      BY <1>11, ChainIs
    <2> QED BY <2>1 DEF IsChain
  <1>23. ToSend(c) = ToSend(d) \cup ToSend(a) /\ ToSend(p) = ToSend(c) \cup ToSend(b)
    BY <1>10, <1>11, SendsJoin
  <1>12. /\ \A r \in Upserted(F) : r \in OwnRows(x) /\ r.key \in {"node"} \X Ids
         /\ \A r \in Upserted(I) : r \in OwnRows(x) /\ r.key \in {"instrument"} \X Markets
    BY <1>1, KeysOfTree
  <1>13. KeysIn(Upserted(F)) \cap KeysIn(Upserted(I)) = {}
    <2>1. KeysIn(Upserted(F)) \subseteq {"node"} \X Ids
      BY <1>12 DEF KeysIn
    <2>2. KeysIn(Upserted(I)) \subseteq {"instrument"} \X Markets
      BY <1>12 DEF KeysIn
    <2> QED BY <2>1, <2>2
  <1>14. ToSend(c) = Upserted(F) /\ OncePerKey(c)
    <2>1. ToSend(c) = Upserted(F)
      BY <1>5, <1>9, <1>23
    <2>2. KeysIn(ToSend(d)) \cap KeysIn(ToSend(a)) = {}
      BY <1>9 DEF KeysIn
    <2> QED BY <1>5, <1>9, <1>10, <2>1, <2>2, SendsJoin
  <1>15. ToSend(p) = Upserted(F) \cup Upserted(I) /\ OncePerKey(p)
    BY <1>5, <1>11, <1>13, <1>14, SendsJoin
  <1>16. \A i \in DOMAIN F : \A j \in DOMAIN I : F[i].key # I[j].key
    <2> SUFFICES ASSUME NEW i \in DOMAIN F, NEW j \in DOMAIN I PROVE F[i].key # I[j].key
      OBVIOUS
    <2>1. F[i].key = NodeKey(tree[i].id)
      BY <1>1, FlattenIs
    <2>2. I[j].key \in {"instrument"} \X Markets
      BY <1>1, InstrumentsAre
    <2> QED BY <2>1, <2>2 DEF NodeKey
  <1>17. PICK all \in Seq(TableRows) : all = TreeRows(tree, x) /\ all = F \o I
    BY <1>1, ConcatProperties DEF TreeRows
  <1>18. ToSend(p) = Upserted(all)
    BY <1>15, <1>16, <1>17, UpsertedApart
  <1>19. Staged(p) /\ Uncleared(p) = Tables
    <2>1. PICK n \in Nat, A \in Nat : n = Len(p) /\ DOMAIN p = 1 .. n /\ A = Len(a) /\ DOMAIN a = 1 .. A
      BY <1>11, LenProperties
    <2>2. Len(c) = 2 + A /\ DOMAIN c = 1 .. 2 + A
      <3>1. Len(c) = 2 + A
        BY <1>7, <1>21, <2>1
      <3> QED BY <3>1, LenProperties
    <2>3. c[1] = Delete("instrument") /\ c[2] = Delete("node")
      <3>1. 1 \in DOMAIN d /\ 2 \in DOMAIN d
        BY <1>7
      <3> QED BY <1>7, <1>21, <3>1
    <2>4. \A i \in DOMAIN c : i \in DOMAIN d \/ c[i].op = "insert"
      <3> SUFFICES ASSUME NEW i \in DOMAIN c, i \notin DOMAIN d PROVE c[i].op = "insert"
        OBVIOUS
      <3>1. PICK k \in DOMAIN a : i = Len(d) + k
        BY <1>21
      <3>2. c[i] = a[k]
        BY <1>21, <3>1
      <3> QED BY <1>4, <3>2 DEF Spans
    <2>5. p[1] = Delete("instrument") /\ p[2] = Delete("node") /\ n >= 2
      <3>1. 1 \in DOMAIN c /\ 2 \in DOMAIN c
        BY <2>1, <2>2
      <3>2. p[1] = c[1] /\ p[2] = c[2]
        BY <1>22, <3>1
      <3>3. n = Len(c) + Len(b) /\ Len(b) \in Nat
        BY <1>22, <2>1, LenProperties
      <3> QED BY <2>1, <2>2, <2>3, <3>2, <3>3
    <2>6. ASSUME NEW i \in 1 .. n, i # 1, i # 2 PROVE p[i].op = "insert"
      <3>1. CASE i \in DOMAIN c
        <4>1. p[i] = c[i]
          BY <1>22, <3>1
        <4>2. i \notin DOMAIN d
          BY <1>7, <2>6
        <4> QED BY <2>4, <3>1, <4>1, <4>2
      <3>2. CASE i \notin DOMAIN c
        <4>1. PICK k \in DOMAIN b : i = Len(c) + k
          BY <1>22, <2>1, <3>2
        <4>2. p[i] = b[k]
          BY <1>22, <4>1
        <4> QED BY <1>4, <4>2 DEF Spans
      <3> QED BY <3>1, <3>2
    <2>7. p # <<>>
      <3>1. Len(<<>>) = 0
        OBVIOUS
      <3> QED BY <2>1, <2>5, <3>1
    <2>8. /\ p[1].op = "delete" /\ p[1].table = "instrument" /\ p[1].list = <<>>
          /\ p[2].op = "delete" /\ p[2].table = "node" /\ p[2].list = <<>>
      BY <2>5 DEF Delete
    <2>9. Uncleared(p) = Tables
      BY <2>7, <2>8 DEF Uncleared
    <2>10. \A i \in 2 .. n : p[i].op = "delete" => i = 2
      <3> SUFFICES ASSUME NEW i \in 2 .. n, i # 2 PROVE p[i].op = "insert"
        OBVIOUS
      <3>1. i \in 1 .. n /\ i # 1
        OBVIOUS
      <3> QED BY <2>6, <3>1
    <2>11. \A i \in 1 .. n : p[i].op = "delete" => p[i].list = <<>>
      BY <2>6, <2>8
    <2> QED BY <2>1, <2>5, <2>8, <2>9, <2>10, <2>11 DEF Staged
  <1>20. ASSUME Cardinality(KeysOf(all)) = Len(all) PROVE ParentsFirst(p, {})
    <2>1. Distinct(F) /\ Distinct(I)
      <3>1. Distinct(all)
        BY <1>20, CountsKeys
      <3> QED BY <1>16, <1>17, <3>1, UpsertedApart
    <2>2. N = F /\ M = I
      BY <1>3, <2>1
    <2>3. ParentsFirst(a, {})
      BY <1>1, <1>4, <2>2, NodesInOrder
    <2>4. ParentsFirst(c, {})
      <3>1. KeysIn(ToSend(d)) = {}
        BY <1>9 DEF KeysIn
      <3>2. {} \cup KeysIn(ToSend(d)) = {}
        BY <3>1
      <3> QED BY <1>9, <1>10, <2>3, <3>2, SendsJoin
    <2>5. ParentsFirst(b, {} \cup KeysIn(ToSend(c)))
      <3> SUFFICES ASSUME NEW i \in DOMAIN b, NEW j \in DOMAIN b[i].list
                   PROVE  Row(b, i, j).ref \in KeysIn(ToSend(c))
        BY DEF ParentsFirst
      <3>1. PICK q \in DOMAIN I : Row(b, i, j) = I[q]
        BY <1>4, <2>2 DEF Spans
      <3>2. PICK k \in DOMAIN tree : I[q].ref = NodeKey(tree[k].id)
        BY <1>1, InstrumentsAre
      <3>3. k \in DOMAIN F /\ F[k].key = NodeKey(tree[k].id)
        BY <1>1, FlattenIs
      <3>4. F[k] \in ToSend(c)
        BY <1>3, <1>14, <2>2, <3>3 DEF Members
      <3> QED BY <3>1, <3>2, <3>3, <3>4 DEF KeysIn
    <2>6. \A T : ParentsFirst(c, T) /\ ParentsFirst(b, T \cup KeysIn(ToSend(c))) => ParentsFirst(p, T)
      BY <1>11, SendsJoin
    <2> QED BY <2>4, <2>5, <2>6
  <1> QED BY <1>11, <1>12, <1>15, <1>17, <1>18, <1>19, <1>20

\* What is left of a program when its first statement has run.
IsRest(q, p) ==
  /\ p # <<>> /\ q \in Seq(SqlOrders) /\ 1 \in DOMAIN p /\ p[1] \in SqlOrders
  /\ \A i \in DOMAIN q : i + 1 \in DOMAIN p /\ q[i] = p[i + 1]
  /\ \A i \in DOMAIN p : i = 1 \/ (i - 1 \in DOMAIN q /\ q[i - 1] = p[i])

LEMMA TailIs ==
  ASSUME NEW p \in Seq(SqlOrders), p # <<>>
  PROVE  IsRest(Tail(p), p) /\ Head(p) = p[1]
  <1>1. PICK P \in Nat : P = Len(p) /\ DOMAIN p = 1 .. P
    BY LenProperties
  <1>2. PICK q \in Seq(SqlOrders) : /\ q = Tail(p) /\ Head(p) = p[1] /\ Len(q) = P - 1
                                    /\ \A i \in 1 .. P - 1 : q[i] = p[i + 1]
    <2>1. /\ Tail(p) \in Seq(SqlOrders) /\ Head(p) = p[1] /\ Len(Tail(p)) = Len(p) - 1
          /\ \A i \in 1 .. Len(Tail(p)) : Tail(p)[i] = p[i + 1]
      BY HeadTailProperties
    <2> QED BY <1>1, <2>1
  <1>3. DOMAIN q = 1 .. P - 1
    BY <1>2, LenProperties
  <1>4. P # 0
    <2>1. P = 0 => p = <<>>
      BY <1>1, EmptySeq
    <2> QED BY <2>1
  <1>5. 1 \in DOMAIN p /\ p[1] \in SqlOrders
    <2>1. 1 \in 1 .. P
      BY <1>4
    <2> QED BY <1>1, <2>1, ElementOfSeq
  <1>6. \A i \in 1 .. P - 1 : i + 1 \in 1 .. P
    OBVIOUS
  <1>7. ASSUME NEW i \in 1 .. P, i # 1 PROVE i - 1 \in 1 .. P - 1 /\ q[i - 1] = p[i]
    <2>1. i - 1 \in 1 .. P - 1 /\ i - 1 + 1 = i
      BY <1>7
    <2> QED BY <1>2, <2>1
  <1>8. IsRest(q, p)
    BY <1>1, <1>2, <1>3, <1>5, <1>6, <1>7 DEF IsRest
  <1> QED BY <1>2, <1>8

LEMMA TailStaged ==
  ASSUME NEW p \in Seq(SqlOrders), NEW q, IsRest(q, p), Staged(p)
  PROVE  /\ Staged(q) /\ Uncleared(q) = Uncleared(p) \ {p[1].table}
         /\ p[1].op = "delete" => Uncleared(p) # {} /\ p[1].list = <<>>
         /\ p[1].op = "insert" => Uncleared(p) = {}
         /\ p[1].table = "node" => "instrument" \notin Uncleared(p)
  <1>1. PICK P \in Nat : P = Len(p) /\ DOMAIN p = 1 .. P
    BY LenProperties
  <1>2. q \in Seq(SqlOrders) /\ 1 \in 1 .. P /\ p[1] \in SqlOrders
    BY <1>1 DEF IsRest
  <1>3. PICK Q \in Nat : Q = Len(q) /\ DOMAIN q = 1 .. Q
    BY <1>2, LenProperties
  <1>4. \A i \in 1 .. Q : i + 1 \in 1 .. P /\ q[i] = p[i + 1]
    BY <1>1, <1>3 DEF IsRest
  <1>5. PICK h \in SqlOrders : h = p[1]
    BY <1>2
  <1>6. h.op \in {"delete", "insert"} /\ h.table \in Tables
    BY DEF SqlOrders
  <1>7. /\ h.op = "delete" /\ h.table = "instrument" =>
             P >= 2 /\ p[2].op = "delete" /\ p[2].table = "node"
        /\ \A i \in 2 .. P :
             p[i].op = "delete" => i = 2 /\ p[2].table = "node" /\ h.op = "delete" /\ h.table = "instrument"
        /\ \A i \in 1 .. P : p[i].op = "delete" => p[i].list = <<>>
    <2>1. p # <<>>
      BY DEF IsRest
    <2> QED BY <1>1, <1>5, <2>1 DEF Staged
  <1>8. ASSUME NEW i \in 1 .. Q, q[i].op = "delete"
        PROVE  /\ i = 1 /\ q[1].table = "node" /\ h.op = "delete" /\ h.table = "instrument"
               /\ q[i].list = <<>>
    <2>1. i + 1 \in 2 .. P /\ q[i] = p[i + 1]
      <3>1. i + 1 \in 1 .. P /\ q[i] = p[i + 1]
        BY <1>4
      <3> QED BY <3>1
    <2>2. i + 1 = 2 /\ p[2].table = "node" /\ h.op = "delete" /\ h.table = "instrument"
      BY <1>7, <1>8, <2>1
    <2>3. i = 1
      BY <2>2
    <2>4. p[i + 1].list = <<>>
      BY <1>4, <1>7, <1>8, <2>1
    <2> QED BY <2>1, <2>2, <2>3, <2>4
  <1>9. q # <<>> <=> 1 \in 1 .. Q
    <2>1. Q = 0 <=> q = <<>>
      BY <1>2, <1>3, EmptySeq
    <2>2. Q = 0 <=> 1 \notin 1 .. Q
      OBVIOUS
    <2> QED BY <2>1, <2>2
  <1>10. Staged(q)
    <2>1. ~ (q # <<>> /\ q[1].op = "delete" /\ q[1].table = "instrument")
      BY <1>8, <1>9
    <2>2. ASSUME NEW i \in 2 .. Q PROVE q[i].op # "delete"
      <3>1. i \in 1 .. Q /\ i # 1
        OBVIOUS
      <3> QED BY <1>8, <3>1
    <2> QED BY <1>3, <1>8, <2>1, <2>2 DEF Staged
  <1>11. Uncleared(p) = IF h.op = "insert" THEN {} ELSE IF h.table = "instrument" THEN Tables ELSE {"node"}
    <2>1. p # <<>>
      BY DEF IsRest
    <2> QED BY <1>5, <2>1 DEF Uncleared
  <1>12. Uncleared(q) = IF q = <<>> \/ q[1].op = "insert" THEN {}
                        ELSE IF q[1].table = "instrument" THEN Tables ELSE {"node"}
    BY DEF Uncleared
  <1>13. 1 \in 1 .. Q => q[1].op \in {"delete", "insert"}
    <2>1. 1 \in 1 .. Q => q[1] \in SqlOrders
      BY <1>2, <1>3, ElementOfSeq
    <2> QED BY <2>1 DEF SqlOrders
  <1>14. Uncleared(q) = Uncleared(p) \ {h.table}
    <2>1. CASE h.op = "delete" /\ h.table = "instrument"
      <3>1. 1 \in 1 .. Q /\ q[1].op = "delete" /\ q[1].table = "node"
        <4>1. 1 \in 1 .. Q
          <5>1. 2 \in 1 .. P
            BY <1>7, <2>1
          <5>2. 2 = 1 \/ 2 - 1 \in 1 .. Q
            BY <1>1, <1>3, <5>1 DEF IsRest
          <5> QED BY <5>2
        <4>2. q[1] = p[2]
          <5>1. q[1] = p[1 + 1]
            BY <1>4, <4>1
          <5>2. 1 + 1 = 2
            OBVIOUS
          <5> QED BY <5>1, <5>2
        <4> QED BY <1>7, <2>1, <4>1, <4>2
      <3>2. Uncleared(q) = {"node"}
        BY <1>9, <1>12, <3>1
      <3> QED BY <1>11, <2>1, <3>2 DEF Tables
    <2>2. CASE ~ (h.op = "delete" /\ h.table = "instrument")
      <3>1. Uncleared(q) = {}
        BY <1>8, <1>9, <1>12, <1>13, <2>2
      <3> QED BY <1>6, <1>11, <2>2, <3>1 DEF Tables
    <2> QED BY <2>1, <2>2
  <1> QED BY <1>2, <1>5, <1>6, <1>7, <1>10, <1>11, <1>14 DEF Tables

LEMMA TailSends ==
  ASSUME NEW p \in Seq(SqlOrders), NEW q, IsRest(q, p), OncePerKey(p),
         NEW list, list = p[1].list
  PROVE  /\ ToSend(p) = Members(list) \cup ToSend(q)
         /\ OncePerKey(q) /\ Distinct(list)
         /\ \A r \in ToSend(q) : r.key \notin KeysIn(Members(list))
  <1>1. 1 \in DOMAIN p /\ q \in Seq(SqlOrders)
    BY DEF IsRest
  <1>2. PICK Q \in Nat : DOMAIN q = 1 .. Q
    BY <1>1, LenProperties
  <1>3. \A i \in 1 .. Q : i + 1 \in DOMAIN p /\ q[i] = p[i + 1]
    BY <1>2 DEF IsRest
  <1>4. \A i \in DOMAIN p : i = 1 \/ (i - 1 \in 1 .. Q /\ q[i - 1] = p[i])
    BY <1>2 DEF IsRest
  <1>5. \A r : r \in Members(list) => r \in ToSend(p)
    <2>1. ASSUME NEW j \in DOMAIN list PROVE list[j] \in ToSend(p)
      BY <1>1, ToSendIs
    <2> QED BY <2>1 DEF Members
  <1>6. \A r : r \in ToSend(q) => r \in ToSend(p)
    <2>1. ASSUME NEW i \in 1 .. Q, NEW j \in DOMAIN q[i].list PROVE q[i].list[j] \in ToSend(p)
      <3>1. i + 1 \in DOMAIN p /\ q[i] = p[i + 1]
        BY <1>3
      <3> QED BY <3>1, ToSendIs
    <2>2. ASSUME NEW r \in ToSend(q) PROVE r \in ToSend(p)
      <3>1. PICK i \in DOMAIN q : \E j \in DOMAIN q[i].list : r = q[i].list[j]
        BY ToSendIs
      <3> QED BY <1>2, <2>1, <3>1
    <2> QED BY <2>2
  <1>7. ASSUME NEW r \in ToSend(p) PROVE r \in Members(list) \/ r \in ToSend(q)
    <2>1. PICK i \in DOMAIN p : \E j \in DOMAIN p[i].list : r = p[i].list[j]
      BY ToSendIs
    <2>2. CASE i = 1
      BY <2>1, <2>2 DEF Members
    <2>3. CASE i # 1
      <3>1. i - 1 \in DOMAIN q /\ q[i - 1] = p[i]
        BY <1>2, <1>4, <2>3
      <3>2. \E j \in DOMAIN q[i - 1].list : r = q[i - 1].list[j]
        BY <2>1, <3>1
      <3> QED BY <3>1, <3>2, ToSendIs
    <2> QED BY <2>2, <2>3
  <1>8. ToSend(p) = Members(list) \cup ToSend(q)
    BY <1>5, <1>6, <1>7
  <1>9. OncePerKey(q)
    <2> SUFFICES ASSUME NEW i \in 1 .. Q, NEW k \in 1 .. Q,
                        NEW j \in DOMAIN q[i].list, NEW l \in DOMAIN q[k].list,
                        q[i].list[j].key = q[k].list[l].key
                 PROVE  i = k /\ j = l
      BY <1>2 DEF OncePerKey, Row
    <2>1. PICK m \in DOMAIN p, n \in DOMAIN p : /\ m = i + 1 /\ n = k + 1
                                                /\ q[i] = p[m] /\ q[k] = p[n]
      BY <1>3
    <2>2. m = n /\ j = l
      BY <2>1 DEF OncePerKey, Row
    <2>3. i = k
      BY <2>1, <2>2
    <2> QED BY <2>2, <2>3
  <1>10. Distinct(list)
    <2> SUFFICES ASSUME NEW j \in DOMAIN list, NEW l \in DOMAIN list, list[j].key = list[l].key
                 PROVE  j = l
      BY DEF Distinct
    <2> QED BY <1>1 DEF OncePerKey, Row
  <1>11. ASSUME NEW r \in ToSend(q), r.key \in KeysIn(Members(list)) PROVE FALSE
    <2>1. PICK i \in DOMAIN q : \E j \in DOMAIN q[i].list : r = q[i].list[j]
      BY ToSendIs
    <2>2. PICK j \in DOMAIN q[i].list : r = q[i].list[j]
      BY <2>1
    <2>3. PICK l \in DOMAIN list : r.key = list[l].key
      BY <1>11 DEF KeysIn, Members
    <2>4. PICK m \in DOMAIN p : m = i + 1 /\ q[i] = p[m] /\ i \in 1 .. Q
      BY <1>2, <1>3
    <2>5. m = 1
      BY <1>1, <2>2, <2>3, <2>4 DEF OncePerKey, Row
    <2> QED BY <2>4, <2>5
  <1> QED BY <1>8, <1>9, <1>10, <1>11

LEMMA TailParents ==
  ASSUME NEW p \in Seq(SqlOrders), NEW q, IsRest(q, p), NEW T, ParentsFirst(p, T),
         NEW list, list = p[1].list
  PROVE  /\ ParentsFirst(q, T \cup KeysIn(Members(list)))
         /\ \A j \in DOMAIN list : list[j].ref \in T \cup {None} \cup KeysIn(Members(list))
  <1>1. 1 \in DOMAIN p /\ q \in Seq(SqlOrders)
    BY DEF IsRest
  <1>2. PICK Q \in Nat : DOMAIN q = 1 .. Q
    BY <1>1, LenProperties
  <1>3. \A i \in 1 .. Q : i + 1 \in DOMAIN p /\ q[i] = p[i + 1]
    BY <1>2 DEF IsRest
  <1>4. \A l \in DOMAIN p[1].list : Row(p, 1, l).key \in KeysIn(Members(list))
    BY DEF Row, KeysIn, Members
  <1>5. ASSUME NEW i \in 1 .. Q, NEW j \in DOMAIN q[i].list
        PROVE  \/ Row(q, i, j).ref \in T \cup KeysIn(Members(list)) \cup {None}
               \/ \E k \in 1 .. i : \E l \in DOMAIN q[k].list : Row(q, k, l).key = Row(q, i, j).ref
    <2>1. PICK m \in DOMAIN p : m = i + 1 /\ q[i] = p[m]
      BY <1>3
    <2>2. Row(q, i, j) = Row(p, m, j) /\ j \in DOMAIN p[m].list
      BY <2>1 DEF Row
    <2>3. \/ Row(p, m, j).ref \in T \cup {None}
          \/ \E k \in 1 .. m : \E l \in DOMAIN p[k].list : Row(p, k, l).key = Row(p, m, j).ref
      BY <2>2 DEF ParentsFirst
    <2>4. ASSUME NEW k \in 1 .. m, NEW l \in DOMAIN p[k].list, Row(p, k, l).key = Row(p, m, j).ref
          PROVE  \/ Row(q, i, j).ref \in KeysIn(Members(list))
                 \/ \E n \in 1 .. i : \E g \in DOMAIN q[n].list : Row(q, n, g).key = Row(q, i, j).ref
      <3>1. CASE k = 1
        BY <1>4, <2>2, <2>4, <3>1
      <3>2. CASE k # 1
        <4>1. PICK n \in 1 .. i : k = n + 1 /\ n \in 1 .. Q
          <5>1. k - 1 \in 1 .. i /\ k = (k - 1) + 1 /\ k - 1 \in 1 .. Q
            BY <2>1, <3>2
          <5> QED BY <5>1
        <4>2. q[n] = p[k]
          BY <1>3, <4>1
        <4>3. l \in DOMAIN q[n].list /\ Row(q, n, l).key = Row(q, i, j).ref
          BY <2>2, <2>4, <4>2 DEF Row
        <4> QED BY <4>3
      <3> QED BY <3>1, <3>2
    <2> QED BY <2>2, <2>3, <2>4
  <1>6. ASSUME NEW j \in DOMAIN list
        PROVE  list[j].ref \in T \cup {None} \cup KeysIn(Members(list))
    <2>1. \/ Row(p, 1, j).ref \in T \cup {None}
          \/ \E k \in 1 .. 1 : \E l \in DOMAIN p[k].list : Row(p, k, l).key = Row(p, 1, j).ref
      BY <1>1 DEF ParentsFirst
    <2>2. \A k \in 1 .. 1 : k = 1
      OBVIOUS
    <2>3. \/ Row(p, 1, j).ref \in T \cup {None}
          \/ \E l \in DOMAIN p[1].list : Row(p, 1, l).key = Row(p, 1, j).ref
      BY <2>1, <2>2
    <2>4. Row(p, 1, j) = list[j]
      BY DEF Row
    <2> QED BY <1>4, <2>3, <2>4
  <1>7. ParentsFirst(q, T \cup KeysIn(Members(list)))
    BY <1>2, <1>5 DEF ParentsFirst
  <1> QED BY <1>6, <1>7

\* A service that a step of another does not touch.
LEMMA Stays ==
  ASSUME NEW t \in open, Refreshes(t), exchange' = exchange, rows' = rows,
         script'[t] = script[t], snapshot'[t] = snapshot[t], written'[t] = written[t],
         given'[t] = given[t], repeated'[t] = repeated[t], met[t] \subseteq met'[t],
         \A u \in open' \ {t} : u \in open \/ exchange[u] \in met'[t]
  PROVE  Refreshes(t)'
  <1>1. Wrote(t)' = Wrote(t)
    BY DEF Wrote
  <1>2. Seen(t)'
    BY DEF Refreshes, Seen
  <1>3. Writes(t)'
    BY DEF Refreshes, Writes
  <1>4. Sending(t)'
    BY <1>1 DEF Refreshes, Sending
  <1>5. Noted(t)'
    <2>1. \A u \in open \ {t} : exchange[u] \in met[t]
      BY DEF Refreshes, Noted
    <2>2. \A u \in open' \ {t} : exchange'[u] \in met'[t]
      BY <2>1
    <2>3. \A k \in RowKeys : rows[k] # None => rows[k].exchange \in met[t] \cup {exchange[t]}
      BY DEF Refreshes, Noted
    <2>4. \A k \in RowKeys : rows'[k] # None => rows'[k].exchange \in met'[t] \cup {exchange'[t]}
      BY <2>3
    <2> QED BY <2>2, <2>4 DEF Noted
  <1>6. Clears(t)'
    BY DEF Refreshes, Clears
  <1>7. Refers(t)'
    BY <1>1 DEF Refreshes, Refers
  <1> QED BY <1>2, <1>3, <1>4, <1>5, <1>6, <1>7 DEF Refreshes

\* What a transaction has written once a statement has run.
IsOver(n, w, v) ==
  /\ DOMAIN n = DOMAIN w \cup DOMAIN v
  /\ \A k \in DOMAIN w : n[k] = w[k]
  /\ \A k \in DOMAIN v \ DOMAIN w : n[k] = v[k]

LEMMA OverIs ==
  ASSUME NEW w, NEW v
  PROVE  IsOver(Over(w, v), w, v)
  BY DEF Over, IsOver

\* The call of a service has ended.
CallOver(s, changed) ==
  /\ open' = open \ {s}
  /\ script' \in [Services -> Seq(SqlOrders)]
  /\ DOMAIN snapshot' = Services /\ DOMAIN written' = Services /\ DOMAIN given' = Services
  /\ repeated' \in [Services -> BOOLEAN] /\ met' \in [Services -> SUBSET Exchanges]
  /\ script'[s] = <<>> /\ snapshot'[s] = None /\ written'[s] = Nothing /\ given'[s] = {}
  /\ \A t \in Services \ {s} :
       /\ script'[t] = script[t] /\ written'[t] = written[t] /\ given'[t] = given[t]
       /\ repeated'[t] = repeated[t] /\ met'[t] = met[t]
       /\ snapshot'[t] = IF snapshot[t] = None THEN None ELSE snapshot[t] \ changed

LEMMA CloseIs ==
  ASSUME DbTypes, NEW s \in Services, NEW changed, Close(s, changed)
  PROVE  CallOver(s, changed)
  <1>1. /\ script \in [Services -> Seq(SqlOrders)] /\ DOMAIN written = Services
        /\ DOMAIN given = Services
        /\ repeated \in [Services -> BOOLEAN] /\ met \in [Services -> SUBSET Exchanges]
    BY DEF DbTypes
  <1>2. open' = open \ {s}
    BY DEF Close
  <1>3. script' \in [Services -> Seq(SqlOrders)] /\ script'[s] = <<>>
        /\ \A t \in Services \ {s} : script'[t] = script[t]
    <2>1. <<>> \in Seq(SqlOrders)
      BY EmptySeq
    <2>2. script' = [script EXCEPT ![s] = <<>>]
      BY DEF Close
    <2> QED BY <1>1, <2>1, <2>2
  <1>4. DOMAIN written' = Services /\ written'[s] = Nothing
        /\ \A t \in Services \ {s} : written'[t] = written[t]
    BY <1>1 DEF Close
  <1>5. DOMAIN given' = Services /\ given'[s] = {}
        /\ \A t \in Services \ {s} : given'[t] = given[t]
    BY <1>1 DEF Close
  <1>6. repeated' \in [Services -> BOOLEAN]
        /\ \A t \in Services \ {s} : repeated'[t] = repeated[t]
    BY <1>1 DEF Close
  <1>7. met' \in [Services -> SUBSET Exchanges]
        /\ \A t \in Services \ {s} : met'[t] = met[t]
    BY <1>1 DEF Close
  <1>8. DOMAIN snapshot' = Services /\ snapshot'[s] = None
        /\ \A t \in Services \ {s} :
             snapshot'[t] = IF snapshot[t] = None THEN None ELSE snapshot[t] \ changed
    BY DEF Close
  <1> QED BY <1>2, <1>3, <1>4, <1>5, <1>6, <1>7, <1>8 DEF CallOver

\* A call that ends without a commit leaves the others as they are.
LEMMA DroppedKeeps ==
  ASSUME DatabaseInv, NEW s \in open, Close(s, {}), UNCHANGED <<exchange, rows, refreshed>>
  PROVE  DatabaseInv'
  <1>1. DbTypes /\ s \in Services /\ open \in SUBSET Services
    BY DEF DatabaseInv, DbTypes
  <1>2. CallOver(s, {})
    BY <1>1, CloseIs
  <1>3. DbTypes'
    <2>1. /\ exchange' \in Naming /\ open' \in SUBSET Services
          /\ rows' \in [RowKeys -> TableRows \cup {None}]
          /\ \A k \in RowKeys : rows'[k] # None => rows'[k].key = k /\ Sound(rows'[k])
          /\ DOMAIN refreshed' = Exchanges
          /\ \A x \in Exchanges : refreshed'[x] = None \/ refreshed'[x] \in SUBSET TableRows
      BY <1>1, <1>2 DEF DbTypes, CallOver
    <2>2. ASSUME NEW t \in Services \ open'
          PROVE  script'[t] = <<>> /\ written'[t] = Nothing /\ snapshot'[t] = None /\ given'[t] = {}
      <3>1. CASE t = s
        BY <1>2, <3>1 DEF CallOver
      <3>2. CASE t # s
        <4>1. t \in Services \ open
          BY <1>2, <3>2 DEF CallOver
        <4> QED BY <1>1, <1>2, <3>2, <4>1 DEF CallOver, DbTypes
      <3> QED BY <3>1, <3>2
    <2> QED BY <1>2, <2>1, <2>2 DEF DbTypes, CallOver
  <1>4. ASSUME NEW t \in open' PROVE Refreshes(t)'
    <2>1. t \in open /\ t # s /\ t \in Services
      BY <1>1, <1>2 DEF CallOver
    <2>2. Refreshes(t)
      BY <2>1 DEF DatabaseInv
    <2>3. snapshot'[t] = snapshot[t]
      <3>1. snapshot'[t] = IF snapshot[t] = None THEN None ELSE snapshot[t] \ {}
        BY <1>2, <2>1 DEF CallOver
      <3>2. snapshot[t] = None \/ snapshot[t] \in SUBSET RowKeys
        BY <2>2 DEF Refreshes, Seen
      <3> QED BY <3>1, <3>2
    <2>4. /\ script'[t] = script[t] /\ written'[t] = written[t] /\ given'[t] = given[t]
          /\ repeated'[t] = repeated[t] /\ met'[t] = met[t] /\ open' \subseteq open
      BY <1>2, <2>1 DEF CallOver
    <2> QED BY <2>1, <2>2, <2>3, <2>4, Stays
  <1>5. Apart'
    <2>1. ASSUME NEW t \in open', NEW u \in open', u # t
          PROVE  DOMAIN written'[t] \cap DOMAIN written'[u] = {}
      <3>1. /\ t \in open /\ u \in open /\ t \in Services \ {s} /\ u \in Services \ {s}
        BY <1>1, <1>2 DEF CallOver
      <3>2. written'[t] = written[t] /\ written'[u] = written[u]
        BY <1>2, <3>1 DEF CallOver
      <3>3. DOMAIN written[t] \cap DOMAIN written[u] = {}
        BY <2>1, <3>1 DEF DatabaseInv, Apart
      <3> QED BY <3>2, <3>3
    <2> QED BY <2>1 DEF Apart
  <1>6. WholeRefresh'
    BY DEF DatabaseInv, WholeRefresh
  <1> QED BY <1>3, <1>4, <1>5, <1>6 DEF DatabaseInv

\* What a step of one service keeps for all of them, when no row is committed.
LEMMA StepKeeps ==
  ASSUME DatabaseInv, NEW s \in Services, exchange' = exchange, rows' = rows,
         open' \in {open, open \cup {s}}, s \in open', DbTypes', Refreshes(s)', WholeRefresh',
         \A t \in open \ {s} :
           /\ script'[t] = script[t] /\ snapshot'[t] = snapshot[t] /\ written'[t] = written[t]
           /\ given'[t] = given[t] /\ repeated'[t] = repeated[t] /\ met[t] \subseteq met'[t]
           /\ s \in open \/ exchange[s] \in met'[t]
           /\ DOMAIN written'[s] \cap DOMAIN written[t] = {}
  PROVE  DatabaseInv'
  <1>1. ASSUME NEW t \in open', t # s PROVE Refreshes(t)'
    <2>1. t \in open /\ Refreshes(t)
      BY <1>1 DEF DatabaseInv
    <2>2. \A u \in open' \ {t} : u \in open \/ exchange[u] \in met'[t]
      BY <1>1, <2>1
    <2> QED BY <1>1, <2>1, <2>2, Stays
  <1>2. \A t \in open' : Refreshes(t)'
    BY <1>1
  <1>3. ASSUME NEW t \in open', NEW u \in open', u # t
        PROVE  DOMAIN written'[t] \cap DOMAIN written'[u] = {}
    <2>1. CASE t = s
      BY <1>3, <2>1
    <2>2. CASE u = s
      BY <1>3, <2>2
    <2>3. CASE t # s /\ u # s
      <3>1. t \in open /\ u \in open
        BY <2>3
      <3>2. DOMAIN written[t] \cap DOMAIN written[u] = {}
        BY <1>3, <3>1 DEF DatabaseInv, Apart
      <3> QED BY <2>3, <3>1, <3>2
    <2> QED BY <2>1, <2>2, <2>3
  <1>4. Apart'
    BY <1>3 DEF Apart
  <1>5. (\A t \in open : Refreshes(t))'
    BY <1>2
  <1> QED BY <1>4, <1>5 DEF DatabaseInv

LEMMA RefreshBegins ==
  ASSUME DatabaseInv, NEW s \in Services, NEW tree \in Trees, Store(s, tree)
  PROVE  DatabaseInv'
  <1>1. /\ DbTypes /\ s \notin open /\ open' = open \cup {s} /\ open \in SUBSET Services
        /\ script[s] = <<>> /\ written[s] = Nothing /\ snapshot[s] = None
        /\ UNCHANGED <<exchange, rows, snapshot, written, refreshed>>
    BY DEF DatabaseInv, DbTypes, Store
  <1>2. PICK x \in Exchanges : x = exchange[s]
    <2>1. exchange \in [Services -> Exchanges]
      BY <1>1, DatabaseAssumption DEF DbTypes
    <2> QED BY <2>1
  <1>3. tree \in Seq(StoredEntries) /\ InPreorder(tree)
    BY DatabaseAssumption DEF StoredEntries
  <1>4. PICK p : p = Script(tree, x)
    OBVIOUS
  <1>5. PICK all : all = TreeRows(tree, x)
    OBVIOUS
  <1>6. /\ p \in Seq(SqlOrders) /\ Staged(p) /\ Uncleared(p) = Tables
        /\ OncePerKey(p) /\ ToSend(p) = Upserted(all) /\ ToSend(p) \subseteq OwnRows(x)
        /\ Cardinality(KeysOf(all)) # Len(all) \/ ParentsFirst(p, {})
    BY <1>3, <1>4, <1>5, ScriptIs
  <1>7. /\ script \in [Services -> Seq(SqlOrders)] /\ DOMAIN given = Services
        /\ repeated \in [Services -> BOOLEAN] /\ met \in [Services -> SUBSET Exchanges]
    BY <1>1 DEF DbTypes
  <1>8. /\ script' \in [Services -> Seq(SqlOrders)] /\ script'[s] = p
        /\ \A t \in Services \ {s} : script'[t] = script[t]
    <2>1. script' = [script EXCEPT ![s] = p]
      BY <1>2, <1>4 DEF Store
    <2> QED BY <1>6, <1>7, <2>1
  <1>9. /\ DOMAIN given' = Services /\ given'[s] = Upserted(all)
        /\ \A t \in Services \ {s} : given'[t] = given[t]
    <2>1. given' = [given EXCEPT ![s] = Upserted(all)]
      BY <1>2, <1>5 DEF Store, TreeRows
    <2> QED BY <1>7, <2>1
  <1>10. /\ repeated' \in [Services -> BOOLEAN]
         /\ repeated'[s] = (Cardinality(KeysOf(all)) # Len(all))
         /\ \A t \in Services \ {s} : repeated'[t] = repeated[t]
    <2>1. repeated' = [repeated EXCEPT ![s] = Cardinality(KeysOf(all)) # Len(all)]
      BY <1>2, <1>5 DEF Store, TreeRows
    <2> QED BY <1>7, <2>1
  <1>11. PICK there : there = {exchange[u] : u \in open}
                      \cup ({rows[k].exchange : k \in {j \in RowKeys : rows[j] # None}} \ {exchange[s]})
    OBVIOUS
  <1>12. met' = [t \in Services |->
                  IF t = s THEN there
                  ELSE IF t \in open THEN met[t] \cup {exchange[s]} ELSE met[t]]
    BY <1>11 DEF Store
  <1>13. there \in SUBSET Exchanges
    <2>1. \A u \in open : exchange[u] \in Exchanges
      BY <1>1, DatabaseAssumption DEF DbTypes
    <2>2. \A k \in RowKeys : rows[k] # None => rows[k].exchange \in Exchanges
      <3>1. \A k \in RowKeys : rows[k] # None => rows[k] \in TableRows
        BY <1>1 DEF DbTypes
      <3> QED BY <3>1 DEF TableRows
    <2> QED BY <1>11, <2>1, <2>2
  <1>14. /\ met' \in [Services -> SUBSET Exchanges] /\ met'[s] = there
         /\ \A t \in Services \ {s} : met[t] \subseteq met'[t] /\ (t \in open => x \in met'[t])
    <2>1. \A t \in Services : met[t] \in SUBSET Exchanges
      BY <1>7
    <2> QED BY <1>2, <1>12, <1>13, <2>1
  <1>15. DbTypes'
    <2>1. ASSUME NEW t \in Services \ open'
          PROVE  script'[t] = <<>> /\ written'[t] = Nothing /\ snapshot'[t] = None /\ given'[t] = {}
      <3>1. t \in Services \ open /\ t \in Services \ {s}
        BY <1>1
      <3> QED BY <1>1, <1>8, <1>9, <3>1 DEF DbTypes
    <2>2. open' \in SUBSET Services
      BY <1>1
    <2> QED BY <1>1, <1>8, <1>9, <1>10, <1>14, <2>1, <2>2 DEF DbTypes
  <1>16. Wrote(s)' = {}
    <2>1. DOMAIN written'[s] = {}
      BY <1>1 DEF Nothing
    <2> QED BY <2>1 DEF Wrote
  <1>17. Seen(s)' /\ Writes(s)'
    <2>1. DOMAIN written'[s] = {}
      BY <1>1 DEF Nothing
    <2>2. snapshot'[s] = None
      BY <1>1
    <2> QED BY <2>1, <2>2 DEF Seen, Writes
  <1>18. Sending(s)'
    BY <1>1, <1>2, <1>6, <1>8, <1>9, <1>16 DEF Sending
  <1>19. Noted(s)'
    <2>1. \A u \in open' \ {s} : exchange'[u] \in met'[s]
      BY <1>1, <1>11, <1>14
    <2>2. \A k \in RowKeys : rows[k] # None => rows[k].exchange \in there \cup {exchange[s]}
      BY <1>11
    <2>3. \A k \in RowKeys : rows'[k] # None => rows'[k].exchange \in met'[s] \cup {exchange'[s]}
      BY <1>1, <1>14, <2>2
    <2> QED BY <2>1, <2>3 DEF Noted
  <1>20. Clears(s)'
    <2>1. \A k \in RowKeys : k[1] \in Uncleared(script'[s])
      BY <1>6, <1>8 DEF RowKeys, Tables
    <2>2. snapshot'[s] = None
      BY <1>1
    <2> QED BY <2>1, <2>2 DEF Clears
  <1>21. Refers(s)'
    BY <1>6, <1>8, <1>10, <1>16 DEF Refers
  <1>22. Refreshes(s)'
    BY <1>17, <1>18, <1>19, <1>20, <1>21 DEF Refreshes
  <1>23. WholeRefresh'
    BY <1>1 DEF DatabaseInv, WholeRefresh
  <1>24. \A t \in open \ {s} :
           /\ script'[t] = script[t] /\ snapshot'[t] = snapshot[t] /\ written'[t] = written[t]
           /\ given'[t] = given[t] /\ repeated'[t] = repeated[t] /\ met[t] \subseteq met'[t]
           /\ s \in open \/ exchange[s] \in met'[t]
           /\ DOMAIN written'[s] \cap DOMAIN written[t] = {}
    <2>1. DOMAIN written'[s] = {}
      BY <1>1 DEF Nothing
    <2> QED BY <1>1, <1>2, <1>8, <1>9, <1>10, <1>14, <2>1
  <1> QED BY <1>1, <1>15, <1>22, <1>23, <1>24, StepKeeps

LEMMA SeeKeeps ==
  ASSUME DatabaseInv, NEW s \in Services, See(s)
  PROVE  DatabaseInv'
  <1>1. /\ DbTypes /\ s \in open /\ script[s] # <<>> /\ snapshot[s] = None
        /\ Refreshes(s) /\ UNCHANGED <<exchange, rows, open, script, written, notes>>
    BY DEF DatabaseInv, See, Runs
  <1>2. UNCHANGED <<given, repeated, met, refreshed>>
    BY <1>1 DEF notes
  <1>3. PICK p \in Seq(SqlOrders) : p = script[s] /\ p # <<>>
    BY <1>1 DEF DbTypes
  <1>4. IsRest(Tail(p), p) /\ Head(p) = p[1]
    BY <1>3, TailIs
  <1>5. p[1].op = "delete"
    BY <1>3, <1>4 DEF See, Runs
  <1>6. PICK seen : seen = {k \in RowKeys : /\ k[1] = p[1].table /\ Visible(s, k) # None
                                            /\ Visible(s, k).exchange = exchange[s]}
    OBVIOUS
  <1>7. DOMAIN snapshot' = Services /\ snapshot'[s] = seen
        /\ \A t \in Services \ {s} : snapshot'[t] = snapshot[t]
    <2>1. snapshot' = [snapshot EXCEPT ![s] = seen]
      BY <1>3, <1>4, <1>6 DEF See
    <2> QED BY <1>1, <2>1 DEF DbTypes
  <1>8. Wrote(s) = {}
    <2>1. Staged(p) /\ (Uncleared(p) # {} => Wrote(s) = {})
      BY <1>1, <1>3 DEF Refreshes, Sending
    <2> QED BY <1>4, <1>5, <2>1, TailStaged
  <1>9. ASSUME NEW k \in RowKeys
        PROVE  k \in seen <=> /\ k[1] = p[1].table /\ k \notin DOMAIN written[s]
                              /\ rows[k] # None /\ rows[k].exchange = exchange[s]
    <2>1. k \in DOMAIN written[s] => Visible(s, k) = None
      BY <1>8 DEF Visible, Wrote
    <2>2. k \notin DOMAIN written[s] => Visible(s, k) = rows[k]
      BY DEF Visible
    <2> QED BY <1>6, <2>1, <2>2
  <1>10. seen \in SUBSET RowKeys
    BY <1>6
  <1>11. DbTypes'
    <2>1. ASSUME NEW t \in Services \ open'
          PROVE  script'[t] = <<>> /\ written'[t] = Nothing /\ snapshot'[t] = None /\ given'[t] = {}
      <3>1. t \in Services \ open /\ t \in Services \ {s}
        BY <1>1
      <3> QED BY <1>1, <1>2, <1>7, <3>1 DEF DbTypes
    <2> QED BY <1>1, <1>2, <1>7, <2>1 DEF DbTypes
  <1>12. Wrote(s)' = Wrote(s)
    BY <1>1 DEF Wrote
  <1>13. Seen(s)'
    <2>1. \A k \in seen : /\ k[1] = p[1].table /\ k \notin DOMAIN written[s]
                          /\ rows[k] # None /\ rows[k].exchange = exchange[s]
      BY <1>9, <1>10
    <2> QED BY <1>1, <1>3, <1>5, <1>7, <1>10, <2>1 DEF Seen
  <1>14. Writes(s)'
    BY <1>1 DEF Refreshes, Writes
  <1>15. Sending(s)'
    BY <1>1, <1>2, <1>12 DEF Refreshes, Sending
  <1>16. Noted(s)'
    BY <1>1, <1>2 DEF Refreshes, Noted
  <1>17. Clears(s)'
    <2>1. ASSUME exchange[s] \notin met[s], NEW k \in RowKeys,
                 rows[k] # None, rows[k].exchange = exchange[s], k \notin DOMAIN written[s]
          PROVE  k[1] \in Uncleared(p) /\ (k[1] = p[1].table => k \in seen)
      BY <1>1, <1>3, <1>9, <2>1 DEF Refreshes, Clears
    <2> QED BY <1>1, <1>2, <1>3, <1>7, <2>1 DEF Clears
  <1>18. Refers(s)'
    BY <1>1, <1>2, <1>12 DEF Refreshes, Refers
  <1>19. Refreshes(s)'
    BY <1>13, <1>14, <1>15, <1>16, <1>17, <1>18 DEF Refreshes
  <1>20. WholeRefresh'
    BY <1>1, <1>2 DEF DatabaseInv, WholeRefresh
  <1>21. \A t \in open \ {s} : t \in Services \ {s} /\ DOMAIN written[s] \cap DOMAIN written[t] = {}
    BY <1>1 DEF DatabaseInv, DbTypes, Apart
  <1> QED BY <1>1, <1>2, <1>7, <1>11, <1>19, <1>20, <1>21, StepKeeps

\* A statement has run.
StatementRan(s, w) ==
  /\ script' \in [Services -> Seq(SqlOrders)] /\ script'[s] = Tail(script[s])
  /\ DOMAIN snapshot' = Services /\ snapshot'[s] = None
  /\ DOMAIN written' = Services /\ written'[s] = Over(w, written[s])
  /\ \A t \in Services \ {s} :
       script'[t] = script[t] /\ snapshot'[t] = snapshot[t] /\ written'[t] = written[t]
  /\ UNCHANGED <<open, given, repeated, met>>

LEMMA RunIs ==
  ASSUME DbTypes, NEW s \in Services, script[s] # <<>>, NEW w, Run(s, w, TRUE)
  PROVE  StatementRan(s, w)
  <1>1. /\ script \in [Services -> Seq(SqlOrders)] /\ DOMAIN snapshot = Services
        /\ DOMAIN written = Services
    BY DEF DbTypes
  <1>2. /\ written' = [written EXCEPT ![s] = Over(w, @)]
        /\ script' = [script EXCEPT ![s] = Tail(@)]
        /\ snapshot' = [snapshot EXCEPT ![s] = None]
        /\ UNCHANGED <<open, given, repeated, met>>
    BY DEF Run
  <1>3. script[s] \in Seq(SqlOrders)
    BY <1>1
  <1>4. Tail(script[s]) \in Seq(SqlOrders)
    BY <1>3, TailIs DEF IsRest
  <1>5. /\ script' \in [Services -> Seq(SqlOrders)] /\ script'[s] = Tail(script[s])
        /\ \A t \in Services \ {s} : script'[t] = script[t]
    BY <1>1, <1>2, <1>4
  <1> QED BY <1>1, <1>2, <1>5 DEF StatementRan

\* A statement that has run keeps the types and touches no other service.
LEMMA AcceptedKeeps ==
  ASSUME DatabaseInv, NEW s \in open, NEW w, StatementRan(s, w), UNCHANGED <<exchange, rows, refreshed>>,
         ~Held(s, DOMAIN w), Refreshes(s)'
  PROVE  DatabaseInv'
  <1>1. DbTypes /\ s \in Services /\ open' = open
    BY DEF DatabaseInv, DbTypes, StatementRan
  <1>2. DbTypes'
    <2>1. ASSUME NEW t \in Services \ open'
          PROVE  script'[t] = <<>> /\ written'[t] = Nothing /\ snapshot'[t] = None /\ given'[t] = {}
      <3>1. t \in Services \ open /\ t \in Services \ {s}
        BY <1>1
      <3> QED BY <1>1, <3>1 DEF DbTypes, StatementRan
    <2> QED BY <1>1, <2>1 DEF DbTypes, StatementRan
  <1>3. ASSUME NEW t \in open \ {s}
        PROVE  /\ script'[t] = script[t] /\ snapshot'[t] = snapshot[t] /\ written'[t] = written[t]
               /\ given'[t] = given[t] /\ repeated'[t] = repeated[t] /\ met'[t] = met[t]
               /\ DOMAIN written'[s] \cap DOMAIN written[t] = {}
    <2>1. t \in Services \ {s}
      BY <1>1 DEF DbTypes
    <2>2. DOMAIN written'[s] = DOMAIN w \cup DOMAIN written[s]
      <3>1. PICK v : v = written[s]
        OBVIOUS
      <3>2. DOMAIN (Over(w, v)) = DOMAIN w \cup DOMAIN v
        BY OverIs DEF IsOver
      <3> QED BY <3>1, <3>2 DEF StatementRan
    <2>3. DOMAIN written[t] \cap DOMAIN w = {}
      BY DEF Held
    <2>4. DOMAIN written[t] \cap DOMAIN written[s] = {}
      BY DEF DatabaseInv, Apart
    <2> QED BY <2>1, <2>2, <2>3, <2>4 DEF StatementRan
  <1>4. WholeRefresh'
    BY DEF DatabaseInv, WholeRefresh
  <1> QED BY <1>1, <1>2, <1>3, <1>4, StepKeeps

LEMMA ClearKeeps ==
  ASSUME DatabaseInv, NEW s \in Services, Clear(s)
  PROVE  DatabaseInv'
  <1>1. /\ DbTypes /\ s \in open /\ script[s] # <<>> /\ snapshot[s] # None
        /\ Refreshes(s) /\ UNCHANGED <<exchange, rows, refreshed>>
        /\ ~Held(s, snapshot[s])
    BY DEF DatabaseInv, Clear, ClearReady, Runs
  <1>2. CASE ~ClearAccepted(s)
    <2>1. Close(s, {})
      BY <1>2 DEF Clear, Run
    <2> QED BY <1>1, <2>1, DroppedKeeps
  <1>3. CASE ClearAccepted(s)
    <2>1. PICK p \in Seq(SqlOrders) : p = script[s] /\ p # <<>>
      BY <1>1 DEF DbTypes
    <2>2. PICK q \in Seq(SqlOrders) : q = Tail(p) /\ IsRest(q, p)
      BY <2>1, TailIs DEF IsRest
    <2>3. PICK seen \in SUBSET RowKeys :
            /\ seen = snapshot[s] /\ p[1].op = "delete"
            /\ \A k \in seen : /\ k[1] = p[1].table /\ k \notin DOMAIN written[s]
                               /\ rows[k] # None /\ rows[k].exchange = exchange[s]
      BY <1>1, <2>1 DEF Refreshes, Seen
    <2>4. PICK w : w = [k \in seen |-> None]
      OBVIOUS
    <2>5. StatementRan(s, w)
      <3>1. Run(s, w, TRUE)
        BY <1>3, <2>3, <2>4 DEF Clear, Run
      <3> QED BY <1>1, <3>1, RunIs
    <2>6. /\ DOMAIN written'[s] = seen \cup DOMAIN written[s]
          /\ \A k \in seen : written'[s][k] = None
          /\ \A k \in DOMAIN written[s] \ seen : written'[s][k] = written[s][k]
      <3>1. PICK v : v = written[s]
        OBVIOUS
      <3>2. PICK n : n = Over(w, v)
        OBVIOUS
      <3>3. /\ DOMAIN n = DOMAIN w \cup DOMAIN v /\ \A k \in DOMAIN w : n[k] = w[k]
            /\ \A k \in DOMAIN v \ DOMAIN w : n[k] = v[k]
        <4>1. IsOver(n, w, v)
          BY <3>2, OverIs
        <4> QED BY <4>1 DEF IsOver
      <3>5. DOMAIN w = seen /\ \A k \in seen : w[k] = None
        BY <2>4
      <3>4. written'[s] = n
        BY <2>5, <3>1, <3>2 DEF StatementRan
      <3> QED BY <3>1, <3>3, <3>4, <3>5
    <2>7. /\ Staged(p) /\ OncePerKey(p) /\ ToSend(p) \subseteq OwnRows(exchange[s])
          /\ (Uncleared(p) # {} => Wrote(s) = {})
          /\ given[s] = {written[s][k] : k \in Wrote(s)} \cup ToSend(p)
      BY <1>1, <2>1 DEF Refreshes, Sending
    <2>8. /\ Staged(q) /\ Uncleared(q) = Uncleared(p) \ {p[1].table}
          /\ Uncleared(p) # {} /\ p[1].list = <<>>
      BY <2>2, <2>3, <2>7, TailStaged
    <2>9. Members(p[1].list) = {} /\ KeysIn(Members(p[1].list)) = {}
      <3>1. Members(p[1].list) = {}
        BY <2>8, EmptySeq DEF Members
      <3> QED BY <3>1 DEF KeysIn
    <2>10. OncePerKey(q) /\ ToSend(q) = ToSend(p)
      <3>1. PICK list : list = p[1].list
        OBVIOUS
      <3>2. ToSend(p) = Members(list) \cup ToSend(q) /\ OncePerKey(q)
        BY <2>2, <2>7, <3>1, TailSends
      <3> QED BY <2>9, <3>1, <3>2
    <2>11. Wrote(s) = {}
      BY <2>7, <2>8
    <2>12. Wrote(s)' = {}
      <3>1. ASSUME NEW k \in seen \cup DOMAIN written[s] PROVE written'[s][k] = None
        <4>1. CASE k \in seen
          BY <2>6, <4>1
        <4>2. CASE k \notin seen
          <5>1. written'[s][k] = written[s][k]
            BY <2>6, <4>2
          <5> QED BY <2>11, <4>2, <5>1 DEF Wrote
        <4> QED BY <4>1, <4>2
      <3> QED BY <2>6, <3>1 DEF Wrote
    <2>13. script'[s] = q /\ snapshot'[s] = None /\ UNCHANGED <<open, given, repeated, met>>
      BY <2>1, <2>2, <2>5 DEF StatementRan
    <2>14. Seen(s)'
      BY <2>13 DEF Seen
    <2>15. Writes(s)'
      <3>1. DOMAIN written[s] \in SUBSET RowKeys
        BY <1>1 DEF Refreshes, Writes
      <3>2. ASSUME NEW k \in DOMAIN written'[s]
            PROVE  \/ written'[s][k] = None /\ (rows'[k] # None => rows'[k].exchange = exchange'[s])
                   \/ written'[s][k] \in OwnRows(exchange'[s]) /\ written'[s][k].key = k
        <4>1. CASE k \in seen
          BY <1>1, <2>3, <2>6, <4>1
        <4>2. CASE k \notin seen
          <5>1. k \in DOMAIN written[s] /\ written'[s][k] = written[s][k]
            BY <2>6, <4>2
          <5> QED BY <1>1, <5>1 DEF Refreshes, Writes
        <4> QED BY <4>1, <4>2
      <3> QED BY <2>6, <3>1, <3>2 DEF Writes
    <2>16. Sending(s)'
      <3>1. given[s] = ToSend(p)
        BY <2>7, <2>11
      <3> QED BY <1>1, <2>7, <2>8, <2>10, <2>12, <2>13, <3>1 DEF Sending
    <2>17. Noted(s)'
      BY <1>1, <2>13 DEF Refreshes, Noted
    <2>18. Clears(s)'
      <3>1. ASSUME exchange[s] \notin met[s], NEW k \in RowKeys, rows[k] # None,
                   rows[k].exchange = exchange[s], k \notin DOMAIN written'[s]
            PROVE  k[1] \in Uncleared(q)
        <4>1. k \notin seen /\ k \notin DOMAIN written[s]
          BY <2>6, <3>1
        <4>2. k[1] \in Uncleared(p) /\ (k[1] = p[1].table => k \in seen)
          BY <1>1, <2>1, <2>3, <3>1, <4>1 DEF Refreshes, Clears
        <4> QED BY <2>8, <4>1, <4>2
      <3> QED BY <1>1, <2>13, <3>1 DEF Clears
    <2>19. Refers(s)'
      <3>1. repeated[s] \/ ParentsFirst(p, {})
        BY <1>1, <2>1, <2>11 DEF Refreshes, Refers
      <3>2. ParentsFirst(p, {}) => ParentsFirst(q, {} \cup KeysIn(Members(p[1].list)))
        BY <2>2, TailParents
      <3>3. {} \cup KeysIn(Members(p[1].list)) = {}
        BY <2>9
      <3> QED BY <2>12, <2>13, <3>1, <3>2, <3>3 DEF Refers
    <2>20. Refreshes(s)'
      BY <2>14, <2>15, <2>16, <2>17, <2>18, <2>19 DEF Refreshes
    <2>21. ~Held(s, DOMAIN w)
      BY <1>1, <2>3, <2>4
    <2> QED BY <1>1, <2>5, <2>20, <2>21, AcceptedKeeps
  <1> QED BY <1>2, <1>3

LEMMA BatchKeeps ==
  ASSUME DatabaseInv, NEW s \in Services, Upsert(s)
  PROVE  DatabaseInv'
  <1>1. /\ DbTypes /\ s \in open /\ script[s] # <<>>
        /\ Refreshes(s) /\ UNCHANGED <<exchange, rows, refreshed>>
        /\ ~Held(s, KeysOf(Batched(s)))
    BY DEF DatabaseInv, Upsert, UpsertReady, Runs
  <1>2. CASE ~UpsertAccepted(s)
    <2>1. Close(s, {})
      BY <1>2 DEF Upsert, Run
    <2> QED BY <1>1, <2>1, DroppedKeeps
  <1>3. CASE UpsertAccepted(s)
    <2>1. PICK p \in Seq(SqlOrders) : p = script[s] /\ p # <<>>
      BY <1>1 DEF DbTypes
    <2>2. PICK q \in Seq(SqlOrders) : q = Tail(p) /\ IsRest(q, p) /\ Head(p) = p[1]
      BY <2>1, TailIs DEF IsRest
    <2>3. PICK list \in Seq(TableRows) :
            list = p[1].list /\ list = Batched(s) /\ p[1].op = "insert"
      <3>1. p[1] \in SqlOrders
        BY <2>2 DEF IsRest
      <3>2. p[1].list \in Seq(TableRows)
        BY <3>1 DEF SqlOrders
      <3> QED BY <2>1, <2>2, <3>2 DEF Batched, Upsert, UpsertReady, Runs
    <2>4. PICK keys : keys = KeysOf(list)
      OBVIOUS
    <2>5. PICK w : w = [k \in keys |-> RowOf(list, k)]
      OBVIOUS
    <2>6. StatementRan(s, w)
      <3>1. Run(s, w, TRUE)
        BY <1>3, <2>3, <2>4, <2>5 DEF Upsert, Run
      <3> QED BY <1>1, <3>1, RunIs
    <2>7. /\ DOMAIN written'[s] = keys \cup DOMAIN written[s]
          /\ \A k \in keys : written'[s][k] = RowOf(list, k)
          /\ \A k \in DOMAIN written[s] \ keys : written'[s][k] = written[s][k]
      <3>1. PICK v : v = written[s]
        OBVIOUS
      <3>2. PICK n : n = Over(w, v)
        OBVIOUS
      <3>3. /\ DOMAIN n = DOMAIN w \cup DOMAIN v /\ \A k \in DOMAIN w : n[k] = w[k]
            /\ \A k \in DOMAIN v \ DOMAIN w : n[k] = v[k]
        <4>1. IsOver(n, w, v)
          BY <3>2, OverIs
        <4> QED BY <4>1 DEF IsOver
      <3>4. written'[s] = n
        BY <2>6, <3>1, <3>2 DEF StatementRan
      <3>5. DOMAIN w = keys /\ \A k \in keys : w[k] = RowOf(list, k)
        BY <2>5
      <3> QED BY <3>1, <3>3, <3>4, <3>5
    <2>8. /\ Staged(p) /\ OncePerKey(p) /\ ToSend(p) \subseteq OwnRows(exchange[s])
          /\ given[s] = {written[s][k] : k \in Wrote(s)} \cup ToSend(p)
          /\ \A r \in ToSend(p) : r.key \notin Wrote(s)
      BY <1>1, <2>1 DEF Refreshes, Sending
    <2>9. Staged(q) /\ Uncleared(q) = {} /\ Uncleared(p) = {}
      BY <2>2, <2>3, <2>8, TailStaged
    <2>10. /\ ToSend(p) = Members(list) \cup ToSend(q) /\ OncePerKey(q) /\ Distinct(list)
           /\ \A r \in ToSend(q) : r.key \notin KeysIn(Members(list))
      BY <2>2, <2>3, <2>8, TailSends
    <2>11. KeysIn(Members(list)) = keys
      BY <2>4 DEF KeysIn, Members, KeysOf
    <2>12. ASSUME NEW k \in keys
           PROVE  RowOf(list, k) \in Members(list) /\ RowOf(list, k).key = k
      <3>1. \E i \in DOMAIN list : list[i].key = k
        BY <2>4 DEF KeysOf
      <3> QED BY <3>1 DEF RowOf, Members
    <2>13. ASSUME NEW r \in Members(list) PROVE r.key \in keys /\ r = RowOf(list, r.key)
      <3>1. PICK i \in DOMAIN list : r = list[i]
        BY DEF Members
      <3>2. r.key \in keys
        BY <2>4, <3>1 DEF KeysOf
      <3>3. PICK j \in DOMAIN list : RowOf(list, r.key) = list[j] /\ list[j].key = r.key
        BY <2>12, <3>2 DEF Members
      <3>4. i = j
        BY <2>10, <3>1, <3>3 DEF Distinct
      <3> QED BY <3>1, <3>2, <3>3, <3>4
    <2>14. \A k \in keys : /\ RowOf(list, k) \in OwnRows(exchange[s]) /\ RowOf(list, k) # None
                           /\ k \in RowKeys /\ k \notin Wrote(s)
      <3> SUFFICES ASSUME NEW k \in keys
                   PROVE  /\ RowOf(list, k) \in OwnRows(exchange[s]) /\ RowOf(list, k) # None
                          /\ k \in RowKeys /\ k \notin Wrote(s)
        OBVIOUS
      <3>1. RowOf(list, k) \in ToSend(p) /\ RowOf(list, k).key = k
        BY <2>10, <2>12
      <3>2. RowOf(list, k) \in OwnRows(exchange[s]) /\ k \notin Wrote(s)
        BY <2>8, <3>1
      <3>3. RowOf(list, k) \in TableRows
        BY <3>2 DEF OwnRows
      <3>4. RowOf(list, k).key \in RowKeys
        BY <3>3 DEF TableRows
      <3> QED BY <3>1, <3>2, <3>3, <3>4, NoneAssumption
    <2>15. /\ Wrote(s)' = keys \cup Wrote(s)
           /\ \A k \in keys : written'[s][k] = RowOf(list, k)
           /\ \A k \in Wrote(s) : k \notin keys /\ written'[s][k] = written[s][k]
      <3>1. \A k \in Wrote(s) : k \notin keys /\ k \in DOMAIN written[s] /\ written[s][k] # None
        BY <2>14 DEF Wrote
      <3>2. \A k \in Wrote(s) : written'[s][k] = written[s][k]
        BY <2>7, <3>1
      <3>3. ASSUME NEW k \in keys \cup DOMAIN written[s]
            PROVE  written'[s][k] # None <=> k \in keys \cup Wrote(s)
        <4>1. CASE k \in keys
          BY <2>7, <2>14, <4>1
        <4>2. CASE k \notin keys
          <5>1. k \in DOMAIN written[s] /\ written'[s][k] = written[s][k]
            BY <2>7, <4>2
          <5> QED BY <4>2, <5>1 DEF Wrote
        <4> QED BY <4>1, <4>2
      <3>4. keys \cup Wrote(s) \subseteq keys \cup DOMAIN written[s]
        BY DEF Wrote
      <3>5. Wrote(s)' = {k \in keys \cup DOMAIN written[s] : written'[s][k] # None}
        BY <2>7 DEF Wrote
      <3>6. Wrote(s)' = keys \cup Wrote(s)
        BY <3>3, <3>4, <3>5
      <3> QED BY <2>7, <3>1, <3>2, <3>6
    <2>16. script'[s] = q /\ snapshot'[s] = None /\ UNCHANGED <<open, given, repeated, met>>
      BY <2>1, <2>2, <2>6 DEF StatementRan
    <2>17. Seen(s)'
      BY <2>16 DEF Seen
    <2>18. Writes(s)'
      <3>1. DOMAIN written[s] \in SUBSET RowKeys
        BY <1>1 DEF Refreshes, Writes
      <3>2. DOMAIN written'[s] \in SUBSET RowKeys
        BY <2>7, <2>14, <3>1
      <3>3. ASSUME NEW k \in DOMAIN written'[s]
            PROVE  \/ written'[s][k] = None /\ (rows'[k] # None => rows'[k].exchange = exchange'[s])
                   \/ written'[s][k] \in OwnRows(exchange'[s]) /\ written'[s][k].key = k
        <4>1. CASE k \in keys
          BY <1>1, <2>7, <2>12, <2>14, <4>1
        <4>2. CASE k \notin keys
          <5>1. k \in DOMAIN written[s] /\ written'[s][k] = written[s][k]
            BY <2>7, <4>2
          <5> QED BY <1>1, <5>1 DEF Refreshes, Writes
        <4> QED BY <4>1, <4>2
      <3> QED BY <3>2, <3>3 DEF Writes
    <2>19. Sending(s)'
      <3>1. ToSend(q) \subseteq OwnRows(exchange[s])
        BY <2>8, <2>10
      <3>2. \A r \in ToSend(q) : r.key \notin keys \cup Wrote(s)
        BY <2>8, <2>10, <2>11
      <3>3. PICK all : all = {written'[s][k] : k \in keys \cup Wrote(s)}
        OBVIOUS
      <3>4. PICK old : old = {written[s][k] : k \in Wrote(s)}
        OBVIOUS
      <3>5. all = Members(list) \cup old
        <4>1. ASSUME NEW k \in keys PROVE written'[s][k] \in Members(list)
          BY <2>12, <2>15
        <4>2. ASSUME NEW k \in Wrote(s) PROVE written'[s][k] \in old
          BY <2>15, <3>4
        <4>3. ASSUME NEW r \in Members(list) PROVE r \in all
          BY <2>13, <2>15, <3>3
        <4>4. ASSUME NEW k \in Wrote(s) PROVE written[s][k] \in all
          BY <2>15, <3>3
        <4>5. ASSUME NEW r \in all PROVE r \in Members(list) \cup old
          BY <3>3, <4>1, <4>2
        <4>6. ASSUME NEW r \in old PROVE r \in all
          BY <3>4, <4>4
        <4> QED BY <4>3, <4>5, <4>6
      <3>6. given[s] = all \cup ToSend(q)
        BY <2>8, <2>10, <3>4, <3>5
      <3>7. given'[s] = {written'[s][k] : k \in Wrote(s)'} \cup ToSend(script'[s])
        BY <2>15, <2>16, <3>3, <3>6
      <3> QED BY <1>1, <2>9, <2>10, <2>15, <2>16, <3>1, <3>2, <3>7 DEF Sending
    <2>20. Noted(s)'
      BY <1>1, <2>16 DEF Refreshes, Noted
    <2>21. Clears(s)'
      <3>1. ASSUME exchange[s] \notin met[s], NEW k \in RowKeys, rows[k] # None,
                   rows[k].exchange = exchange[s], k \notin DOMAIN written'[s]
            PROVE  FALSE
        <4>1. k \notin DOMAIN written[s]
          BY <2>7, <3>1
        <4>2. k[1] \in Uncleared(p)
          BY <1>1, <2>1, <3>1, <4>1 DEF Refreshes, Clears
        <4> QED BY <2>9, <4>2
      <3> QED BY <1>1, <2>16, <3>1 DEF Clears
    <2>22. Refers(s)'
      <3>1. repeated[s] \/ ParentsFirst(p, Wrote(s))
        BY <1>1, <2>1 DEF Refreshes, Refers
      <3>2. ParentsFirst(p, Wrote(s)) => ParentsFirst(q, Wrote(s) \cup KeysIn(Members(list)))
        BY <2>2, <2>3, TailParents
      <3>3. Wrote(s) \cup KeysIn(Members(list)) = Wrote(s)'
        BY <2>11, <2>15
      <3> QED BY <2>16, <3>1, <3>2, <3>3 DEF Refers
    <2>23. Refreshes(s)'
      BY <2>17, <2>18, <2>19, <2>20, <2>21, <2>22 DEF Refreshes
    <2>24. ~Held(s, DOMAIN w)
      BY <1>1, <2>3, <2>4, <2>5
    <2> QED BY <1>1, <2>6, <2>23, <2>24, AcceptedKeeps
  <1> QED BY <1>2, <1>3

\* A row of the tables after a commit: what the transaction wrote, or what was there.
LEMMA RowsCommitted ==
  ASSUME DatabaseInv, NEW s \in Services, Commit(s)
  PROVE  /\ DOMAIN written[s] \in SUBSET RowKeys
         /\ DOMAIN rows' = RowKeys
         /\ \A k \in DOMAIN written[s] :
              /\ rows'[k] = written[s][k]
              /\ rows'[k] # None =>
                   k \in Wrote(s) /\ rows'[k] \in OwnRows(exchange[s]) /\ rows'[k].key = k
         /\ \A k \in RowKeys \ DOMAIN written[s] : rows'[k] = rows[k]
  <1>1. DbTypes /\ Refreshes(s) /\ rows' = Over(written[s], rows)
    BY DEF DatabaseInv, Commit
  <1>2. /\ DOMAIN written[s] \in SUBSET RowKeys
        /\ \A k \in DOMAIN written[s] :
             written[s][k] = None \/ (written[s][k] \in OwnRows(exchange[s]) /\ written[s][k].key = k)
    BY <1>1 DEF Refreshes, Writes
  <1>3. DOMAIN rows = RowKeys
    BY <1>1 DEF DbTypes
  <1>4. PICK v, r, n : v = written[s] /\ r = rows /\ n = rows'
    OBVIOUS
  <1>5. IsOver(n, v, r)
    BY <1>1, <1>4, OverIs
  <1>6. /\ DOMAIN n = RowKeys /\ \A k \in DOMAIN v : n[k] = v[k]
        /\ \A k \in RowKeys \ DOMAIN v : n[k] = r[k]
    BY <1>2, <1>3, <1>4, <1>5 DEF IsOver
  <1>7. \A k \in DOMAIN written[s] : written[s][k] # None => k \in Wrote(s)
    BY DEF Wrote
  <1> QED BY <1>2, <1>4, <1>6, <1>7

\* What is stored for an exchange.
Stored(table, x) == {table[k] : k \in {j \in RowKeys : table[j] # None /\ table[j].exchange = x}}

LEMMA CommitWhole ==
  ASSUME DatabaseInv, NEW s \in Services, Commit(s)
  PROVE  WholeRefresh'
  <1>1. /\ DbTypes /\ s \in open /\ Refreshes(s) /\ WholeRefresh
        /\ script[s] = <<>>
    BY DEF DatabaseInv, Commit
  <1>2. PICK x \in Exchanges : x = exchange[s]
    BY <1>1, DatabaseAssumption DEF DbTypes
  <1>3. given[s] = {written[s][k] : k \in Wrote(s)}
    <2>1. ToSend(<<>>) = {}
      BY ToSendIs
    <2> QED BY <1>1, <2>1 DEF Refreshes, Sending
  <1>4. \A k \in Wrote(s) : /\ k \in RowKeys /\ k \in DOMAIN written[s]
                            /\ rows'[k] = written[s][k] /\ rows'[k] # None
                            /\ rows'[k].exchange = x /\ rows'[k].key = k
    <2> SUFFICES ASSUME NEW k \in Wrote(s)
                 PROVE  /\ k \in RowKeys /\ k \in DOMAIN written[s]
                        /\ rows'[k] = written[s][k] /\ rows'[k] # None
                        /\ rows'[k].exchange = x /\ rows'[k].key = k
      OBVIOUS
    <2>1. k \in DOMAIN written[s] /\ written[s][k] # None
      BY DEF Wrote
    <2>2. rows'[k] = written[s][k] /\ rows'[k] \in OwnRows(exchange[s]) /\ rows'[k].key = k
      BY <2>1, RowsCommitted
    <2> QED BY <1>2, <2>1, <2>2, RowsCommitted DEF OwnRows
  <1>5. \A k \in RowKeys : rows'[k] # None => k \in Wrote(s) \/ (k \notin DOMAIN written[s] /\ rows'[k] = rows[k])
    BY RowsCommitted
  <1>6. ASSUME x \notin met[s] PROVE Stored(rows', x) = given[s]
    <2>1. ASSUME NEW k \in RowKeys, rows'[k] # None, rows'[k].exchange = x
          PROVE  k \in Wrote(s)
      <3>1. CASE k \notin DOMAIN written[s] /\ rows'[k] = rows[k]
        <4>1. k[1] \in Uncleared(<<>>)
          BY <1>1, <1>2, <1>6, <2>1, <3>1 DEF Refreshes, Clears
        <4> QED BY <4>1 DEF Uncleared
      <3> QED BY <1>5, <2>1, <3>1
    <2>2. ASSUME NEW k \in Wrote(s) PROVE written[s][k] \in Stored(rows', x)
      BY <1>4 DEF Stored
    <2>3. ASSUME NEW r \in Stored(rows', x) PROVE r \in given[s]
      BY <1>3, <1>4, <2>1 DEF Stored
    <2> QED BY <1>3, <2>2, <2>3
  <1>7. ASSUME NEW y \in Exchanges, y # x, refreshed[y] # None
        PROVE  Stored(rows', y) = {r \in refreshed[y] : r.key \notin {g.key : g \in given[s]}}
    <2>1. refreshed[y] = Stored(rows, y)
      BY <1>1, <1>7 DEF WholeRefresh, Stored
    <2>2. {g.key : g \in given[s]} = Wrote(s)
      <3>1. ASSUME NEW g \in given[s] PROVE g.key \in Wrote(s)
        BY <1>3, <1>4
      <3>2. ASSUME NEW k \in Wrote(s) PROVE \E g \in given[s] : g.key = k
        BY <1>3, <1>4
      <3> QED BY <3>1, <3>2
    <2>3. \A k \in RowKeys : rows[k] # None => rows[k].key = k
      BY <1>1 DEF DbTypes
    <2>4. ASSUME NEW k \in RowKeys, rows'[k] # None, rows'[k].exchange = y
          PROVE  rows'[k] \in Stored(rows, y) /\ rows'[k].key \notin Wrote(s)
      <3>1. k \notin Wrote(s)
        BY <1>4, <1>7, <2>4
      <3>2. rows'[k] = rows[k]
        BY <1>5, <2>4, <3>1
      <3> QED BY <2>3, <2>4, <3>1, <3>2 DEF Stored
    <2>5. ASSUME NEW k \in RowKeys, rows[k] # None, rows[k].exchange = y, k \notin Wrote(s)
          PROVE  rows'[k] = rows[k]
      <3>1. CASE k \in DOMAIN written[s]
        <4>1. written[s][k] = None
          BY <2>5, <3>1 DEF Wrote
        <4>2. rows[k].exchange = exchange[s]
          <5>1. \/ written[s][k] = None /\ (rows[k] # None => rows[k].exchange = exchange[s])
                \/ written[s][k] \in OwnRows(exchange[s]) /\ written[s][k].key = k
            BY <1>1, <3>1 DEF Refreshes, Writes
          <5>2. written[s][k] \notin OwnRows(exchange[s])
            BY <4>1, NoneAssumption DEF OwnRows
          <5> QED BY <2>5, <5>1, <5>2
        <4> QED BY <1>2, <1>7, <2>5, <4>2
      <3>2. CASE k \notin DOMAIN written[s]
        BY <3>2, RowsCommitted
      <3> QED BY <3>1, <3>2
    <2>6. ASSUME NEW r \in Stored(rows', y) PROVE r \in Stored(rows, y) /\ r.key \notin Wrote(s)
      <3>1. PICK k \in RowKeys : r = rows'[k] /\ rows'[k] # None /\ rows'[k].exchange = y
        BY DEF Stored
      <3> QED BY <2>4, <3>1
    <2>7. ASSUME NEW r \in Stored(rows, y), r.key \notin Wrote(s) PROVE r \in Stored(rows', y)
      <3>1. PICK k \in RowKeys : r = rows[k] /\ rows[k] # None /\ rows[k].exchange = y
        BY DEF Stored
      <3>2. k \notin Wrote(s)
        BY <2>3, <2>7, <3>1
      <3>3. rows'[k] = rows[k]
        BY <2>5, <3>1, <3>2
      <3> QED BY <3>1, <3>3 DEF Stored
    <2> QED BY <2>1, <2>2, <2>6, <2>7
  <1>8. refreshed' = [y \in Exchanges |->
                       IF y = exchange[s] THEN IF y \in met[s] THEN None ELSE given[s]
                       ELSE IF refreshed[y] = None THEN None
                       ELSE {r \in refreshed[y] : r.key \notin {g.key : g \in given[s]}}]
    BY DEF Commit
  <1>9. ASSUME NEW y \in Exchanges, refreshed'[y] # None PROVE Stored(rows', y) = refreshed'[y]
    <2>1. CASE y = x
      <3>1. x \notin met[s] /\ refreshed'[y] = given[s]
        BY <1>2, <1>8, <1>9, <2>1
      <3> QED BY <1>6, <2>1, <3>1
    <2>2. CASE y # x
      <3>1. refreshed[y] # None
        BY <1>2, <1>8, <1>9, <2>2
      <3>2. refreshed'[y] = {r \in refreshed[y] : r.key \notin {g.key : g \in given[s]}}
        BY <1>2, <1>8, <2>2, <3>1
      <3> QED BY <1>7, <2>2, <3>1, <3>2
    <2> QED BY <2>1, <2>2
  <1> QED BY <1>9 DEF WholeRefresh, Stored

\* A commit takes the rows it has changed from what the others have seen, and from their
\* exchange none that they have not written.
LEMMA CommitStays ==
  ASSUME DatabaseInv, NEW s \in Services, Commit(s), NEW t \in open, t # s
  PROVE  Refreshes(t)'
  <1>1. /\ DbTypes /\ s \in open /\ Refreshes(t) /\ exchange' = exchange
        /\ s \in Services /\ t \in Services \ {s} /\ Close(s, DOMAIN written[s])
    BY DEF DatabaseInv, DbTypes, Commit
  <1>2. CallOver(s, DOMAIN written[s])
    BY <1>1, CloseIs
  <1>3. /\ script'[t] = script[t] /\ written'[t] = written[t] /\ given'[t] = given[t]
        /\ repeated'[t] = repeated[t] /\ met'[t] = met[t] /\ open' = open \ {s}
        /\ snapshot'[t] = IF snapshot[t] = None THEN None ELSE snapshot[t] \ DOMAIN written[s]
    BY <1>1, <1>2 DEF CallOver
  <1>4. DOMAIN written[t] \cap DOMAIN written[s] = {}
    BY <1>1 DEF DatabaseInv, Apart
  <1>5. /\ \A k \in RowKeys \ DOMAIN written[s] : rows'[k] = rows[k]
        /\ \A k \in RowKeys : rows'[k] # None =>
             (k \notin DOMAIN written[s] /\ rows'[k] = rows[k]) \/ rows'[k].exchange = exchange[s]
    BY RowsCommitted DEF OwnRows
  <1>6. Wrote(t)' = Wrote(t)
    BY <1>3 DEF Wrote
  <1>7. Seen(t)'
    <2>1. CASE snapshot[t] = None
      BY <1>3, <2>1 DEF Seen
    <2>2. CASE snapshot[t] # None
      <3>1. /\ snapshot[t] \in SUBSET RowKeys /\ script[t] # <<>> /\ script[t][1].op = "delete"
            /\ \A k \in snapshot[t] : /\ k[1] = script[t][1].table /\ k \notin DOMAIN written[t]
                                      /\ rows[k] # None /\ rows[k].exchange = exchange[t]
        BY <1>1, <2>2 DEF Refreshes, Seen
      <3>2. snapshot'[t] = snapshot[t] \ DOMAIN written[s]
        BY <1>3, <2>2
      <3>3. \A k \in snapshot'[t] : k \in snapshot[t] /\ rows'[k] = rows[k]
        BY <1>5, <3>1, <3>2
      <3>4. snapshot'[t] \in SUBSET RowKeys
        BY <3>1, <3>2
      <3> QED BY <1>1, <1>3, <3>1, <3>3, <3>4 DEF Seen
    <2> QED BY <2>1, <2>2
  <1>8. Writes(t)'
    <2>1. DOMAIN written[t] \in SUBSET RowKeys
      BY <1>1 DEF Refreshes, Writes
    <2>2. \A k \in DOMAIN written[t] : rows'[k] = rows[k]
      BY <1>4, <1>5, <2>1
    <2> QED BY <1>1, <1>3, <2>2 DEF Refreshes, Writes
  <1>9. Sending(t)'
    BY <1>1, <1>3, <1>6 DEF Refreshes, Sending
  <1>10. exchange[s] \in met[t]
    BY <1>1 DEF Refreshes, Noted
  <1>11. Noted(t)'
    <2>1. \A u \in open' \ {t} : exchange'[u] \in met'[t]
      BY <1>1, <1>3 DEF Refreshes, Noted
    <2>2. \A k \in RowKeys : rows[k] # None => rows[k].exchange \in met[t] \cup {exchange[t]}
      BY <1>1 DEF Refreshes, Noted
    <2>3. \A k \in RowKeys : rows'[k] # None => rows'[k].exchange \in met'[t] \cup {exchange'[t]}
      BY <1>1, <1>3, <1>5, <1>10, <2>2
    <2> QED BY <2>1, <2>3 DEF Noted
  <1>12. Clears(t)'
    <2>1. ASSUME exchange[t] \notin met[t], NEW k \in RowKeys, rows'[k] # None,
                 rows'[k].exchange = exchange[t], k \notin DOMAIN written[t]
          PROVE  /\ k[1] \in Uncleared(script[t])
                 /\ snapshot'[t] # None /\ k[1] = script[t][1].table => k \in snapshot'[t]
      <3>1. k \notin DOMAIN written[s] /\ rows'[k] = rows[k]
        BY <1>5, <1>10, <2>1
      <3>2. /\ k[1] \in Uncleared(script[t])
            /\ snapshot[t] # None /\ k[1] = script[t][1].table => k \in snapshot[t]
        BY <1>1, <2>1, <3>1 DEF Refreshes, Clears
      <3> QED BY <1>3, <3>1, <3>2
    <2> QED BY <1>1, <1>3, <2>1 DEF Clears
  <1>13. Refers(t)'
    BY <1>1, <1>3, <1>6 DEF Refreshes, Refers
  <1> QED BY <1>7, <1>8, <1>9, <1>11, <1>12, <1>13 DEF Refreshes

LEMMA RefreshCommits ==
  ASSUME DatabaseInv, NEW s \in Services, Commit(s)
  PROVE  DatabaseInv'
  <1>1. /\ DbTypes /\ s \in open /\ Refreshes(s) /\ exchange' = exchange
        /\ Close(s, DOMAIN written[s]) /\ script[s] = <<>> /\ open \in SUBSET Services
    BY DEF DatabaseInv, DbTypes, Commit
  <1>2. CallOver(s, DOMAIN written[s])
    BY <1>1, CloseIs
  <1>3. open' = open \ {s}
    BY <1>2 DEF CallOver
  <1>4. \A k \in RowKeys : rows'[k] # None => rows'[k].key = k /\ Sound(rows'[k])
    <2> SUFFICES ASSUME NEW k \in RowKeys, rows'[k] # None PROVE rows'[k].key = k /\ Sound(rows'[k])
      OBVIOUS
    <2>1. CASE k \in DOMAIN written[s]
      BY <2>1, RowsCommitted DEF OwnRows
    <2>2. CASE k \notin DOMAIN written[s]
      <3>1. rows'[k] = rows[k]
        BY <2>2, RowsCommitted
      <3> QED BY <1>1, <3>1 DEF DbTypes
    <2> QED BY <2>1, <2>2
  <1>5. rows' \in [RowKeys -> TableRows \cup {None}]
    <2>1. DOMAIN rows' = RowKeys
      BY RowsCommitted
    <2>2. \A k \in RowKeys : rows'[k] \in TableRows \cup {None}
      BY <1>4 DEF Sound
    <2>3. rows' = [k \in RowKeys |-> rows'[k]]
      <3>1. PICK w : w = Over(written[s], rows)
        OBVIOUS
      <3>2. w = [k \in DOMAIN w |-> w[k]]
        BY <3>1 DEF Over
      <3>3. rows' = w
        BY <3>1 DEF Commit
      <3> QED BY <2>1, <3>2, <3>3
    <2> QED BY <2>2, <2>3
  <1>6. /\ DOMAIN refreshed' = Exchanges
        /\ \A x \in Exchanges : refreshed'[x] = None \/ refreshed'[x] \in SUBSET TableRows
    <2>1. refreshed' = [y \in Exchanges |->
                         IF y = exchange[s] THEN IF y \in met[s] THEN None ELSE given[s]
                         ELSE IF refreshed[y] = None THEN None
                         ELSE {r \in refreshed[y] : r.key \notin {g.key : g \in given[s]}}]
      BY DEF Commit
    <2>2. given[s] \in SUBSET TableRows
      <3>1. given[s] = {written[s][k] : k \in Wrote(s)} \cup ToSend(<<>>)
        BY <1>1 DEF Refreshes, Sending
      <3>2. ToSend(<<>>) = {}
        BY ToSendIs
      <3>3. \A k \in Wrote(s) : written[s][k] \in TableRows
        <4>1. \A k \in Wrote(s) : k \in DOMAIN written[s] /\ written[s][k] # None
          BY DEF Wrote
        <4> QED BY <1>1, <4>1 DEF Refreshes, Writes, OwnRows
      <3> QED BY <3>1, <3>2, <3>3
    <2>3. \A x \in Exchanges : refreshed[x] = None \/ refreshed[x] \in SUBSET TableRows
      BY <1>1 DEF DbTypes
    <2>4. ASSUME NEW x \in Exchanges PROVE refreshed'[x] = None \/ refreshed'[x] \in SUBSET TableRows
      <3>1. CASE x = exchange[s]
        BY <2>1, <2>2, <3>1
      <3>2. CASE x # exchange[s]
        <4>1. PICK gone : gone = {g.key : g \in given[s]}
          OBVIOUS
        <4>2. refreshed'[x] = IF refreshed[x] = None THEN None ELSE {r \in refreshed[x] : r.key \notin gone}
          BY <2>1, <3>2, <4>1
        <4> QED BY <2>3, <4>2
      <3> QED BY <3>1, <3>2
    <2> QED BY <2>1, <2>4
  <1>7. DbTypes'
    <2>1. ASSUME NEW t \in Services \ open'
          PROVE  script'[t] = <<>> /\ written'[t] = Nothing /\ snapshot'[t] = None /\ given'[t] = {}
      <3>1. CASE t = s
        BY <1>2, <3>1 DEF CallOver
      <3>2. CASE t # s
        <4>1. t \in Services \ open
          BY <1>3, <3>2
        <4> QED BY <1>1, <1>2, <3>2, <4>1 DEF CallOver, DbTypes
      <3> QED BY <3>1, <3>2
    <2>2. exchange' \in Naming /\ open' \in SUBSET Services
      BY <1>1, <1>3 DEF DbTypes
    <2> QED BY <1>2, <1>4, <1>5, <1>6, <2>1, <2>2 DEF DbTypes, CallOver
  <1>8. \A t \in open' : Refreshes(t)'
    BY <1>3, CommitStays
  <1>9. ASSUME NEW t \in open', NEW u \in open', u # t
        PROVE  DOMAIN written'[t] \cap DOMAIN written'[u] = {}
    <2>1. t \in open /\ u \in open /\ t \in Services \ {s} /\ u \in Services \ {s}
      BY <1>1, <1>3
    <2>2. DOMAIN written[t] \cap DOMAIN written[u] = {}
      BY <1>9, <2>1 DEF DatabaseInv, Apart
    <2> QED BY <1>2, <2>1, <2>2 DEF CallOver
  <1>10. Apart' /\ (\A t \in open : Refreshes(t))'
    BY <1>8, <1>9 DEF Apart
  <1>11. WholeRefresh'
    BY CommitWhole
  <1> QED BY <1>7, <1>10, <1>11 DEF DatabaseInv

LEMMA DatabaseBegins ==
  ASSUME DatabaseInit
  PROVE  DatabaseInv
  <1>1. <<>> \in Seq(SqlOrders)
    BY EmptySeq
  <1>2. DbTypes
    BY <1>1 DEF DatabaseInit, DbTypes
  <1>3. open = {}
    BY DEF DatabaseInit
  <1>4. WholeRefresh
    <2>1. \A k \in RowKeys : rows[k] = None
      BY DEF DatabaseInit
    <2>2. \A x \in Exchanges : refreshed[x] = {}
      BY DEF DatabaseInit
    <2> QED BY <2>1, <2>2 DEF WholeRefresh
  <1> QED BY <1>2, <1>3, <1>4 DEF DatabaseInv, Apart

LEMMA DatabaseGoesOn ==
  ASSUME DatabaseInv, [DatabaseStep]_dbs
  PROVE  DatabaseInv'
  <1>1. CASE UNCHANGED dbs
    <2>1. /\ exchange' = exchange /\ rows' = rows /\ open' = open /\ script' = script
          /\ snapshot' = snapshot /\ written' = written /\ given' = given
          /\ repeated' = repeated /\ met' = met /\ refreshed' = refreshed
      BY <1>1 DEF dbs, tx, notes
    <2>2. DbTypes'
      BY <2>1 DEF DatabaseInv, DbTypes
    <2>3. ASSUME NEW t \in open' PROVE Refreshes(t)'
      <3>1. t \in open /\ Refreshes(t)
        BY <2>1 DEF DatabaseInv
      <3> QED BY <2>1, <3>1, Stays
    <2>4. Apart' /\ WholeRefresh'
      BY <2>1 DEF DatabaseInv, Apart, WholeRefresh
    <2>5. (\A t \in open : Refreshes(t))'
      BY <2>3
    <2> QED BY <2>2, <2>4, <2>5 DEF DatabaseInv
  <1>2. ASSUME NEW s \in Services, NEW tree \in Trees, Store(s, tree) PROVE DatabaseInv'
    BY <1>2, RefreshBegins
  <1>3. ASSUME NEW s \in Services, See(s) PROVE DatabaseInv'
    BY <1>3, SeeKeeps
  <1>4. ASSUME NEW s \in Services, Clear(s) PROVE DatabaseInv'
    BY <1>4, ClearKeeps
  <1>5. ASSUME NEW s \in Services, Upsert(s) PROVE DatabaseInv'
    BY <1>5, BatchKeeps
  <1>6. ASSUME NEW s \in Services, Commit(s) PROVE DatabaseInv'
    BY <1>6, RefreshCommits
  <1>7. ASSUME NEW s \in Services, Fail(s) PROVE DatabaseInv'
    <2>1. s \in open /\ Close(s, {}) /\ UNCHANGED <<exchange, rows, refreshed>>
      BY <1>7 DEF Fail
    <2> QED BY <2>1, DroppedKeeps
  <1> QED BY <1>1, <1>2, <1>3, <1>4, <1>5, <1>6, <1>7 DEF DatabaseStep

\* A refresh that is alone with rows of its own exchange, and whose tree has no repeats.
LEMMA AloneAccepted ==
  ASSUME DatabaseInv, NEW s \in open, ~repeated[s], met[s] = {}
  PROVE  ~Refuses(s)
  <1>1. DbTypes /\ Refreshes(s) /\ open \in SUBSET Services
    BY DEF DatabaseInv, DbTypes
  <1>2. \A k \in RowKeys : rows[k] # None => rows[k].exchange = exchange[s]
    BY <1>1 DEF Refreshes, Noted
  <1>3. ASSUME ClearReady(s), ~ClearAccepted(s) PROVE FALSE
    <2>1. snapshot[s] # None /\ script[s] # <<>>
      BY <1>3 DEF ClearReady, Runs
    <2>2. PICK p \in Seq(SqlOrders) : p = script[s] /\ p # <<>>
      BY <1>1, <2>1 DEF DbTypes
    <2>3. PICK q : IsRest(q, p)
      BY <2>2, TailIs
    <2>4. PICK seen \in SUBSET RowKeys :
            /\ seen = snapshot[s] /\ p[1].op = "delete"
            /\ \A k \in seen : k[1] = p[1].table
      BY <1>1, <2>1, <2>2 DEF Refreshes, Seen
    <2>5. Staged(p) /\ (Uncleared(p) # {} => Wrote(s) = {})
      BY <1>1, <2>2 DEF Refreshes, Sending
    <2>6. Wrote(s) = {} /\ (p[1].table = "node" => "instrument" \notin Uncleared(p))
      BY <2>3, <2>4, <2>5, TailStaged
    <2>7. PICK k \in RowKeys \ seen : Visible(s, k) # None /\ Visible(s, k).ref \in seen
      BY <1>3, <2>4 DEF ClearAccepted
    <2>8. k \notin DOMAIN written[s] /\ rows[k] # None /\ rows[k].ref \in seen
      <3>1. k \in DOMAIN written[s] => Visible(s, k) = None
        BY <2>6 DEF Visible, Wrote
      <3> QED BY <2>7, <3>1 DEF Visible
    <2>9. rows[k].ref \in {"node"} \X Ids
      <3>1. Sound(rows[k])
        BY <1>1, <2>8 DEF DbTypes
      <3>2. rows[k].ref # None
        BY <2>8, NoneAssumption
      <3> QED BY <3>1, <3>2 DEF Sound
    <2>10. p[1].table = "node"
      BY <2>4, <2>8, <2>9
    <2>11. k[1] \in Uncleared(p) /\ (k[1] = p[1].table => k \in seen)
      BY <1>1, <1>2, <2>1, <2>2, <2>4, <2>8 DEF Refreshes, Clears
    <2>12. k[1] = "instrument"
      <3>1. k[1] \in Tables
        BY DEF RowKeys, Tables
      <3> QED BY <2>7, <2>10, <2>11, <3>1 DEF Tables
    <2> QED BY <2>6, <2>10, <2>11, <2>12
  <1>4. ASSUME UpsertReady(s), ~UpsertAccepted(s) PROVE FALSE
    <2>1. script[s] # <<>>
      BY <1>4 DEF UpsertReady, Runs
    <2>2. PICK p \in Seq(SqlOrders) : p = script[s] /\ p # <<>>
      BY <1>1, <2>1 DEF DbTypes
    <2>3. PICK q : IsRest(q, p) /\ Head(p) = p[1]
      BY <2>2, TailIs
    <2>4. PICK list \in Seq(TableRows) : list = p[1].list /\ list = Batched(s)
      <3>1. p[1] \in SqlOrders
        BY <2>3 DEF IsRest
      <3>2. p[1].list \in Seq(TableRows)
        BY <3>1 DEF SqlOrders
      <3> QED BY <2>2, <2>3, <3>2 DEF Batched
    <2>5. OncePerKey(p)
      BY <1>1, <2>2 DEF Refreshes, Sending
    <2>6. Distinct(list)
      BY <2>3, <2>4, <2>5, TailSends
    <2>7. Cardinality(KeysOf(list)) = Len(list)
      BY <2>6, CountsKeys
    <2>8. PICK r \in RefsOf(list) : r \notin KeysOf(list) /\ Visible(s, r) = None
      BY <1>4, <2>4, <2>7 DEF UpsertAccepted
    <2>9. PICK j \in DOMAIN list : r = list[j].ref /\ r # None
      BY DEF RefsOf
    <2>10. ParentsFirst(p, Wrote(s))
      BY <1>1, <2>2 DEF Refreshes, Refers
    <2>11. list[j].ref \in Wrote(s) \cup {None} \cup KeysIn(Members(list))
      BY <2>3, <2>4, <2>10, TailParents
    <2>12. KeysIn(Members(list)) = KeysOf(list)
      BY DEF KeysIn, Members, KeysOf
    <2>13. r \in Wrote(s)
      BY <2>8, <2>9, <2>11, <2>12
    <2> QED BY <2>8, <2>13 DEF Visible, Wrote
  <1> QED BY <1>3, <1>4 DEF Refuses

LEMMA InvTells ==
  ASSUME DatabaseInv
  PROVE  WholeRefresh /\ RejectedForRepeats
  <1>1. ASSUME NEW s \in open, Refuses(s) PROVE repeated[s] \/ met[s] # {}
    BY <1>1, AloneAccepted
  <1> QED BY <1>1 DEF DatabaseInv, RejectedForRepeats

\* What is stored for an exchange is one tree as a whole, the one whose refresh last
\* returned Ok, and a refresh that meets nobody is rejected only for a tree that lists an
\* id twice, whatever the trees, the batch size and the services that store at the same time.
THEOREM RefreshesAreWhole ==
  DatabaseInit /\ [][DatabaseStep]_dbs => [](WholeRefresh /\ RejectedForRepeats)
  <1>1. DatabaseInit => DatabaseInv
    BY DatabaseBegins
  <1>2. DatabaseInv /\ [DatabaseStep]_dbs => DatabaseInv'
    BY DatabaseGoesOn
  <1>3. DatabaseInv => WholeRefresh /\ RejectedForRepeats
    BY InvTells
  <1> QED BY <1>1, <1>2, <1>3, PTL

\* What a refresh was given are rows of the tables: it has written or will send them.
LEMMA DatabaseTypesHold == DatabaseInv => DatabaseTypeOK
  <1> SUFFICES ASSUME DatabaseInv PROVE DatabaseTypeOK
    OBVIOUS
  <1>1. DbTypes /\ \A s \in open : Seen(s) /\ Writes(s) /\ Sending(s)
    BY DEF DatabaseInv, Refreshes
  <1>2. \A x : OwnRows(x) \subseteq TableRows
    BY DEF OwnRows
  <1>3. ASSUME NEW s \in Services
        PROVE  /\ s \notin open => script[s] = <<>> /\ written[s] = Nothing /\ snapshot[s] = None
               /\ snapshot[s] = None \/ snapshot[s] \subseteq RowKeys
               /\ DOMAIN written[s] \subseteq RowKeys
               /\ \A k \in DOMAIN written[s] : written[s][k] \in TableRows \cup {None}
               /\ given[s] \subseteq TableRows
    <2>1. CASE s \notin open
      <3>1. /\ script[s] = <<>> /\ written[s] = Nothing /\ snapshot[s] = None /\ given[s] = {}
        BY <1>1, <2>1 DEF DbTypes
      <3>2. DOMAIN Nothing = {}
        BY DEF Nothing
      <3> QED BY <3>1, <3>2
    <2>2. CASE s \in open
      <3>1. Seen(s) /\ Writes(s) /\ Sending(s)
        BY <1>1, <2>2
      <3>2. snapshot[s] = None \/ snapshot[s] \subseteq RowKeys
        BY <3>1 DEF Seen
      <3>3. DOMAIN written[s] \subseteq RowKeys
        BY <3>1 DEF Writes
      <3>4. \A k \in DOMAIN written[s] : written[s][k] \in TableRows \cup {None}
        BY <1>2, <3>1 DEF Writes
      <3>5. \A k \in Wrote(s) : written[s][k] \in TableRows
        BY <3>4 DEF Wrote
      <3>6. ToSend(script[s]) \subseteq TableRows
        BY <1>2, <3>1 DEF Sending
      <3>7. given[s] = {written[s][k] : k \in Wrote(s)} \cup ToSend(script[s])
        BY <3>1 DEF Sending
      <3>8. given[s] \subseteq TableRows
        BY <3>5, <3>6, <3>7
      <3> QED BY <2>2, <3>2, <3>3, <3>4, <3>8
    <2> QED BY <2>1, <2>2
  <1>4. /\ exchange \in Naming /\ rows \in [RowKeys -> TableRows \cup {None}] /\ open \subseteq Services
        /\ repeated \in [Services -> BOOLEAN] /\ met \in [Services -> SUBSET Exchanges]
        /\ \A x \in Exchanges : refreshed[x] = None \/ refreshed[x] \subseteq TableRows
    BY <1>1 DEF DbTypes
  <1> QED BY <1>3, <1>4 DEF DatabaseTypeOK
=============================================================================
