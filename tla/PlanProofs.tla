------------------------------ MODULE PlanProofs ------------------------------
(*******************************************************************************)
(* Proofs about the plan of a run, from what is submitted to the cases in their     *)
(* order (Submission, BenchCases), about the loop that runs them (TaskSequence), and  *)
(* about what a page, a command or the service asks for and what then runs            *)
(* (CasePages, CaseTable, CommandLine, VectorDatasets): for every catalogue of        *)
(* tasks, every form, command or post, every set of plans, with or without failures.  *)
(*******************************************************************************)
EXTENDS TaskSequence, Submission, FiniteSetTheorems, WellFoundedInduction, TLAPS

-------------------------------------------------------------------------------
(* Lists of the items of a list, by their places.                               *)

\* One place goes before another: by rank, then by itself.
Earlier(rank, m, i) == rank[m] < rank[i] \/ (rank[m] = rank[i] /\ m < i)

\* r lists the items of s at the places I, each once, so that of two that follow each
\* other the places are in the relation.
Lists(r, s, I, relation) ==
    /\ r \in Seq({s[i] : i \in I})
    /\ \E p \in [1..Len(r) -> I] :
          /\ \A i \in I : \E j \in 1..Len(r) : p[j] = i
          /\ \A j \in 1..Len(r) : r[j] = s[p[j]]
          /\ \A j, k \in 1..Len(r) : j # k => p[j] # p[k]
          /\ \A j, k \in 1..Len(r) : j < k => <<p[j], p[k]>> \in relation

\* Arranged lists its places, each before the next.
LEMMA ArrangedLists ==
    ASSUME NEW s, NEW I, NEW rank, NEW relation, IsFiniteSet(I), I \subseteq Nat,
           rank \in [I -> Nat],
           \A m, i \in I : Earlier(rank, m, i) => <<m, i>> \in relation
    PROVE  Lists(Arranged(s, rank), s, I, relation)
<1> DEFINE n == Cardinality(I)
           UpTo(i) == {m \in I : rank[m] < rank[i] \/ (rank[m] = rank[i] /\ m <= i)}
           Place == [i \in I |-> Cardinality(UpTo(i))]
           p == [j \in 1..n |-> CHOOSE i \in I : Cardinality(UpTo(i)) = j]
           r == Arranged(s, rank)
<1>1. n \in Nat
  BY FS_CardinalityType
<1>2. ASSUME NEW i \in I PROVE IsFiniteSet(UpTo(i)) /\ Place[i] \in 1..n
  <2>1. UpTo(i) \in SUBSET I /\ i \in UpTo(i)
    OBVIOUS
  <2>2. IsFiniteSet(UpTo(i)) /\ Cardinality(UpTo(i)) <= n
    BY <2>1, FS_Subset
  <2>3. Cardinality(UpTo(i)) \in Nat /\ Cardinality(UpTo(i)) # 0
    BY <2>1, <2>2, FS_CardinalityType, FS_EmptySet
  <2> QED
    BY <1>1, <2>2, <2>3
<1>3. ASSUME NEW m \in I, NEW i \in I, Earlier(rank, m, i) PROVE Place[m] < Place[i]
  <2>1. UpTo(m) \in SUBSET UpTo(i) /\ i \in UpTo(i) /\ i \notin UpTo(m)
    <3>1. \A k \in I : rank[k] \in Nat /\ k \in Nat
      OBVIOUS
    <3>2. rank[m] < rank[i] \/ (rank[m] = rank[i] /\ m < i)
      BY <1>3 DEF Earlier
    <3>3. ASSUME NEW k \in UpTo(m) PROVE k \in UpTo(i)
      <4>1. k \in I /\ (rank[k] < rank[m] \/ (rank[k] = rank[m] /\ k <= m))
        OBVIOUS
      <4>2. rank[k] < rank[i] \/ (rank[k] = rank[i] /\ k <= i)
        BY <3>1, <3>2, <4>1
      <4> QED
        BY <4>1, <4>2
    <3>4. i \in UpTo(i)
      BY <3>1
    <3>5. ~(rank[i] < rank[m] \/ (rank[i] = rank[m] /\ i <= m))
      BY <3>1, <3>2
    <3> QED
      BY <3>3, <3>4, <3>5
  <2>2. Cardinality(UpTo(m)) <= Cardinality(UpTo(i)) /\ Cardinality(UpTo(m)) # Cardinality(UpTo(i))
    BY <1>2, <2>1, FS_Subset
  <2> QED
    BY <1>1, <1>2, <2>2
<1>4. \A m, i \in I : Earlier(rank, m, i) \/ Earlier(rank, i, m) \/ m = i
  BY DEF Earlier
<1> HIDE DEF UpTo
<1>5. Place \in Injection(I, 1..n)
  <2>1. Place \in [I -> 1..n]
    BY <1>2
  <2>2. \A m, i \in I : Place[m] = Place[i] => m = i
    BY <1>1, <1>2, <1>3, <1>4
  <2> QED
    BY <2>1, <2>2 DEF Injection, IsInjective
<1>6. Place \in Surjection(I, 1..n)
  <2>1. IsFiniteSet(1..n) /\ Cardinality(1..n) = n
    BY <1>1, FS_Interval
  <2> QED
    BY <1>5, <2>1, FS_Injection
<1>7. \A j \in 1..n : p[j] \in I /\ Place[p[j]] = j
  <2>1. \A j \in 1..n : \E i \in I : Cardinality(UpTo(i)) = j
    BY <1>6 DEF Surjection
  <2> QED
    BY <2>1
<1>8. r = [j \in 1..n |-> s[p[j]]]
  BY DEF Arranged, UpTo
<1>9. r \in Seq({s[i] : i \in I}) /\ Len(r) = n
  <2>1. \A j \in 1..n : s[p[j]] \in {s[i] : i \in I}
    BY <1>7
  <2> HIDE DEF p, r
  <2> QED
    BY <1>1, <1>8, <2>1
<1>10. \A i \in I : \E j \in 1..n : p[j] = i
  <2> TAKE i \in I
  <2>1. Place[i] \in 1..n
    BY <1>2
  <2>2. Place[p[Place[i]]] = Place[i] /\ p[Place[i]] \in I
    BY <1>7, <2>1
  <2> QED
    BY <1>5, <2>1, <2>2 DEF Injection, IsInjective
<1>11. \A j, k \in 1..n : j # k => p[j] # p[k]
  BY <1>7
<1>12. \A j, k \in 1..n : j < k => <<p[j], p[k]>> \in relation
  <2> TAKE j, k \in 1..n
  <2> HAVE j < k
  <2>1. ~(Place[p[k]] < Place[p[j]]) /\ p[j] # p[k]
    BY <1>1, <1>7, <1>11
  <2>2. Earlier(rank, p[j], p[k])
    BY <1>3, <1>4, <1>7, <2>1
  <2> QED
    BY <1>7, <2>2
<1>13. p \in [1..n -> I]
  BY <1>7
<1> HIDE DEF p, r
<1>14. \A j \in 1..Len(r) : r[j] = s[p[j]]
  BY <1>8, <1>9
<1> QED
  BY <1>9, <1>10, <1>11, <1>12, <1>13, <1>14 DEF Lists, r

\* Sequences may be seen as sequences over a larger set.
LEMMA SeqMore ==
    ASSUME NEW S, NEW T, S \subseteq T, NEW q \in Seq(S)
    PROVE  q \in Seq(T)
OBVIOUS

\* What two lists of different places are together, all of the first before all of
\* the second.
LEMMA ListsJoin ==
    ASSUME NEW a, NEW b, NEW s, NEW I, NEW J, NEW relation,
           Lists(a, s, I, relation), Lists(b, s, J, relation), I \cap J = {},
           \A i \in I, j \in J : <<i, j>> \in relation
    PROVE  Lists(a \o b, s, I \cup J, relation)
<1> DEFINE S == {s[i] : i \in I \cup J}
           r == a \o b
           m == Len(a)
           n == Len(b)
<1>1. a \in Seq(S) /\ b \in Seq(S)
  <2>1. a \in Seq({s[i] : i \in I}) /\ b \in Seq({s[i] : i \in J})
    BY DEF Lists
  <2>2. {s[i] : i \in I} \subseteq S /\ {s[i] : i \in J} \subseteq S
    OBVIOUS
  <2> HIDE DEF S
  <2> QED
    BY <2>1, <2>2, SeqMore
<1>2. PICK p \in [1..m -> I] :
        /\ \A i \in I : \E j \in 1..m : p[j] = i
        /\ \A j \in 1..m : a[j] = s[p[j]]
        /\ \A j, k \in 1..m : j # k => p[j] # p[k]
        /\ \A j, k \in 1..m : j < k => <<p[j], p[k]>> \in relation
  BY DEF Lists
<1>3. PICK q \in [1..n -> J] :
        /\ \A i \in J : \E j \in 1..n : q[j] = i
        /\ \A j \in 1..n : b[j] = s[q[j]]
        /\ \A j, k \in 1..n : j # k => q[j] # q[k]
        /\ \A j, k \in 1..n : j < k => <<q[j], q[k]>> \in relation
  BY DEF Lists
<1>4. m \in Nat /\ n \in Nat
  BY <1>1
<1>5. r \in Seq(S) /\ Len(r) = m + n
  <2> HIDE DEF S
  <2> QED
    BY <1>1
<1>6. \A j \in 1..m : r[j] = a[j]
  <2> HIDE DEF S
  <2> QED
    BY <1>1
<1>7. \A j \in 1..n : r[m + j] = b[j]
  <2> HIDE DEF S
  <2> QED
    BY <1>1
<1> HIDE DEF S, r, m, n
<1> DEFINE pq == [j \in 1..(m + n) |-> IF j <= m THEN p[j] ELSE q[j - m]]
<1>8. \A j \in 1..(m + n) : (j <= m /\ j \in 1..m) \/ (j > m /\ j - m \in 1..n /\ m + (j - m) = j)
  BY <1>4
<1>9. /\ \A j \in 1..m : j \in 1..(m + n) /\ pq[j] = p[j] /\ pq[j] \in I
      /\ \A j \in 1..n : m + j \in 1..(m + n) /\ pq[m + j] = q[j] /\ pq[m + j] \in J
  BY <1>4
<1>10. pq \in [1..(m + n) -> I \cup J]
  BY <1>8
<1>11. ASSUME NEW j \in 1..(m + n)
       PROVE  \/ j \in 1..m /\ pq[j] = p[j] /\ pq[j] \in I /\ r[j] = a[j]
              \/ j > m /\ j - m \in 1..n /\ pq[j] = q[j - m] /\ pq[j] \in J /\ r[j] = b[j - m]
  BY <1>4, <1>6, <1>7, <1>8
<1> HIDE DEF pq
<1>12. \A i \in I \cup J : \E j \in 1..(m + n) : pq[j] = i
  <2>1. ASSUME NEW i \in I PROVE \E j \in 1..(m + n) : pq[j] = i
    BY <1>2, <1>9
  <2>2. ASSUME NEW i \in J PROVE \E j \in 1..(m + n) : pq[j] = i
    BY <1>3, <1>9
  <2> QED
    BY <2>1, <2>2
<1>13. \A j \in 1..(m + n) : r[j] = s[pq[j]]
  BY <1>2, <1>3, <1>11
<1>14. ASSUME NEW j \in 1..(m + n), NEW k \in 1..(m + n), j # k PROVE pq[j] # pq[k]
  <2>1. CASE j \in 1..m /\ k \in 1..m
    BY <1>2, <1>9, <1>14, <2>1
  <2>2. CASE j > m /\ k > m
    <3>1. j - m \in 1..n /\ k - m \in 1..n /\ j - m # k - m
      BY <1>4, <1>8, <1>14, <2>2
    <3> QED
      BY <1>3, <1>4, <1>11, <2>2, <3>1
  <2> QED
    BY <1>4, <1>8, <1>11, <2>1, <2>2
<1>15. ASSUME NEW j \in 1..(m + n), NEW k \in 1..(m + n), j < k
       PROVE  <<pq[j], pq[k]>> \in relation
  <2>1. CASE j \in 1..m /\ k \in 1..m
    BY <1>2, <1>9, <1>15, <2>1
  <2>2. CASE j > m /\ k > m
    <3>1. j - m \in 1..n /\ k - m \in 1..n /\ j - m < k - m
      BY <1>4, <1>8, <1>15, <2>2
    <3>2. pq[j] = q[j - m] /\ pq[k] = q[k - m]
      BY <1>4, <1>11, <2>2
    <3> QED
      BY <1>3, <3>1, <3>2
  <2>3. CASE j \in 1..m /\ k > m
    BY <1>4, <1>11, <2>3
  <2> QED
    BY <1>4, <1>8, <1>15, <2>1, <2>2, <2>3
<1>16. /\ pq \in [1..Len(r) -> I \cup J]
       /\ \A i \in I \cup J : \E j \in 1..Len(r) : pq[j] = i
       /\ \A j \in 1..Len(r) : r[j] = s[pq[j]]
       /\ \A j, k \in 1..Len(r) : j # k => pq[j] # pq[k]
       /\ \A j, k \in 1..Len(r) : j < k => <<pq[j], pq[k]>> \in relation
  <2>1. 1..Len(r) = 1..(m + n)
    BY <1>5
  <2> QED
    BY ONLY <2>1, <1>10, <1>12, <1>13, <1>14, <1>15
<1>17. Lists(r, s, I \cup J, relation)
  BY <1>5, <1>16 DEF Lists, S
<1> QED
  BY <1>17 DEF r

\* The items of a are those of s at the places p; the places K of a are the places P of s,
\* and what stands in one relation there stands in the other here.
Carries(p, a, s, K, P, inner, relation) ==
    /\ \A j \in 1..Len(a) : a[j] = s[p[j]]
    /\ \A j, k \in 1..Len(a) : j # k => p[j] # p[k]
    /\ K \subseteq 1..Len(a)
    /\ \A j, k \in K : <<j, k>> \in inner => <<p[j], p[k]>> \in relation
    /\ \A k \in K : p[k] \in P
    /\ \A i \in P : \E k \in K : p[k] = i

\* A list of a list, in terms of what the latter lists.
LEMMA ListsThrough ==
    ASSUME NEW p, NEW a, NEW b, NEW s, NEW K, NEW P, NEW inner, NEW relation,
           Carries(p, a, s, K, P, inner, relation), Lists(b, a, K, inner)
    PROVE  Lists(b, s, P, relation)
<1> USE DEF Carries
<1> DEFINE L == Len(b)
<1>1. PICK q \in [1..L -> K] :
        /\ \A i \in K : \E j \in 1..L : q[j] = i
        /\ \A j \in 1..L : b[j] = a[q[j]]
        /\ \A j, k \in 1..L : j # k => q[j] # q[k]
        /\ \A j, k \in 1..L : j < k => <<q[j], q[k]>> \in inner
  BY DEF Lists
<1>2. {a[k] : k \in K} \subseteq {s[i] : i \in P}
  <2>1. \A k \in K : a[k] = s[p[k]] /\ p[k] \in P
    OBVIOUS
  <2> QED
    BY <2>1
<1>3. b \in Seq({s[i] : i \in P})
  <2>1. b \in Seq({a[k] : k \in K})
    BY DEF Lists
  <2> QED
    BY <1>2, <2>1, SeqMore
<1> DEFINE pq == [j \in 1..L |-> p[q[j]]]
<1>4. pq \in [1..L -> P] /\ \A j \in 1..L : pq[j] = p[q[j]] /\ q[j] \in K /\ q[j] \in 1..Len(a)
  OBVIOUS
<1> HIDE DEF pq, L
<1>5. \A i \in P : \E j \in 1..L : pq[j] = i
  BY <1>1, <1>4
<1>6. \A j \in 1..L : b[j] = s[pq[j]]
  BY <1>1, <1>4
<1>7. \A j, k \in 1..L : j # k => pq[j] # pq[k]
  BY <1>1, <1>4
<1>8. ASSUME NEW j \in 1..L, NEW k \in 1..L, j < k PROVE <<pq[j], pq[k]>> \in relation
  <2>1. <<q[j], q[k]>> \in inner /\ q[j] \in K /\ q[k] \in K
    BY <1>1, <1>8
  <2>2. <<p[q[j]], p[q[k]]>> \in relation
    BY <2>1
  <2> QED
    BY <1>4, <2>2
<1> QED
  BY <1>3, <1>4, <1>5, <1>6, <1>7, <1>8 DEF Lists, L

LEMMA LeastOfNumbers ==
    ASSUME NEW numbers \in SUBSET Nat, numbers # {}
    PROVE  \E least \in numbers : \A n \in numbers : least <= n
<1>1. OpToRel(<, Nat) = {p \in Nat \X Nat : p[1] < p[2]}
  BY DEF OpToRel
<1>2. PICK least \in numbers : \A n \in numbers : <<n, least>> \notin OpToRel(<, Nat)
  BY NatLessThanWellFounded, WFMin
<1>3. ASSUME NEW n \in numbers PROVE least <= n
  <2>1. <<n, least>> \notin {p \in Nat \X Nat : p[1] < p[2]}
    BY <1>1, <1>2
  <2> QED
    BY <2>1
<1> QED
  BY <1>3

\* f runs over the first n sequences of ss and joins each to those before.
Joins(f, ss, n) == f = [i \in 1..n |-> IF i = 1 THEN ss[i] ELSE f[i - 1] \o ss[i]]

\* There is such a function; the least n without one would follow one that has one.
LEMMA JoinsExist ==
    ASSUME NEW ss, NEW n \in Nat
    PROVE  \E f : Joins(f, ss, n)
<1> DEFINE without == {m \in Nat : ~ \E f : Joins(f, ss, m)}
<1> SUFFICES ASSUME without # {} PROVE FALSE
  OBVIOUS
<1>1. PICK m \in without : \A k \in without : m <= k
  BY LeastOfNumbers
<1>2. m \in Nat /\ ~ \E f : Joins(f, ss, m)
  BY <1>1
<1>3. m # 0
  <2>1. Joins([i \in {} |-> 0], ss, 0)
    BY DEF Joins
  <2> QED
    BY <1>2, <2>1
<1>4. m - 1 \in Nat /\ m - 1 \notin without
  BY <1>1, <1>2, <1>3
<1>5. PICK f : Joins(f, ss, m - 1)
  BY <1>4
<1> DEFINE last == IF m = 1 THEN ss[m] ELSE f[m - 1] \o ss[m]
           g == [i \in 1..m |-> IF i = m THEN last ELSE f[i]]
<1>6. ASSUME NEW i \in 1..m PROVE g[i] = IF i = 1 THEN ss[i] ELSE g[i - 1] \o ss[i]
  <2>1. CASE i = m
    <3>1. m # 1 => m - 1 \in 1..m /\ g[m - 1] = f[m - 1]
      BY <1>2, <1>3
    <3>2. g[m] = last
      BY <1>2, <1>3
    <3> QED
      BY <2>1, <3>1, <3>2
  <2>2. CASE i # m
    <3>1. i \in 1..(m - 1) /\ g[i] = f[i]
      BY <1>2, <2>2
    <3>2. f[i] = IF i = 1 THEN ss[i] ELSE f[i - 1] \o ss[i]
      BY <1>5, <3>1 DEF Joins
    <3>3. i # 1 => i - 1 \in 1..m /\ g[i - 1] = f[i - 1]
      BY <1>2, <3>1
    <3> QED
      BY <3>1, <3>2, <3>3
  <2> QED
    BY <2>1, <2>2
<1>7. Joins(g, ss, m)
  BY <1>6 DEF Joins
<1> QED
  BY <1>2, <1>7

\* What FlattenSeq returns: such a function at its last place.
LEMMA FlattenIsJoined ==
    ASSUME NEW ss, NEW n \in Nat \ {0}, Len(ss) = n
    PROVE  \E f : Joins(f, ss, n) /\ FlattenSeq(ss) = f[n]
<1> DEFINE F == CHOOSE f : f = [i \in 1..n |-> IF i = 1 THEN ss[i] ELSE f[i - 1] \o ss[i]]
<1>1. F = [i \in 1..n |-> IF i = 1 THEN ss[i] ELSE F[i - 1] \o ss[i]]
  BY JoinsExist DEF Joins
<1>2. FlattenSeq(ss) = F[n]
  BY DEF FlattenSeq
<1> QED
  BY <1>1, <1>2 DEF Joins

\* What lists of different places are together.
LEMMA ListsFlatten ==
    ASSUME NEW ss, NEW n \in Nat \ {0}, Len(ss) = n, NEW s, NEW places, NEW relation,
           \A i \in 1..n : Lists(ss[i], s, places[i], relation),
           \A i, j \in 1..n : i < j =>
              /\ places[i] \cap places[j] = {}
              /\ \A a \in places[i], b \in places[j] : <<a, b>> \in relation
    PROVE  Lists(FlattenSeq(ss), s, UNION {places[i] : i \in 1..n}, relation)
<1>1. PICK f : Joins(f, ss, n) /\ FlattenSeq(ss) = f[n]
  BY FlattenIsJoined
<1> DEFINE UpTo(m) == UNION {places[i] : i \in 1..m}
           Good(m) == Lists(f[m], s, UpTo(m), relation)
           wrong == {m \in 1..n : ~ Good(m)}
<1>2. UpTo(1) = places[1]
  OBVIOUS
<1>3. ASSUME NEW m \in 1..n, m # 1
      PROVE  /\ UpTo(m) = UpTo(m - 1) \cup places[m]
             /\ UpTo(m - 1) \cap places[m] = {}
             /\ \A a \in UpTo(m - 1), b \in places[m] : <<a, b>> \in relation
  <2>1. 1..m = (1..(m - 1)) \cup {m}
    BY <1>3
  <2>2. \A i \in 1..(m - 1) : i \in 1..n /\ i < m
    BY <1>3
  <2> QED
    BY <2>1, <2>2
<1> HIDE DEF UpTo
<1>4. ASSUME NEW m \in 1..n PROVE f[m] = IF m = 1 THEN ss[m] ELSE f[m - 1] \o ss[m]
  BY <1>1 DEF Joins
<1>5. Good(1)
  <2>1. f[1] = ss[1] /\ 1 \in 1..n
    BY <1>4
  <2> QED
    BY <1>2, <2>1
<1>6. ASSUME NEW m \in 1..n, m # 1, Good(m - 1) PROVE Good(m)
  <2>1. Lists(f[m - 1], s, UpTo(m - 1), relation) /\ Lists(ss[m], s, places[m], relation)
    BY <1>6
  <2>2. Lists(f[m - 1] \o ss[m], s, UpTo(m - 1) \cup places[m], relation)
    BY <1>3, <1>6, <2>1, ListsJoin
  <2> QED
    BY <1>3, <1>4, <1>6, <2>2
<1> HIDE DEF Good
<1>7. ASSUME wrong # {} PROVE FALSE
  <2>1. PICK m \in wrong : \A k \in wrong : m <= k
    <3>1. wrong \in SUBSET Nat
      OBVIOUS
    <3> HIDE DEF wrong
    <3> QED
      BY <1>7, <3>1, LeastOfNumbers
  <2>2. m \in 1..n /\ ~ Good(m) /\ m # 1
    BY <1>5, <2>1
  <2>3. m - 1 \in 1..n /\ ~ m <= m - 1
    BY <2>2
  <2>4. Good(m - 1)
    BY <2>1, <2>3
  <2> QED
    BY <1>6, <2>2, <2>4
<1>8. Good(n)
  BY <1>7
<1> QED
  BY <1>1, <1>8 DEF Good, UpTo

-------------------------------------------------------------------------------
(* The order of assemble_all.                                                    *)

\* What the order looks at in a task.
Orderable(S) == \A t \in S : t.label \in Labels /\ t.size \in Nat /\ t.streq \in BOOLEAN

\* A list comprehension lists its places in their order.
LEMMA AtPlacesLists ==
    ASSUME NEW S, NEW tasks \in Seq(S), NEW I, I \subseteq DOMAIN tasks, NEW relation,
           \A m, i \in I : m < i => <<m, i>> \in relation
    PROVE  Lists(AtPlaces(tasks, I), tasks, I, relation)
<1> DEFINE rank == [i \in I |-> 0]
<1>1. DOMAIN tasks = 1..Len(tasks) /\ Len(tasks) \in Nat
  OBVIOUS
<1>2. IsFiniteSet(I) /\ I \subseteq Nat
  <2>1. IsFiniteSet(1..Len(tasks)) /\ I \in SUBSET (1..Len(tasks))
    BY <1>1, FS_Interval
  <2> QED
    BY <1>1, <2>1, FS_Subset
<1>3. rank \in [I -> Nat] /\ \A m, i \in I : Earlier(rank, m, i) => m < i
  BY DEF Earlier
<1>4. \A m, i \in I : Earlier(rank, m, i) => <<m, i>> \in relation
  BY <1>3
<1> HIDE DEF rank
<1>5. Lists(Arranged(tasks, rank), tasks, I, relation)
  BY <1>2, <1>3, <1>4, ArrangedLists
<1> QED
  BY <1>5 DEF AtPlaces, rank

\* The databases in their order: each of the tasks is one of them, and none is there
\* twice, for a place that is the first of its database is the only one.
LEMMA OrderHasEachDatabase ==
    ASSUME NEW S, NEW tasks \in Seq(S)
    PROVE  LET order == DatabaseOrder(tasks)
           IN  /\ \E D : order \in Seq(D)
               /\ \A i \in DOMAIN tasks : \E k \in DOMAIN order : order[k] = tasks[i].db
               /\ \A k, l \in DOMAIN order : order[k] = order[l] => k = l
<1> DEFINE dbs == [i \in DOMAIN tasks |-> tasks[i].db]
           firsts == {i \in DOMAIN tasks : \A m \in 1..(i - 1) : tasks[m].db # tasks[i].db}
           D == {dbs[i] : i \in DOMAIN tasks}
           order == DatabaseOrder(tasks)
           every == (DOMAIN tasks) \X (DOMAIN tasks)
<1>1. DOMAIN tasks = 1..Len(tasks) /\ Len(tasks) \in Nat
  OBVIOUS
<1>2. dbs \in Seq(D) /\ DOMAIN dbs = DOMAIN tasks
  <2>1. \A i \in 1..Len(tasks) : dbs[i] \in D
    BY <1>1
  <2>2. dbs = [i \in 1..Len(tasks) |-> dbs[i]]
    BY <1>1
  <2> HIDE DEF dbs, D
  <2> QED
    BY <1>1, <2>1, <2>2
<1>3. firsts \subseteq DOMAIN dbs /\ \A m, i \in firsts : <<m, i>> \in every
  BY <1>2
<1>4. Lists(order, dbs, firsts, every)
  <2> HIDE DEF dbs, D, every, firsts
  <2>1. Lists(AtPlaces(dbs, firsts), dbs, firsts, every)
    BY <1>2, <1>3, AtPlacesLists
  <2> QED
    BY <2>1 DEF DatabaseOrder, dbs, firsts
<1>5. order \in Seq({dbs[i] : i \in firsts})
  BY <1>4 DEF Lists
<1>6. PICK p \in [1..Len(order) -> firsts] :
        /\ \A i \in firsts : \E j \in 1..Len(order) : p[j] = i
        /\ \A j \in 1..Len(order) : order[j] = dbs[p[j]]
        /\ \A j, k \in 1..Len(order) : j # k => p[j] # p[k]
  BY <1>4 DEF Lists
<1>7. DOMAIN order = 1..Len(order)
  BY <1>5
<1>8. ASSUME NEW i \in DOMAIN tasks PROVE \E m \in firsts : tasks[m].db = tasks[i].db
  <2> DEFINE same == {m \in DOMAIN tasks : tasks[m].db = tasks[i].db}
  <2>1. same \in SUBSET Nat /\ same # {}
    BY <1>1
  <2>2. PICK m \in same : \A k \in same : m <= k
    <3> HIDE DEF same
    <3> QED
      BY <2>1, LeastOfNumbers
  <2>3. \A k \in 1..(m - 1) : k \in DOMAIN tasks /\ ~ m <= k
    BY <1>1, <2>2
  <2> QED
    BY <2>2, <2>3
<1>9. \A m, i \in firsts : tasks[m].db = tasks[i].db => m = i
  <2> TAKE m, i \in firsts
  <2>1. m \in Nat /\ i \in Nat /\ m >= 1 /\ i >= 1
    BY <1>1
  <2>2. m < i => m \in 1..(i - 1)
    BY <2>1
  <2>3. i < m => i \in 1..(m - 1)
    BY <2>1
  <2> QED
    BY <2>1, <2>2, <2>3
<1>10. \A j \in 1..Len(order) : p[j] \in firsts /\ order[j] = tasks[p[j]].db
  BY <1>2, <1>6
<1> HIDE DEF firsts, dbs, D
<1>11. \A i \in DOMAIN tasks : \E k \in DOMAIN order : order[k] = tasks[i].db
  BY <1>6, <1>7, <1>8, <1>10
<1>12. \A k, l \in DOMAIN order : order[k] = order[l] => k = l
  BY <1>6, <1>7, <1>9, <1>10
<1> QED
  BY <1>5, <1>11, <1>12

\* The place of a database in the order.
PlaceOf(tasks, db) == CHOOSE k \in DOMAIN DatabaseOrder(tasks) : DatabaseOrder(tasks)[k] = db

\* Of two tasks of one database that are searched, which sorts before the other.
SortsBefore(a, b, m, i) ==
    SortRank(a) < SortRank(b) \/ (SortRank(a) = SortRank(b) /\ m < i)

\* The order of group_by and sort, between places of tasks.
GroupOrder(tasks) ==
    {mi \in (DOMAIN tasks) \X (DOMAIN tasks) :
        LET a == tasks[mi[1]]
            b == tasks[mi[2]]
        IN  \/ PlaceOf(tasks, a.db) < PlaceOf(tasks, b.db)
            \/ a.db = b.db /\ SortsBefore(a, b, mi[1], mi[2])}

LEMMA GroupOrderHas ==
    ASSUME NEW tasks, NEW m \in DOMAIN tasks, NEW i \in DOMAIN tasks
    PROVE  <<m, i>> \in GroupOrder(tasks) <=>
              \/ PlaceOf(tasks, tasks[m].db) < PlaceOf(tasks, tasks[i].db)
              \/ tasks[m].db = tasks[i].db /\ SortsBefore(tasks[m], tasks[i], m, i)
BY DEF GroupOrder

LEMMA RankIsNatural ==
    ASSUME NEW S, Orderable(S), NEW t \in S
    PROVE  SortRank(t) \in Nat
BY DEF Orderable, SortRank

\* The tasks of one database, sorted.
LEMMA SortedLists ==
    ASSUME NEW S, Orderable(S), NEW tasks \in Seq(S), NEW db
    PROVE  Lists(StableSort(OfDb(tasks, db)), tasks, {i \in DOMAIN tasks : tasks[i].db = db},
                 GroupOrder(tasks))
<1> DEFINE I == {i \in DOMAIN tasks : tasks[i].db = db}
           up == {mi \in (DOMAIN tasks) \X (DOMAIN tasks) : mi[1] < mi[2]}
           a == OfDb(tasks, db)
           L == Len(a)
           rank == [k \in 1..L |-> SortRank(a[k])]
           inner == {jk \in (1..L) \X (1..L) : Earlier(rank, jk[1], jk[2])}
           b == StableSort(a)
<1>1. Lists(a, tasks, I, up)
  <2>1. I \subseteq DOMAIN tasks /\ \A m, i \in I : m < i => <<m, i>> \in up
    OBVIOUS
  <2> HIDE DEF up
  <2>2. Lists(AtPlaces(tasks, I), tasks, I, up)
    BY <2>1, AtPlacesLists
  <2> QED
    BY <2>2 DEF OfDb
<1>2. a \in Seq({tasks[i] : i \in I})
  BY <1>1 DEF Lists
<1>3. {tasks[i] : i \in I} \subseteq S
  OBVIOUS
<1>4. a \in Seq(S) /\ L \in Nat /\ DOMAIN a = 1..L
  <2>1. a \in Seq(S)
    BY <1>2, <1>3, SeqMore
  <2> QED
    BY <2>1
<1>5. PICK p \in [1..L -> I] :
        /\ \A i \in I : \E j \in 1..L : p[j] = i
        /\ \A j \in 1..L : a[j] = tasks[p[j]]
        /\ \A j, k \in 1..L : j # k => p[j] # p[k]
        /\ \A j, k \in 1..L : j < k => <<p[j], p[k]>> \in up
  BY <1>1 DEF Lists
<1>6. rank \in [1..L -> Nat]
  <2>1. \A k \in 1..L : a[k] \in S
    BY <1>4
  <2> QED
    BY <2>1, RankIsNatural
<1>7. Lists(b, a, 1..L, inner)
  <2>1. IsFiniteSet(1..L) /\ 1..L \subseteq Nat
    BY <1>4, FS_Interval
  <2>2. \A m, i \in 1..L : Earlier(rank, m, i) => <<m, i>> \in inner
    OBVIOUS
  <2>3. b = Arranged(a, rank)
    BY <1>4 DEF StableSort
  <2> HIDE DEF inner, rank, b, a, L
  <2> QED
    BY <1>6, <2>1, <2>2, <2>3, ArrangedLists
<1>8. ASSUME NEW j \in 1..L, NEW k \in 1..L, <<j, k>> \in inner
      PROVE  <<p[j], p[k]>> \in GroupOrder(tasks)
  <2>1. Earlier(rank, j, k)
    BY <1>8
  <2>2. /\ rank[j] = SortRank(tasks[p[j]]) /\ rank[k] = SortRank(tasks[p[k]])
        /\ p[j] \in I /\ p[k] \in I
    BY <1>5
  <2>3. j < k => p[j] < p[k]
    BY <1>5
  <2>4. SortsBefore(tasks[p[j]], tasks[p[k]], p[j], p[k])
    <3> HIDE DEF rank, L, up, I
    <3> QED
      BY <2>1, <2>2, <2>3 DEF Earlier, SortsBefore
  <2>5. tasks[p[j]].db = tasks[p[k]].db /\ p[j] \in DOMAIN tasks /\ p[k] \in DOMAIN tasks
    BY <2>2
  <2> QED
    BY <2>4, <2>5, GroupOrderHas
<1> DEFINE K == 1..L
<1> HIDE DEF I, a, b, inner, rank
<1>9. Carries(p, a, tasks, K, I, inner, GroupOrder(tasks))
  BY <1>5, <1>8 DEF Carries
<1>10. Lists(b, a, K, inner)
  BY <1>7
<1>11. Lists(b, tasks, I, GroupOrder(tasks))
  BY <1>9, <1>10, ListsThrough
<1> QED
  BY <1>11 DEF I, b, a

\* An empty list lists nothing.
LEMMA EmptyLists ==
    ASSUME NEW s, NEW relation
    PROVE  Lists(<<>>, s, {}, relation)
<1>1. <<>> \in Seq({s[i] : i \in {}}) /\ Len(<<>>) = 0
  OBVIOUS
<1>2. [j \in 1..0 |-> 0] \in [1..0 -> {}]
  OBVIOUS
<1> QED
  BY <1>1, <1>2 DEF Lists

\* The groups of the databases, one after the other.
LEMMA GroupsList ==
    ASSUME NEW S, Orderable(S), NEW tasks \in Seq(S)
    PROVE  Lists(GroupByDb(tasks), tasks, DOMAIN tasks, GroupOrder(tasks))
<1> DEFINE order == DatabaseOrder(tasks)
           n == Len(order)
           ss == [k \in DOMAIN order |-> StableSort(OfDb(tasks, order[k]))]
           places == [k \in 1..n |-> {i \in DOMAIN tasks : tasks[i].db = order[k]}]
<1>1. /\ \E D : order \in Seq(D)
      /\ \A i \in DOMAIN tasks : \E k \in DOMAIN order : order[k] = tasks[i].db
      /\ \A k, l \in DOMAIN order : order[k] = order[l] => k = l
  BY OrderHasEachDatabase
<1>2. n \in Nat /\ DOMAIN order = 1..n
  BY <1>1
<1>3. ss = [k \in 1..n |-> StableSort(OfDb(tasks, order[k]))] /\ Len(ss) = n
  BY <1>2
<1>4. \A k \in 1..n : PlaceOf(tasks, order[k]) = k
  BY <1>1, <1>2 DEF PlaceOf
<1>5. UNION {places[k] : k \in 1..n} = DOMAIN tasks
  <2>1. ASSUME NEW i \in DOMAIN tasks PROVE \E k \in 1..n : i \in places[k]
    <3>1. PICK k \in 1..n : order[k] = tasks[i].db
      BY <1>1, <1>2
    <3> QED
      BY <3>1
  <2>2. \A k \in 1..n : places[k] \subseteq DOMAIN tasks
    OBVIOUS
  <2> HIDE DEF places
  <2> QED
    BY <2>1, <2>2
<1>6. ASSUME NEW k \in 1..n PROVE Lists(ss[k], tasks, places[k], GroupOrder(tasks))
  <2>1. ss[k] = StableSort(OfDb(tasks, order[k]))
    BY <1>3
  <2>2. places[k] = {i \in DOMAIN tasks : tasks[i].db = order[k]}
    OBVIOUS
  <2> QED
    BY <2>1, <2>2, SortedLists
<1>7. ASSUME NEW k \in 1..n, NEW l \in 1..n, k < l
      PROVE  /\ places[k] \cap places[l] = {}
             /\ \A a \in places[k], b \in places[l] : <<a, b>> \in GroupOrder(tasks)
  <2>1. order[k] # order[l]
    BY <1>1, <1>2, <1>7
  <2>2. places[k] \cap places[l] = {}
    BY <2>1
  <2>3. ASSUME NEW a \in places[k], NEW b \in places[l] PROVE <<a, b>> \in GroupOrder(tasks)
    <3>1. /\ a \in DOMAIN tasks /\ tasks[a].db = order[k]
          /\ b \in DOMAIN tasks /\ tasks[b].db = order[l]
      OBVIOUS
    <3>2. PlaceOf(tasks, tasks[a].db) < PlaceOf(tasks, tasks[b].db)
      BY <1>4, <1>7, <3>1
    <3> QED
      BY <3>1, <3>2, GroupOrderHas
  <2> QED
    BY <2>2, <2>3
<1>8. GroupByDb(tasks) = FlattenSeq(ss)
  BY DEF GroupByDb
<1> HIDE DEF ss, places
<1>9. CASE n # 0
  <2>1. n \in Nat \ {0} /\ Len(ss) = n
    BY <1>2, <1>3, <1>9
  <2> HIDE DEF n
  <2>2. Lists(FlattenSeq(ss), tasks, UNION {places[k] : k \in 1..n}, GroupOrder(tasks))
    BY <1>6, <1>7, <2>1, ListsFlatten
  <2> QED
    BY <1>5, <1>8, <2>2
<1>10. CASE n = 0
  <2>1. DOMAIN tasks = {}
    BY <1>5, <1>10
  <2>2. FlattenSeq(ss) = ss
    BY <1>3, <1>10 DEF FlattenSeq
  <2>3. ss = <<>>
    BY <1>3, <1>10
  <2> QED
    BY <1>8, <2>1, <2>2, <2>3, EmptyLists
<1> QED
  BY <1>9, <1>10

\* The five parts of a run, in their order.
Part(label) ==
    CASE label = "Load" -> 1
      [] label = "Streaming" -> 2
      [] label = "CloudInsert" -> 3
      [] label \in {"Performance", "CloudColdLatency"} -> 4
      [] label = "FullTextSearch" -> 5

Searched(tasks) == {i \in DOMAIN tasks : tasks[i].label \in {"Performance", "CloudColdLatency"}}

\* Performance cases before cold-latency cases, and as submitted.
SearchOrder(tasks) ==
    {mi \in (DOMAIN tasks) \X (DOMAIN tasks) :
        \/ tasks[mi[1]].label = "Performance" /\ tasks[mi[2]].label = "CloudColdLatency"
        \/ tasks[mi[1]].label = tasks[mi[2]].label /\ mi[1] < mi[2]}

\* Of two search cases: the database met first, then the sort key, then those.
SearchPrecedes(tasks, m, i) ==
    LET a == tasks[m]
        b == tasks[i]
        found == SearchFilterTasks(tasks)
    IN  \/ PlaceOf(found, a.db) < PlaceOf(found, b.db)
        \/ /\ a.db = b.db
           /\ \/ SortRank(a) < SortRank(b)
              \/ SortRank(a) = SortRank(b) /\ <<m, i>> \in SearchOrder(tasks)

\* The order of a run, between places of the tasks submitted.
RunOrder(tasks) ==
    {mi \in (DOMAIN tasks) \X (DOMAIN tasks) :
        LET a == tasks[mi[1]]
            b == tasks[mi[2]]
        IN  \/ Part(a.label) < Part(b.label)
            \/ Part(a.label) = Part(b.label) /\ Part(a.label) # 4 /\ mi[1] < mi[2]
            \/ Part(a.label) = 4 /\ Part(b.label) = 4 /\ SearchPrecedes(tasks, mi[1], mi[2])}

LEMMA RunOrderHas ==
    ASSUME NEW tasks, NEW m \in DOMAIN tasks, NEW i \in DOMAIN tasks
    PROVE  <<m, i>> \in RunOrder(tasks) <=>
              \/ Part(tasks[m].label) < Part(tasks[i].label)
              \/ /\ Part(tasks[m].label) = Part(tasks[i].label) /\ Part(tasks[m].label) # 4
                 /\ m < i
              \/ /\ Part(tasks[m].label) = 4 /\ Part(tasks[i].label) = 4
                 /\ SearchPrecedes(tasks, m, i)
BY DEF RunOrder

LEMMA SearchOrderHas ==
    ASSUME NEW tasks, NEW m \in DOMAIN tasks, NEW i \in DOMAIN tasks
    PROVE  <<m, i>> \in SearchOrder(tasks) <=>
              \/ tasks[m].label = "Performance" /\ tasks[i].label = "CloudColdLatency"
              \/ tasks[m].label = tasks[i].label /\ m < i
BY DEF SearchOrder

LEMMA PartOfLabel ==
    ASSUME NEW label \in Labels
    PROVE  /\ Part(label) \in 1..5
           /\ Part(label) = 4 <=> label \in {"Performance", "CloudColdLatency"}
           /\ Part(label) = 1 <=> label = "Load"
           /\ Part(label) = 2 <=> label = "Streaming"
           /\ Part(label) = 3 <=> label = "CloudInsert"
           /\ Part(label) = 5 <=> label = "FullTextSearch"
BY DEF Part, Labels

\* The tasks of one label.
LEMMA WithLabelLists ==
    ASSUME NEW S, NEW tasks \in Seq(S), NEW label, NEW relation,
           \A m, i \in DOMAIN tasks :
              tasks[m].label = label /\ tasks[i].label = label /\ m < i => <<m, i>> \in relation
    PROVE  Lists(WithLabel(tasks, label), tasks,
                 {i \in DOMAIN tasks : tasks[i].label = label}, relation)
<1> DEFINE I == {i \in DOMAIN tasks : tasks[i].label = label}
<1>1. I \subseteq DOMAIN tasks /\ \A m, i \in I : m < i => <<m, i>> \in relation
  OBVIOUS
<1>2. Lists(AtPlaces(tasks, I), tasks, I, relation)
  BY <1>1, AtPlacesLists
<1> QED
  BY <1>2 DEF WithLabel

\* The search cases before they are grouped.
LEMMA SearchTasksList ==
    ASSUME NEW S, NEW tasks \in Seq(S)
    PROVE  Lists(SearchFilterTasks(tasks), tasks, Searched(tasks), SearchOrder(tasks))
<1> DEFINE I == {i \in DOMAIN tasks : tasks[i].label = "Performance"}
           J == {i \in DOMAIN tasks : tasks[i].label = "CloudColdLatency"}
<1>1. Lists(WithLabel(tasks, "Performance"), tasks, I, SearchOrder(tasks))
  BY WithLabelLists, SearchOrderHas
<1>2. Lists(WithLabel(tasks, "CloudColdLatency"), tasks, J, SearchOrder(tasks))
  BY WithLabelLists, SearchOrderHas
<1>3. I \cap J = {} /\ I \cup J = Searched(tasks)
  BY DEF Searched
<1>4. \A m \in I, i \in J : <<m, i>> \in SearchOrder(tasks)
  BY SearchOrderHas
<1> HIDE DEF I, J
<1>5. Lists(SearchFilterTasks(tasks), tasks, I \cup J, SearchOrder(tasks))
  BY <1>1, <1>2, <1>3, <1>4, ListsJoin DEF SearchFilterTasks
<1> QED
  BY <1>3, <1>5

\* The search cases as they run.
LEMMA SearchCasesList ==
    ASSUME NEW S, Orderable(S), NEW tasks \in Seq(S)
    PROVE  Lists(GroupByDb(SearchFilterTasks(tasks)), tasks, Searched(tasks), RunOrder(tasks))
<1> DEFINE found == SearchFilterTasks(tasks)
           L == Len(found)
           b == GroupByDb(found)
<1>1. Lists(found, tasks, Searched(tasks), SearchOrder(tasks))
  BY SearchTasksList
<1>2. PICK p \in [1..L -> Searched(tasks)] :
        /\ \A i \in Searched(tasks) : \E j \in 1..L : p[j] = i
        /\ \A j \in 1..L : found[j] = tasks[p[j]]
        /\ \A j, k \in 1..L : j # k => p[j] # p[k]
        /\ \A j, k \in 1..L : j < k => <<p[j], p[k]>> \in SearchOrder(tasks)
  BY <1>1 DEF Lists
<1>3. found \in Seq(S) /\ DOMAIN found = 1..L
  <2>1. found \in Seq({tasks[i] : i \in Searched(tasks)})
    BY <1>1 DEF Lists
  <2>2. {tasks[i] : i \in Searched(tasks)} \subseteq S
    BY DEF Searched
  <2>3. found \in Seq(S)
    BY <2>1, <2>2, SeqMore
  <2> QED
    BY <2>3
<1>4. Lists(b, found, 1..L, GroupOrder(found))
  BY <1>3, GroupsList
<1>5. ASSUME NEW j \in 1..L, NEW k \in 1..L, <<j, k>> \in GroupOrder(found)
      PROVE  <<p[j], p[k]>> \in RunOrder(tasks)
  <2>1. /\ p[j] \in Searched(tasks) /\ p[k] \in Searched(tasks)
        /\ found[j] = tasks[p[j]] /\ found[k] = tasks[p[k]]
    BY <1>2
  <2>2. \/ PlaceOf(found, tasks[p[j]].db) < PlaceOf(found, tasks[p[k]].db)
        \/ tasks[p[j]].db = tasks[p[k]].db /\ SortsBefore(tasks[p[j]], tasks[p[k]], j, k)
    BY <1>3, <1>5, <2>1, GroupOrderHas
  <2>3. j < k => <<p[j], p[k]>> \in SearchOrder(tasks)
    BY <1>2
  <2>4. SearchPrecedes(tasks, p[j], p[k])
    BY <2>2, <2>3 DEF SearchPrecedes, SortsBefore
  <2>5. p[j] \in DOMAIN tasks /\ p[k] \in DOMAIN tasks
        /\ Part(tasks[p[j]].label) = 4 /\ Part(tasks[p[k]].label) = 4
    BY <2>1 DEF Searched, Part
  <2> QED
    BY <2>4, <2>5, RunOrderHas
<1> DEFINE K == 1..L
<1>6. Carries(p, found, tasks, K, Searched(tasks), GroupOrder(found), RunOrder(tasks))
  BY <1>2, <1>5 DEF Carries
<1>7. Lists(b, found, K, GroupOrder(found))
  BY <1>4
<1> HIDE DEF K, b, found
<1>8. Lists(b, tasks, Searched(tasks), RunOrder(tasks))
  BY <1>6, <1>7, ListsThrough
<1> QED
  BY <1>8 DEF b, found

\* What assemble_all makes of a list of tasks: each task once, in the order of a run.
THEOREM AssemblyIsAnOrder ==
    ASSUME NEW S, Orderable(S), NEW tasks \in Seq(S)
    PROVE  Lists(AssembleAll(tasks), tasks, DOMAIN tasks, RunOrder(tasks))
<1> DEFINE P(label) == {i \in DOMAIN tasks : tasks[i].label = label}
           R == RunOrder(tasks)
           load == WithLabel(tasks, "Load")
           streaming == WithLabel(tasks, "Streaming")
           insert == WithLabel(tasks, "CloudInsert")
           search == GroupByDb(SearchFilterTasks(tasks))
           text == WithLabel(tasks, "FullTextSearch")
<1>1. \A i \in DOMAIN tasks : tasks[i] \in S /\ tasks[i].label \in Labels
  BY DEF Orderable
<1>2. ASSUME NEW label \in Labels, Part(label) # 4
      PROVE  Lists(WithLabel(tasks, label), tasks, P(label), R)
  BY <1>2, RunOrderHas, WithLabelLists
<1>3. /\ Lists(load, tasks, P("Load"), R)
      /\ Lists(streaming, tasks, P("Streaming"), R)
      /\ Lists(insert, tasks, P("CloudInsert"), R)
      /\ Lists(text, tasks, P("FullTextSearch"), R)
  BY <1>2 DEF Labels, Part
<1>4. Lists(search, tasks, Searched(tasks), R)
  BY SearchCasesList
<1>5. \A m, i \in DOMAIN tasks : Part(tasks[m].label) < Part(tasks[i].label) => <<m, i>> \in R
  BY RunOrderHas
<1>6. /\ P("Load") = {i \in DOMAIN tasks : Part(tasks[i].label) = 1}
      /\ P("Streaming") = {i \in DOMAIN tasks : Part(tasks[i].label) = 2}
      /\ P("CloudInsert") = {i \in DOMAIN tasks : Part(tasks[i].label) = 3}
      /\ Searched(tasks) = {i \in DOMAIN tasks : Part(tasks[i].label) = 4}
      /\ P("FullTextSearch") = {i \in DOMAIN tasks : Part(tasks[i].label) = 5}
  BY <1>1, PartOfLabel DEF Searched
<1> DEFINE Q(n) == {i \in DOMAIN tasks : Part(tasks[i].label) = n}
           U(n) == {i \in DOMAIN tasks : Part(tasks[i].label) <= n}
<1>7. ASSUME NEW n \in 1..4
      PROVE  /\ U(n) \cap Q(n + 1) = {}
             /\ U(n) \cup Q(n + 1) = U(n + 1)
             /\ \A m \in U(n), i \in Q(n + 1) : <<m, i>> \in R
  <2>1. \A i \in DOMAIN tasks : Part(tasks[i].label) \in 1..5
    BY <1>1, PartOfLabel
  <2> QED
    BY <1>5, <2>1
<1>8. U(1) = Q(1) /\ U(5) = DOMAIN tasks
  <2>1. \A i \in DOMAIN tasks : Part(tasks[i].label) \in 1..5
    BY <1>1, PartOfLabel
  <2>2. \A i \in DOMAIN tasks : /\ Part(tasks[i].label) <= 1 <=> Part(tasks[i].label) = 1
                                /\ Part(tasks[i].label) <= 5
    BY <2>1
  <2> QED
    BY <2>2
<1>9. /\ Lists(load, tasks, Q(1), R) /\ Lists(streaming, tasks, Q(2), R)
      /\ Lists(insert, tasks, Q(3), R) /\ Lists(search, tasks, Q(4), R)
      /\ Lists(text, tasks, Q(5), R)
  BY <1>3, <1>4, <1>6
<1> HIDE DEF Q, U, R, load, streaming, insert, search, text
<1>10. ASSUME NEW n \in 1..4, NEW a, NEW c, Lists(a, tasks, U(n), R), Lists(c, tasks, Q(n + 1), R)
       PROVE  Lists(a \o c, tasks, U(n + 1), R)
  <2>1. Lists(a \o c, tasks, U(n) \cup Q(n + 1), R)
    BY <1>7, <1>10, ListsJoin
  <2> QED
    BY <1>7, <2>1
<1>11. Lists(load \o streaming, tasks, U(2), R)
  BY <1>8, <1>9, <1>10
<1>12. Lists(load \o streaming \o insert, tasks, U(3), R)
  BY <1>9, <1>10, <1>11
<1>13. Lists(load \o streaming \o insert \o search, tasks, U(4), R)
  BY <1>9, <1>10, <1>12
<1>14. Lists(load \o streaming \o insert \o search \o text, tasks, U(5), R)
  BY <1>9, <1>10, <1>13
<1> QED
  BY <1>8, <1>14 DEF AssembleAll, R, load, streaming, insert, search, text

-------------------------------------------------------------------------------
(* Lists of case configurations and of tasks.                                    *)

\* Sequences of sequences flatten to a sequence.
LEMMA FlattenType ==
    ASSUME NEW S, NEW ss \in Seq(Seq(S))
    PROVE  FlattenSeq(ss) \in Seq(S)
<1> DEFINE n == Len(ss)
<1>1. n \in Nat /\ DOMAIN ss = 1..n /\ \A i \in 1..n : ss[i] \in Seq(S)
  OBVIOUS
<1>2. CASE n = 0
  <2>1. FlattenSeq(ss) = ss
    BY <1>2 DEF FlattenSeq
  <2>2. ss = <<>>
    BY <1>2
  <2> QED
    BY <2>1, <2>2
<1>3. CASE n # 0
  <2>1. n \in Nat \ {0}
    BY <1>1, <1>3
  <2>2. PICK f : Joins(f, ss, n) /\ FlattenSeq(ss) = f[n]
    BY <2>1, FlattenIsJoined
  <2> DEFINE wrong == {m \in 1..n : f[m] \notin Seq(S)}
  <2>3. ASSUME wrong # {} PROVE FALSE
    <3>1. wrong \in SUBSET Nat
      OBVIOUS
    <3>2. PICK m \in wrong : \A k \in wrong : m <= k
      <4> HIDE DEF wrong
      <4> QED
        BY <2>3, <3>1, LeastOfNumbers
    <3>3. f[m] = IF m = 1 THEN ss[m] ELSE f[m - 1] \o ss[m]
      BY <2>2, <3>2 DEF Joins
    <3>4. m # 1 => m - 1 \in 1..n /\ ~ m <= m - 1
      BY <1>1, <3>2
    <3>5. m # 1 => f[m - 1] \in Seq(S)
      BY <3>2, <3>4
    <3>6. ss[m] \in Seq(S) /\ f[m] \notin Seq(S)
      BY <1>1, <3>2
    <3> QED
      BY <3>3, <3>5, <3>6
  <2>4. n \in 1..n
    BY <2>1
  <2> QED
    BY <2>2, <2>3, <2>4
<1> QED
  BY <1>2, <1>3

-------------------------------------------------------------------------------
(* The cases the table makes.                                                    *)

\* A case that can be put in order.
IsCase(case) == case.label \in Labels /\ case.data.size \in Nat

LEMMA CasesShape ==
    ASSUME NEW label \in Labels, NEW datas, \A d \in datas : d.size \in Nat,
           NEW filter, NEW payload, NEW case \in Cases(label, datas, filter, payload)
    PROVE  IsCase(case)
BY DEF Cases, check_scalar_labels, NewCase, IsCase

LEMMA DataSize ==
    ASSUME NEW class, NEW size \in Nat
    PROVE  Data(class, size).size \in Nat /\ \A d \in manager(class, size) : d.size \in Nat
BY DEF manager, Data

LEMMA NamedSizes ==
    /\ \A name : \A d \in SizeType(name) : d.size \in Nat
    /\ \A name \in DOMAIN FtsDatasetWithSize : FtsDatasetWithSize[name].size \in Nat
    /\ CustomData.size \in Nat
<1>1. \A name \in DOMAIN DatasetWithSize : DatasetWithSize[name].size \in Nat
  BY DEF DatasetWithSize, Data
<1>2. \A name : \A d \in SizeType(name) : d.size \in Nat
  BY <1>1 DEF SizeType
<1>3. \A name \in DOMAIN FtsDatasetWithSize : FtsDatasetWithSize[name].size \in Nat
  BY DEF FtsDatasetWithSize, Data
<1> QED
  BY <1>2, <1>3 DEF CustomData, Data

LEMMA RegisteredSizes ==
    \A name : \A d \in get_dataset_manager(name) : d.size \in Nat
<1>1. \A name \in DOMAIN DatasetWithSize : DatasetWithSize[name].size \in Nat
  BY DEF DatasetWithSize, Data
<1>2. \A name \in DOMAIN Vibe : Vibe[name] \in Nat
  BY DEF Vibe
<1>3. \A name \in DOMAIN Multimodal : Multimodal[name] \in Nat
  BY DEF Multimodal
<1> QED
  BY <1>1, <1>2, <1>3 DEF get_dataset_manager, Data

LEMMA FixedSizes ==
    /\ \A type \in DOMAIN CapacityCases : \A d \in CapacityCases[type] : d.size \in Nat
    /\ \A type \in DOMAIN FixedCases : \A d \in FixedCases[type] : d.size \in Nat
    /\ \A type \in DOMAIN FixedFilterCases : \A d \in FixedFilterCases[type][1] : d.size \in Nat
<1>1. \A type \in DOMAIN CapacityCases : \A d \in CapacityCases[type] : d.size \in Nat
  BY DataSize DEF CapacityCases
<1>2. \A type \in DOMAIN FixedCases : \A d \in FixedCases[type] : d.size \in Nat
  BY DataSize DEF FixedCases, Fixed
<1>3. \A type \in DOMAIN FixedFilterCases : \A d \in FixedFilterCases[type][1] : d.size \in Nat
  BY DataSize DEF FixedFilterCases, Fixed
<1> QED
  BY <1>1, <1>2, <1>3

\* The four kinds of case types have no type in common.
LEMMA TypesDiffer ==
    /\ DOMAIN CapacityCases \cap (DOMAIN FixedCases \cup DOMAIN FixedFilterCases
                                   \cup ParameterCases) = {}
    /\ DOMAIN FixedCases \cap (DOMAIN FixedFilterCases \cup ParameterCases) = {}
    /\ DOMAIN FixedFilterCases \cap ParameterCases = {}
<1>1. DOMAIN CapacityCases = {"CapacityDim960", "CapacityDim128"}
  BY DEF CapacityCases
<1>2. DOMAIN FixedCases =
        {"Performance768D10M", "Performance768D1M", "Performance768D100M",
         "Performance1536D500K", "Performance1536D5M", "Performance1024D1M",
         "Performance1024D10M", "Performance1536D50K"}
  BY DEF FixedCases
<1>3. DOMAIN FixedFilterCases =
        {"Performance768D10M1P", "Performance768D1M1P", "Performance768D10M99P",
         "Performance768D1M99P", "Performance1536D500K1P", "Performance1536D5M1P",
         "Performance1536D500K99P", "Performance1536D5M99P"}
  BY DEF FixedFilterCases
<1> QED
  BY <1>1, <1>2, <1>3 DEF ParameterCases

LEMMA ParameterCasesShape ==
    ASSUME NEW custom, NEW type \in ParameterCases, NEW case \in case_cls(type, custom)
    PROVE  IsCase(case)
<1>1. {"Load", "Streaming", "CloudInsert", "Performance", "CloudColdLatency",
       "FullTextSearch"} = Labels
  BY DEF Labels
<1>2. \A d \in CloudData(custom) : d.size \in Nat
  <2>1. \A d \in manager("LAION", 100000000) : d.size \in Nat
    BY DEF manager, Data
  <2> DEFINE all == manager("LAION", 100000000)
  <2>2. \A d \in all : d.size \in Nat
    BY <2>1
  <2>3. CloudData(custom) = IF custom.dataset_with_size_type = "" THEN all
                            ELSE SizeType(custom.dataset_with_size_type)
    BY DEF CloudData
  <2> HIDE DEF all
  <2>4. \A d \in SizeType(custom.dataset_with_size_type) : d.size \in Nat
    BY NamedSizes
  <2> QED
    BY <2>2, <2>3, <2>4
<1>3. \A d \in {CustomData} : d.size \in Nat
  BY NamedSizes
<1>4. ASSUME NEW c \in PerformanceCustomDataset(custom) PROVE IsCase(c)
  BY <1>1, <1>3, <1>4, CasesShape DEF PerformanceCustomDataset
<1>5. ASSUME NEW c \in StreamingPerformanceCase(custom) PROVE IsCase(c)
  BY <1>1, <1>5, NamedSizes, CasesShape DEF StreamingPerformanceCase
<1>6. ASSUME NEW c \in StreamingCustomDataset(custom) PROVE IsCase(c)
  BY <1>1, <1>3, <1>6, CasesShape DEF StreamingCustomDataset
<1>7. ASSUME NEW c \in NewIntFilterPerformanceCase(custom) PROVE IsCase(c)
  BY <1>1, <1>7, NamedSizes, CasesShape DEF NewIntFilterPerformanceCase
<1>8. ASSUME NEW c \in LabelFilterPerformanceCase(custom) PROVE IsCase(c)
  BY <1>1, <1>8, NamedSizes, CasesShape DEF LabelFilterPerformanceCase
<1>9. ASSUME NEW c \in CloudPayloadSearchCase(custom) PROVE IsCase(c)
  BY <1>1, <1>2, <1>9, CasesShape DEF CloudPayloadSearchCase
<1>10. ASSUME NEW c \in CloudColdLatencyCase(custom) PROVE IsCase(c)
  BY <1>1, <1>2, <1>10, CasesShape DEF CloudColdLatencyCase
<1>11. ASSUME NEW c \in CloudInsertCase(custom) PROVE IsCase(c)
  BY <1>1, <1>2, <1>11, CasesShape DEF CloudInsertCase
<1>12. ASSUME NEW c \in CloudMultiTenantSearchCase(custom) PROVE IsCase(c)
  <2> DEFINE tenants == DefaultNumber(custom.tenant_count, 1000)
             cases == Cases("Performance",
                            SizeType(DefaultName(custom.dataset_with_size_type, "CohereLarge")),
                            CloudFilter(custom), Payload(custom))
  <2>1. c \in {[d EXCEPT !.tenants = tenants] : d \in cases}
    BY <1>12 DEF CloudMultiTenantSearchCase
  <2>2. PICK d \in cases : c = [d EXCEPT !.tenants = tenants]
    BY <2>1
  <2>3. IsCase(d)
    BY <1>1, <2>2, NamedSizes, CasesShape
  <2>4. \E label, data, filter, payload, n : d = NewCase(label, data, filter, payload, n)
    BY <2>2 DEF Cases, check_scalar_labels
  <2> QED
    BY <2>2, <2>3, <2>4 DEF IsCase, NewCase
<1>13. ASSUME NEW c \in FTSBm25Performance(custom) PROVE IsCase(c)
  <2> DEFINE name == DefaultName(custom.dataset_with_size_type, "MSMarcoSmall")
  <2>1. name \in DOMAIN FtsDatasetWithSize
    BY <1>13 DEF FTSBm25Performance
  <2>2. \A d \in {FtsDatasetWithSize[name]} : d.size \in Nat
    BY <2>1, NamedSizes
  <2>3. c \in Cases("FullTextSearch", {FtsDatasetWithSize[name]}, CloudFilter(custom),
                    Payload(custom))
    BY <1>13 DEF FTSBm25Performance
  <2> QED
    BY <1>1, <2>2, <2>3, CasesShape
<1>14. ASSUME NEW c \in Performance(custom) PROVE IsCase(c)
  BY <1>1, <1>14, RegisteredSizes, CasesShape DEF Performance
<1>15. /\ type \notin DOMAIN CapacityCases /\ type \notin DOMAIN FixedCases
       /\ type \notin DOMAIN FixedFilterCases
  BY TypesDiffer
<1> QED
  BY <1>4, <1>5, <1>6, <1>7, <1>8, <1>9, <1>10, <1>11, <1>12, <1>13, <1>14, <1>15
     DEF case_cls, ParameterCases

\* Every case of the table has a label and a size.
LEMMA CaseShape ==
    ASSUME NEW config, config.case_id \in CaseType, NEW case \in case_of(config)
    PROVE  IsCase(case)
<1> DEFINE type == config.case_id
           custom == [config.custom_case EXCEPT !.payload_profile =
                         DefaultName(config.payload_profile, @)]
<1>1. case \in case_cls(type, custom)
  BY DEF case_of
<1>2. CASE type \in ParameterCases
  BY <1>1, <1>2, ParameterCasesShape
<1>3. CASE type \in DOMAIN CapacityCases
  <2> DEFINE cases == Cases("Load", CapacityCases[type], NonFilter, "ids_only")
  <2>1. /\ type \notin DOMAIN FixedCases /\ type \notin DOMAIN FixedFilterCases
        /\ type \notin ParameterCases
    BY <1>3, TypesDiffer
  <2>2. case_cls(type, custom) = cases
    <3> HIDE DEF cases, custom
    <3> QED
      BY <1>3, <2>1 DEF case_cls, ParameterCases, cases
  <2> QED
    BY <1>1, <1>3, <2>2, FixedSizes, CasesShape DEF Labels
<1>4. CASE type \in DOMAIN FixedCases
  <2>1. /\ type \notin DOMAIN CapacityCases /\ type \notin DOMAIN FixedFilterCases
        /\ type \notin ParameterCases
    BY <1>4, TypesDiffer
  <2>2. case \in Cases("Performance", FixedCases[type], NonFilter, Payload(custom))
    BY <1>1, <1>4, <2>1 DEF case_cls, ParameterCases
  <2> QED
    BY <1>4, <2>2, FixedSizes, CasesShape DEF Labels
<1>5. CASE type \in DOMAIN FixedFilterCases
  <2> DEFINE filter == IntFilter(DefaultNumber(custom.filter_rate, FixedFilterCases[type][2]))
  <2>1. /\ type \notin DOMAIN CapacityCases /\ type \notin DOMAIN FixedCases
        /\ type \notin ParameterCases
    BY <1>5, TypesDiffer
  <2>2. case \in Cases("Performance", FixedFilterCases[type][1], filter, Payload(custom))
    BY <1>1, <1>5, <2>1 DEF case_cls, ParameterCases
  <2> QED
    BY <1>5, <2>2, FixedSizes, CasesShape DEF Labels
<1> QED
  BY <1>2, <1>3, <1>4, <1>5 DEF CaseType

-------------------------------------------------------------------------------
(* What is submitted.                                                            *)

\* Filling in the form of a case leaves a configuration.
LEMMA FilledInType ==
    ASSUME NEW config \in CaseConfigs, NEW form, form.insert_rate \in Nat,
           form.size_type \in STRING
    PROVE  FilledIn(config, form) \in CaseConfigs
<1> DEFINE name == IF config.case_id = "StreamingPerformanceCase" THEN form.size_type
                   ELSE config.custom_case.dataset_with_size_type
           custom == [config.custom_case EXCEPT !.insert_rate = form.insert_rate,
                                                !.dataset_with_size_type = name]
<1>1. config.custom_case \in Parameters
  BY DEF CaseConfigs
<1>2. name \in STRING
  BY <1>1 DEF Parameters
<1>3. custom \in Parameters
  <2> HIDE DEF name
  <2>1. \A n \in Int, s \in STRING :
           [config.custom_case EXCEPT !.insert_rate = n, !.dataset_with_size_type = s]
              \in Parameters
    BY <1>1 DEF Parameters
  <2>2. form.insert_rate \in Int
    OBVIOUS
  <2> QED
    BY <1>2, <2>1, <2>2
<1>4. FilledIn(config, form) = [config EXCEPT !.custom_case = custom]
  BY <1>1 DEF FilledIn, CaseConfigs, Parameters
<1> QED
  BY <1>3, <1>4 DEF CaseConfigs

\* So does asking for a payload profile.
LEMMA WithProfilesType ==
    ASSUME NEW config \in CaseConfigs, NEW profiles \in Seq(Profiles)
    PROVE  WithProfiles(config, profiles) \in Seq(CaseConfigs)
<1>1. \A i \in DOMAIN profiles : profiles[i] \in Profiles
  OBVIOUS
<1>2. \A i \in DOMAIN profiles :
         [config EXCEPT !.payload_profile = profiles[i]] \in CaseConfigs
  BY <1>1 DEF CaseConfigs
<1>3. DOMAIN profiles = 1..Len(profiles) /\ Len(profiles) \in Nat
  OBVIOUS
<1> QED
  BY <1>2, <1>3 DEF WithProfiles

LEMMA GetCasesType ==
    ASSUME NEW item \in Items, NEW form, form.insert_rate \in Nat, form.size_type \in STRING,
           form.profiles \in Seq(Profiles)
    PROVE  get_cases(item, form) \in Seq(CaseConfigs)
<1> DEFINE configs == IF item.inputs
                        THEN [i \in DOMAIN item.configs |-> FilledIn(item.configs[i], form)]
                        ELSE item.configs
           each == [i \in DOMAIN configs |-> WithProfiles(configs[i], form.profiles)]
<1>1. item.configs \in Seq(CaseConfigs)
  BY DEF Items
<1>2. \A i \in 1..Len(item.configs) : FilledIn(item.configs[i], form) \in CaseConfigs
  BY <1>1, FilledInType
<1>3. DOMAIN item.configs = 1..Len(item.configs) /\ Len(item.configs) \in Nat
  BY <1>1
<1>4. configs \in Seq(CaseConfigs)
  BY <1>1, <1>2, <1>3
<1>5. each \in Seq(Seq(CaseConfigs))
  <2> HIDE DEF configs
  <2>1. \A i \in 1..Len(configs) : WithProfiles(configs[i], form.profiles) \in Seq(CaseConfigs)
    BY <1>4, WithProfilesType
  <2>2. DOMAIN configs = 1..Len(configs) /\ Len(configs) \in Nat
    BY <1>4
  <2> QED
    BY <2>1, <2>2
<1>6. FlattenSeq(each) \in Seq(CaseConfigs)
  <2> HIDE DEF each
  <2> QED
    BY <1>5, FlattenType
<1>7. get_cases(item, form) = IF supports_payload_profiles(item) THEN FlattenSeq(each)
                              ELSE configs
  BY DEF get_cases
<1> QED
  BY <1>4, <1>6, <1>7

LEMMA SelectedCasesType ==
    ASSUME NEW form, form.items \in Seq(Items), form.insert_rate \in Nat,
           form.size_type \in STRING, form.profiles \in Seq(Profiles)
    PROVE  SelectedCases(form) \in Seq(CaseConfigs)
<1> DEFINE each == [i \in DOMAIN form.items |-> get_cases(form.items[i], form)]
<1>1. \A i \in 1..Len(form.items) : get_cases(form.items[i], form) \in Seq(CaseConfigs)
  BY GetCasesType
<1>2. DOMAIN form.items = 1..Len(form.items) /\ Len(form.items) \in Nat
  OBVIOUS
<1>3. each \in Seq(Seq(CaseConfigs))
  BY <1>1, <1>2
<1>4. SelectedCases(form) = FlattenSeq(each)
  BY DEF SelectedCases
<1> HIDE DEF each
<1> QED
  BY <1>3, <1>4, FlattenType

LEMMA TasksType ==
    ASSUME NEW dbs \in Seq(Databases), NEW configs \in Seq(CaseConfigs), NEW batch_size \in Nat
    PROVE  generate_tasks(dbs, configs, batch_size) \in Seq(TaskConfigs)
<1> DEFINE each == [i \in DOMAIN dbs |->
                       [j \in DOMAIN configs |->
                           Submitted(dbs[i], configs[j], ALL_TASK_STAGES, batch_size)]]
<1>1. \A i \in 1..Len(dbs), j \in 1..Len(configs) :
         Submitted(dbs[i], configs[j], ALL_TASK_STAGES, batch_size) \in TaskConfigs
  BY DEF Submitted, TaskConfigs, ALL_TASK_STAGES, Stages
<1>2. DOMAIN dbs = 1..Len(dbs) /\ Len(dbs) \in Nat
  OBVIOUS
<1>3. DOMAIN configs = 1..Len(configs) /\ Len(configs) \in Nat
  OBVIOUS
<1>4. each \in Seq(Seq(TaskConfigs))
  <2>1. \A i \in 1..Len(dbs) :
           [j \in 1..Len(configs) |->
              Submitted(dbs[i], configs[j], ALL_TASK_STAGES, batch_size)] \in Seq(TaskConfigs)
    BY <1>1, <1>3
  <2> QED
    BY <1>2, <1>3, <2>1
<1>5. generate_tasks(dbs, configs, batch_size) = FlattenSeq(each)
  BY DEF generate_tasks
<1> HIDE DEF each
<1> QED
  BY <1>4, <1>5, FlattenType

LEMMA SettingsType ==
    ASSUME NEW tasks \in Seq(TaskConfigs), NEW k \in Nat
    PROVE  apply_run_settings(tasks, k) \in Seq(TaskConfigs)
<1>1. ASSUME NEW t \in TaskConfigs PROVE [t EXCEPT !.config.k = k] \in TaskConfigs
  <2>1. t.config \in CaseConfigs
    BY DEF TaskConfigs
  <2>2. [t.config EXCEPT !.k = k] \in CaseConfigs
    <3>1. \A c \in CaseConfigs, n \in Int : [c EXCEPT !.k = n] \in CaseConfigs
      <4> DEFINE texts == Profiles \cup {""}
      <4>1. CaseConfigs = [case_id : CaseType, custom_case : Parameters,
                           payload_profile : texts, k : Int]
        BY DEF CaseConfigs
      <4> HIDE DEF texts
      <4> QED
        BY <4>1
    <3> QED
      BY <2>1, <3>1
  <2>3. [t EXCEPT !.config = [t.config EXCEPT !.k = k]] \in TaskConfigs
    BY <2>2 DEF TaskConfigs
  <2> QED
    BY <2>3
<1>2. \A i \in 1..Len(tasks) : [tasks[i] EXCEPT !.config.k = k] \in TaskConfigs
  BY <1>1
<1>3. DOMAIN tasks = 1..Len(tasks) /\ Len(tasks) \in Nat
  OBVIOUS
<1> QED
  BY <1>2, <1>3 DEF apply_run_settings

-------------------------------------------------------------------------------
\* What holds of every submission: what is submitted is well formed, and what runs is
\* what assemble_all makes of it, or nothing.
SubmitInv ==
    /\ submitted \in Seq(TaskConfigs)
    /\ outcome = "assembled" => CasesExist /\ case_runners = AssembleAll(Tasks)
    /\ outcome # "assembled" => case_runners = <<>>

LEMMA SubmitInvInit == SubmitInit => SubmitInv
BY DEF SubmitInit, SubmitInv

\* A step that makes other tasks of a request, or ends it.
LEMMA StillAsked ==
    ASSUME SubmitInv, outcome # "assembled", outcome' # "assembled",
           UNCHANGED case_runners, submitted' \in Seq(TaskConfigs)
    PROVE  SubmitInv'
BY DEF SubmitInv

LEMMA CommandType ==
    ASSUME NEW command \in Commands
    PROVE  LET options == command.options
           IN  <<Submitted(command.db, ConfigOf(options), StagesOf(options),
                           options.insert_batch_size)>> \in Seq(TaskConfigs)
<1> DEFINE options == command.options
           config == ConfigOf(options)
           stages == StagesOf(options)
<1>1. /\ command.db \in Databases /\ config \in CaseConfigs
      /\ options.insert_batch_size \in Nat
  BY CommandsAssumption
<1>2. stages \in SUBSET Stages
  BY DEF StagesOf, Stages
<1>3. \A db \in Databases, c \in CaseConfigs, s \in SUBSET Stages, n \in Nat :
         Submitted(db, c, s, n) \in TaskConfigs
  BY DEF Submitted, TaskConfigs
<1> HIDE DEF config, stages
<1>4. Submitted(command.db, config, stages, options.insert_batch_size) \in TaskConfigs
  BY <1>1, <1>2, <1>3
<1> QED
  BY <1>4 DEF config, stages

LEMMA SubmitInvStep ==
    ASSUME SubmitInv, [SubmitNext]_submitVars
    PROVE  SubmitInv'
<1>0. submitted \in Seq(TaskConfigs)
  BY DEF SubmitInv
<1>1. ASSUME NEW entered \in BOOLEAN, outcome = "idle", SaveCustomDataset(entered)
      PROVE  SubmitInv'
  BY <1>0, <1>1, StillAsked DEF SaveCustomDataset
<1>2. ASSUME outcome = "idle", PageCannotOpen PROVE SubmitInv'
  BY <1>0, <1>2, StillAsked DEF PageCannotOpen, Ask, End
<1>3. ASSUME NEW form \in Forms, outcome = "idle", FillForm(form) PROVE SubmitInv'
  <2> DEFINE configs == SelectedCases(form)
             tasks == generate_tasks(form.dbs, configs, form.batch_size)
  <2>1. configs \in Seq(CaseConfigs)
    BY FormsAssumption, SelectedCasesType
  <2>2. tasks \in Seq(TaskConfigs)
    <3> HIDE DEF configs
    <3> QED
      BY <2>1, FormsAssumption, TasksType
  <2>3. /\ submitted' = submitted \/ submitted' = tasks
        /\ outcome' \in {"page_raises", "button_disabled", "filled"}
        /\ UNCHANGED case_runners
    BY <1>3 DEF FillForm, Ask, End
  <2>4. submitted' \in Seq(TaskConfigs)
    <3> HIDE DEF tasks
    <3> QED
      BY <1>0, <2>2, <2>3
  <2>5. outcome' # "assembled"
    BY <2>3
  <2> QED
    BY <1>3, <2>3, <2>4, <2>5, StillAsked
<1>4. ASSUME NEW command \in Commands, outcome = "idle", GiveCommand(command) PROVE SubmitInv'
  <2>1. /\ submitted' \in Seq(TaskConfigs)
        /\ outcome' \in {"pending", "command_refused"}
        /\ UNCHANGED case_runners
    BY <1>0, <1>4, CommandType DEF GiveCommand, Ask, End
  <2> QED
    BY <1>4, <2>1, StillAsked
<1>5. ASSUME NEW tasks \in Posts, outcome = "idle", PostTasks(tasks) PROVE SubmitInv'
  <2>1. /\ submitted' \in Seq(TaskConfigs)
        /\ outcome' \in {"pending", "invalid_tasks"}
        /\ UNCHANGED case_runners
    BY <1>0, <1>5, PostsAssumption DEF PostTasks, Ask, End
  <2> QED
    BY <1>5, <2>1, StillAsked
<1>6. ASSUME NEW k \in Ks, PressRun(k) PROVE SubmitInv'
  <2>1. apply_run_settings(submitted, k) \in Seq(TaskConfigs)
    BY <1>0, KsAssumption, SettingsType
  <2>2. /\ submitted' \in Seq(TaskConfigs)
        /\ outcome = "filled" /\ outcome' \in {"pending", "settings_refused"}
        /\ UNCHANGED case_runners
    BY <1>0, <1>6, <2>1 DEF PressRun, End
  <2> QED
    BY <2>2, StillAsked
<1>7. ASSUME Assemble PROVE SubmitInv'
  <2>1. /\ submitted' = submitted /\ CasesExist /\ outcome' = "assembled"
        /\ case_runners' = AssembleAll(Tasks)
    BY <1>7 DEF Assemble, Conclude
  <2>2. CasesExist' /\ Tasks' = Tasks
    BY <2>1 DEF CasesExist, Tasks
  <2>3. AssembleAll(Tasks)' = AssembleAll(Tasks)
    BY <2>2
  <2> QED
    BY <1>0, <2>1, <2>2, <2>3 DEF SubmitInv
<1>8. ASSUME RefuseCase \/ RefuseFilter PROVE SubmitInv'
  BY <1>0, <1>8, StillAsked DEF RefuseCase, RefuseFilter, Conclude
<1>9. ASSUME UNCHANGED submitVars PROVE SubmitInv'
  <2>1. submitted' = submitted /\ outcome' = outcome /\ case_runners' = case_runners
    BY <1>9 DEF submitVars
  <2>2. (CasesExist' <=> CasesExist) /\ Tasks' = Tasks
    BY <2>1 DEF CasesExist, Tasks
  <2>3. AssembleAll(Tasks)' = AssembleAll(Tasks)
    BY <2>2
  <2> QED
    BY <2>1, <2>2, <2>3 DEF SubmitInv
<1> QED
  BY <1>1, <1>2, <1>3, <1>4, <1>5, <1>6, <1>7, <1>8, <1>9 DEF SubmitNext, Request

\* Whoever submits, what runs is what assemble_all makes of it.
THEOREM SubmissionInvariant == SubmitSpec => []SubmitInv
<1>1. SubmitInit => SubmitInv
  BY SubmitInvInit
<1>2. SubmitInv /\ [SubmitNext]_submitVars => SubmitInv'
  BY SubmitInvStep
<1> QED
  BY <1>1, <1>2, PTL DEF SubmitSpec

-------------------------------------------------------------------------------
(* The order of a run, and where its cases are in it.                            *)

\* The place a database has among those that are searched.
DbPlace(tasks, db) == PlaceOf(SearchFilterTasks(tasks), db)

LEMMA DbPlaceIsNatural ==
    ASSUME NEW S, NEW tasks \in Seq(S), NEW i \in Searched(tasks)
    PROVE  DbPlace(tasks, tasks[i].db) \in Nat
<1> DEFINE found == SearchFilterTasks(tasks)
           order == DatabaseOrder(found)
           T == {tasks[k] : k \in Searched(tasks)}
<1>1. found \in Seq(T) /\ \E k \in DOMAIN found : found[k] = tasks[i]
  <2>1. Lists(found, tasks, Searched(tasks), SearchOrder(tasks))
    BY SearchTasksList
  <2> HIDE DEF found
  <2>2. found \in Seq(T)
    BY <2>1 DEF Lists
  <2>3. DOMAIN found = 1..Len(found)
    BY <2>2
  <2> QED
    BY <2>1, <2>2, <2>3 DEF Lists
<1> HIDE DEF found, T
<1>2. /\ \E D : order \in Seq(D)
      /\ \A k \in DOMAIN found : \E l \in DOMAIN order : order[l] = found[k].db
  BY <1>1, OrderHasEachDatabase
<1>3. \E l \in DOMAIN order : order[l] = tasks[i].db
  BY <1>1, <1>2
<1>4. DOMAIN order \subseteq Nat
  BY <1>2
<1> HIDE DEF order
<1> QED
  BY <1>3, <1>4 DEF DbPlace, PlaceOf, order, found

\* What the order of a run says of two tasks, in terms of the tasks.
LEMMA RunOrderMeans ==
    ASSUME NEW S, Orderable(S), NEW tasks \in Seq(S), NEW m \in DOMAIN tasks, NEW i \in DOMAIN tasks,
           <<m, i>> \in RunOrder(tasks)
    PROVE  LET a == tasks[m]
               b == tasks[i]
           IN  /\ Part(a.label) <= Part(b.label)
               /\ Part(a.label) = 4 /\ Part(b.label) = 4 =>
                     /\ DbPlace(tasks, a.db) <= DbPlace(tasks, b.db)
                     /\ a.db = b.db \/ DbPlace(tasks, a.db) # DbPlace(tasks, b.db)
                     /\ a.db = b.db =>
                           /\ SortRank(a) <= SortRank(b)
                           /\ SortRank(a) = SortRank(b) /\ a.label = b.label => m < i
<1> DEFINE a == tasks[m]
           b == tasks[i]
<1>1. a \in S /\ b \in S
  OBVIOUS
<1>2. Part(a.label) \in 1..5 /\ Part(b.label) \in 1..5
  BY <1>1, PartOfLabel DEF Orderable
<1>3. SortRank(a) \in Nat /\ SortRank(b) \in Nat
  BY <1>1, RankIsNatural
<1>4. \/ Part(a.label) < Part(b.label)
      \/ Part(a.label) = Part(b.label) /\ Part(a.label) # 4 /\ m < i
      \/ Part(a.label) = 4 /\ Part(b.label) = 4 /\ SearchPrecedes(tasks, m, i)
  BY RunOrderHas
<1>5. Part(a.label) <= Part(b.label)
  BY <1>2, <1>4
<1>6. ASSUME Part(a.label) = 4, Part(b.label) = 4
      PROVE  /\ DbPlace(tasks, a.db) <= DbPlace(tasks, b.db)
             /\ a.db = b.db \/ DbPlace(tasks, a.db) # DbPlace(tasks, b.db)
             /\ a.db = b.db =>
                   /\ SortRank(a) <= SortRank(b)
                   /\ SortRank(a) = SortRank(b) /\ a.label = b.label => m < i
  <2>1. SearchPrecedes(tasks, m, i)
    BY <1>2, <1>4, <1>6
  <2>2. a.label \in Labels /\ b.label \in Labels
    BY <1>1 DEF Orderable
  <2>3. m \in Searched(tasks) /\ i \in Searched(tasks)
    BY <1>6, <2>2, PartOfLabel DEF Searched
  <2>4. DbPlace(tasks, a.db) \in Nat /\ DbPlace(tasks, b.db) \in Nat
    BY <2>3, DbPlaceIsNatural
  <2>5. \/ DbPlace(tasks, a.db) < DbPlace(tasks, b.db)
        \/ /\ a.db = b.db
           /\ \/ SortRank(a) < SortRank(b)
              \/ SortRank(a) = SortRank(b) /\ <<m, i>> \in SearchOrder(tasks)
    BY <2>1 DEF SearchPrecedes, DbPlace
  <2>6. <<m, i>> \in SearchOrder(tasks) /\ a.label = b.label => m < i
    BY SearchOrderHas
  <2> HIDE DEF a, b
  <2>7. CASE DbPlace(tasks, a.db) < DbPlace(tasks, b.db)
    BY <2>4, <2>7
  <2>8. CASE /\ a.db = b.db
             /\ \/ SortRank(a) < SortRank(b)
                \/ SortRank(a) = SortRank(b) /\ <<m, i>> \in SearchOrder(tasks)
    BY <1>3, <2>4, <2>6, <2>8
  <2> QED
    BY <2>5, <2>7, <2>8
<1> QED
  BY <1>5, <1>6

\* A list of tasks in the order of a run, by the places it takes them from.
LEMMA RunOfTasks ==
    ASSUME NEW S, Orderable(S), NEW tasks \in Seq(S), NEW r,
           Lists(r, tasks, DOMAIN tasks, RunOrder(tasks))
    PROVE  /\ \E T : r \in Seq(T)
           /\ \E p \in [1..Len(r) -> DOMAIN tasks] :
                 /\ \A i \in DOMAIN tasks : \E j \in 1..Len(r) : p[j] = i
                 /\ \A j \in 1..Len(r) : r[j] = tasks[p[j]]
                 /\ \A j, k \in 1..Len(r) : j # k => p[j] # p[k]
                 /\ \A j, k \in 1..Len(r) : j < k => <<p[j], p[k]>> \in RunOrder(tasks)
BY DEF Lists

\* What an assembled run says of a case and a later one.
LEMMA RunsInOrder ==
    ASSUME NEW S, Orderable(S), NEW tasks \in Seq(S), NEW r,
           Lists(r, tasks, DOMAIN tasks, RunOrder(tasks)),
           NEW j \in DOMAIN r, NEW k \in DOMAIN r, j < k
    PROVE  /\ Part(r[j].label) \in 1..5 /\ Part(r[k].label) \in 1..5
           /\ Part(r[j].label) <= Part(r[k].label)
           /\ r[j].label \in Labels /\ r[k].label \in Labels
           /\ r[j].size \in Nat /\ r[k].size \in Nat
           /\ r[j].streq \in BOOLEAN /\ r[k].streq \in BOOLEAN
           /\ Part(r[j].label) = 4 /\ Part(r[k].label) = 4 =>
                 /\ DbPlace(tasks, r[j].db) \in Nat /\ DbPlace(tasks, r[k].db) \in Nat
                 /\ DbPlace(tasks, r[j].db) <= DbPlace(tasks, r[k].db)
                 /\ r[j].db = r[k].db \/ DbPlace(tasks, r[j].db) # DbPlace(tasks, r[k].db)
                 /\ r[j].db = r[k].db =>
                       /\ SortRank(r[j]) <= SortRank(r[k])
                       /\ SortRank(r[j]) = SortRank(r[k]) /\ r[j].label = r[k].label =>
                             \E m, i \in DOMAIN tasks :
                                tasks[m] = r[j] /\ tasks[i] = r[k] /\ m < i
<1>1. DOMAIN r = 1..Len(r)
  BY RunOfTasks
<1>2. PICK p \in [1..Len(r) -> DOMAIN tasks] :
        /\ \A n \in 1..Len(r) : r[n] = tasks[p[n]]
        /\ \A a, b \in 1..Len(r) : a < b => <<p[a], p[b]>> \in RunOrder(tasks)
  BY RunOfTasks
<1> DEFINE m == p[j]
           i == p[k]
<1>3. /\ m \in DOMAIN tasks /\ i \in DOMAIN tasks
      /\ r[j] = tasks[m] /\ r[k] = tasks[i]
      /\ <<m, i>> \in RunOrder(tasks)
  BY <1>1, <1>2
<1>4. r[j] \in S /\ r[k] \in S
  BY <1>3
<1>5. /\ r[j].label \in Labels /\ r[k].label \in Labels
      /\ r[j].size \in Nat /\ r[k].size \in Nat
      /\ r[j].streq \in BOOLEAN /\ r[k].streq \in BOOLEAN
  BY <1>4 DEF Orderable
<1>6. /\ Part(r[j].label) \in 1..5 /\ Part(r[k].label) \in 1..5
      /\ Part(r[j].label) = 4 => m \in Searched(tasks)
      /\ Part(r[k].label) = 4 => i \in Searched(tasks)
  BY <1>3, <1>5, PartOfLabel DEF Searched
<1>7. /\ Part(r[j].label) = 4 => DbPlace(tasks, r[j].db) \in Nat
      /\ Part(r[k].label) = 4 => DbPlace(tasks, r[k].db) \in Nat
  BY <1>3, <1>6, DbPlaceIsNatural
<1> HIDE DEF m, i
<1>8. /\ Part(r[j].label) <= Part(r[k].label)
      /\ Part(r[j].label) = 4 /\ Part(r[k].label) = 4 =>
            /\ DbPlace(tasks, r[j].db) <= DbPlace(tasks, r[k].db)
            /\ r[j].db = r[k].db \/ DbPlace(tasks, r[j].db) # DbPlace(tasks, r[k].db)
            /\ r[j].db = r[k].db =>
                  /\ SortRank(r[j]) <= SortRank(r[k])
                  /\ SortRank(r[j]) = SortRank(r[k]) /\ r[j].label = r[k].label => m < i
  BY <1>3, RunOrderMeans
<1> QED
  BY <1>3, <1>5, <1>6, <1>7, <1>8

\* Between two search cases of a database there are only such cases.
LEMMA BetweenTwoOfADatabase ==
    ASSUME NEW S, Orderable(S), NEW tasks \in Seq(S), NEW r,
           Lists(r, tasks, DOMAIN tasks, RunOrder(tasks)),
           NEW j \in DOMAIN r, NEW k \in DOMAIN r, NEW l \in DOMAIN r, j < k, k < l,
           r[j].label \in {"Performance", "CloudColdLatency"},
           r[l].label \in {"Performance", "CloudColdLatency"}
    PROVE  /\ r[k].label \in {"Performance", "CloudColdLatency"}
           /\ r[j].db = r[l].db => r[k].db = r[j].db
<1>1. Part(r[j].label) = 4 /\ Part(r[l].label) = 4
  BY DEF Part
<1>2. /\ Part(r[k].label) \in 1..5
      /\ Part(r[j].label) <= Part(r[k].label) /\ Part(r[k].label) <= Part(r[l].label)
      /\ r[k].label \in Labels
  BY RunsInOrder
<1>3. Part(r[k].label) = 4
  BY <1>1, <1>2
<1>4. r[k].label \in {"Performance", "CloudColdLatency"}
  BY <1>2, <1>3, PartOfLabel
<1>5. /\ DbPlace(tasks, r[j].db) \in Nat /\ DbPlace(tasks, r[k].db) \in Nat
      /\ DbPlace(tasks, r[l].db) \in Nat
      /\ DbPlace(tasks, r[j].db) <= DbPlace(tasks, r[k].db)
      /\ DbPlace(tasks, r[k].db) <= DbPlace(tasks, r[l].db)
      /\ r[j].db = r[k].db \/ DbPlace(tasks, r[j].db) # DbPlace(tasks, r[k].db)
  BY <1>1, <1>3, RunsInOrder
<1> QED
  BY <1>4, <1>5

\* A set of numbers without gaps has as many as lie between its ends.
LEMMA NumbersWithoutGaps ==
    ASSUME NEW bound \in Nat, NEW numbers \in SUBSET (1..bound), numbers # {},
           \A a, b \in numbers : \A c \in Nat : a < c /\ c < b => c \in numbers
    PROVE  Max(numbers) - Min(numbers) + 1 = Cardinality(numbers)
<1>1. PICK low \in numbers : \A n \in numbers : low <= n
  BY LeastOfNumbers
<1>2. \A n \in numbers : n \in Nat /\ n <= bound
  OBVIOUS
<1> DEFINE below == {bound - n : n \in numbers}
<1>3. below \in SUBSET Nat /\ below # {}
  BY <1>2
<1>4. PICK d \in below : \A e \in below : d <= e
  <2> HIDE DEF below
  <2> QED
    BY <1>3, LeastOfNumbers
<1>5. PICK high \in numbers : \A n \in numbers : n <= high
  <2>1. PICK high \in numbers : d = bound - high
    BY <1>4
  <2>2. \A n \in numbers : bound - high <= bound - n
    BY <1>4, <2>1
  <2>3. \A n \in numbers : n <= high
    BY <1>2, <2>2
  <2> QED
    BY <2>3
<1>6. Min(numbers) = low
  <2>1. \A x \in numbers : (\A y \in numbers : x <= y) => x = low
    BY <1>1, <1>2
  <2>2. \E x \in numbers : \A y \in numbers : x <= y
    BY <1>1
  <2> QED
    BY <2>1, <2>2 DEF Min
<1>7. Max(numbers) = high
  <2>1. \A x \in numbers : (\A y \in numbers : x >= y) => x = high
    BY <1>2, <1>5
  <2>2. \E x \in numbers : \A y \in numbers : x >= y
    BY <1>2, <1>5
  <2> QED
    BY <2>1, <2>2 DEF Max
<1>8. numbers = low..high
  <2>1. \A c \in numbers : c \in low..high
    BY <1>1, <1>2, <1>5
  <2>2. ASSUME NEW c \in low..high PROVE c \in numbers
    <3>1. c \in Nat /\ low <= c /\ c <= high
      BY <1>2
    <3>2. low < c /\ c < high => c \in numbers
      BY <3>1
    <3>3. c = low \/ c = high \/ (low < c /\ c < high)
      BY <1>2, <3>1
    <3> QED
      BY <3>2, <3>3
  <2> QED
    BY <2>1, <2>2
<1>9. Cardinality(low..high) = high - low + 1
  BY <1>1, <1>5, FS_Interval
<1> QED
  BY <1>6, <1>7, <1>8, <1>9

-------------------------------------------------------------------------------
TheTasks == {Tasks[i] : i \in DOMAIN submitted}

\* What is submitted can be put in order.
LEMMA TasksAreOrderable ==
    ASSUME submitted \in Seq(TaskConfigs), CasesExist
    PROVE  Tasks \in Seq(TheTasks) /\ Orderable(TheTasks)
<1>1. DOMAIN submitted = 1..Len(submitted) /\ Len(submitted) \in Nat
  OBVIOUS
<1>2. Tasks \in Seq(TheTasks)
  <2>1. \A i \in 1..Len(submitted) : Tasks[i] \in TheTasks
    BY <1>1 DEF TheTasks
  <2>2. Tasks = [i \in 1..Len(submitted) |-> Tasks[i]]
    BY <1>1 DEF Tasks
  <2> QED
    BY <1>1, <2>1, <2>2
<1>3. ASSUME NEW i \in DOMAIN submitted
      PROVE  /\ Tasks[i].label \in Labels /\ Tasks[i].size \in Nat
             /\ Tasks[i].streq \in BOOLEAN
  <2> DEFINE config == submitted[i].config
             case == TheCase(submitted[i])
  <2>1. config.case_id \in CaseType
    <3>1. submitted[i] \in TaskConfigs
      OBVIOUS
    <3> QED
      BY <3>1 DEF TaskConfigs, CaseConfigs
  <2>2. case \in case_of(config)
    BY DEF CasesExist, TheCase
  <2>3. IsCase(case)
    <3> HIDE DEF case, config
    <3> QED
      BY <2>1, <2>2, CaseShape
  <2>4. Tasks[i] = TaskOf(submitted[i], case)
    BY DEF Tasks
  <2> HIDE DEF case
  <2>5. /\ Tasks[i].label = case.label /\ Tasks[i].size = case.data.size
        /\ Tasks[i].streq = (case.filter.type = "StrEqual")
    BY <2>4 DEF TaskOf
  <2> QED
    BY <2>3, <2>5 DEF IsCase
<1>4. Orderable(TheTasks)
  BY <1>3 DEF Orderable, TheTasks
<1> QED
  BY <1>2, <1>4

LEMMA NothingToOrder ==
    ASSUME case_runners = <<>>
    PROVE  OrderedForReuse
<1>1. SearchCases = {}
  BY DEF SearchCases
<1> QED
  BY <1>1 DEF OrderedForReuse, DatabasesAreNotInterleaved, SmallFirst

\* What assemble_all makes of tasks that can be ordered is ordered for reuse.
LEMMA AssembledForReuse ==
    ASSUME submitted \in Seq(TaskConfigs), CasesExist, case_runners = AssembleAll(Tasks)
    PROVE  OrderedForReuse
<1> DEFINE r == case_runners
           tasks == Tasks
<1>1. tasks \in Seq(TheTasks) /\ Orderable(TheTasks)
  BY TasksAreOrderable
<1>2. Lists(r, tasks, DOMAIN tasks, RunOrder(tasks))
  BY <1>1, AssemblyIsAnOrder
<1>3. DOMAIN r = 1..Len(r) /\ Len(r) \in Nat
  BY <1>1, <1>2, RunOfTasks
<1> HIDE DEF tasks
<1>4. DatabasesAreNotInterleaved
  <2> SUFFICES ASSUME NEW db \in {case_runners[i].db : i \in SearchCases}
               PROVE  Max(SearchCasesOf(db)) - Min(SearchCasesOf(db)) + 1
                         = Cardinality(SearchCasesOf(db))
    BY DEF DatabasesAreNotInterleaved
  <2> DEFINE places == SearchCasesOf(db)
  <2>1. places \in SUBSET (1..Len(r)) /\ places # {}
    BY <1>3 DEF SearchCasesOf, SearchCases
  <2>2. ASSUME NEW a \in places, NEW b \in places, NEW c \in Nat, a < c, c < b
        PROVE  c \in places
    <3>1. /\ a \in DOMAIN r /\ b \in DOMAIN r
          /\ r[a].label \in {"Performance", "CloudColdLatency"} /\ r[a].db = db
          /\ r[b].label \in {"Performance", "CloudColdLatency"} /\ r[b].db = db
      BY DEF SearchCasesOf, SearchCases
    <3>2. c \in DOMAIN r
      BY <1>3, <2>2, <3>1
    <3>3. r[c].label \in {"Performance", "CloudColdLatency"} /\ r[c].db = db
      BY <1>1, <1>2, <2>2, <3>1, <3>2, BetweenTwoOfADatabase
    <3> QED
      BY <3>2, <3>3 DEF SearchCasesOf, SearchCases
  <2> HIDE DEF places
  <2>3. Max(places) - Min(places) + 1 = Cardinality(places)
    BY <1>3, <2>1, <2>2, NumbersWithoutGaps
  <2> QED
    BY <2>3 DEF places
<1>5. SmallFirst
  <2> SUFFICES ASSUME NEW i \in SearchCases \ {Len(case_runners)}, i + 1 \in SearchCases,
                      r[i].db = r[i + 1].db
               PROVE  LET this == r[i]
                          next == r[i + 1]
                      IN  /\ this.size <= next.size
                          /\ this.size = next.size /\ next.streq => this.streq
                          /\ (this.size = next.size /\ this.streq = next.streq
                                 /\ this.label = next.label)
                                => \E m \in Origins(this), n \in Origins(next) : m <= n
    BY DEF SmallFirst
  <2> DEFINE this == r[i]
             next == r[i + 1]
  <2>1. /\ i \in DOMAIN r /\ i + 1 \in DOMAIN r /\ i < i + 1
        /\ this.label \in {"Performance", "CloudColdLatency"}
        /\ next.label \in {"Performance", "CloudColdLatency"}
    BY <1>3 DEF SearchCases
  <2>2. Part(this.label) = 4 /\ Part(next.label) = 4
    BY <2>1 DEF Part
  <2>3. /\ this.size \in Nat /\ next.size \in Nat
        /\ this.streq \in BOOLEAN /\ next.streq \in BOOLEAN
        /\ SortRank(this) <= SortRank(next)
        /\ SortRank(this) = SortRank(next) /\ this.label = next.label =>
              \E m, n \in DOMAIN tasks : tasks[m] = this /\ tasks[n] = next /\ m < n
    BY <1>1, <1>2, <2>1, <2>2, RunsInOrder
  <2> HIDE DEF this, next
  <2>4. this.size <= next.size
    BY <2>3 DEF SortRank
  <2>5. this.size = next.size /\ next.streq => this.streq
    BY <2>3 DEF SortRank
  <2>6. ASSUME this.size = next.size, this.streq = next.streq, this.label = next.label
        PROVE  \E m \in Origins(this), n \in Origins(next) : m <= n
    <3>1. SortRank(this) = SortRank(next)
      BY <2>6 DEF SortRank
    <3>2. DOMAIN tasks = DOMAIN submitted
      BY DEF tasks, Tasks
    <3>3. PICK m \in DOMAIN submitted, n \in DOMAIN submitted :
             Tasks[m] = this /\ Tasks[n] = next /\ m < n
      BY <2>3, <2>6, <3>1, <3>2 DEF tasks
    <3>4. m \in Origins(this) /\ n \in Origins(next) /\ m <= n
      BY <3>3 DEF Origins
    <3> QED
      BY <3>4
  <2> QED
    BY <2>4, <2>5, <2>6 DEF this, next
<1> QED
  BY <1>4, <1>5 DEF OrderedForReuse

\* The order of a run is the one in which loads can be shared.
THEOREM OrderedRuns == SubmitSpec => []OrderedForReuse
<1>1. SubmitInv => OrderedForReuse
  BY NothingToOrder, AssembledForReuse DEF SubmitInv
<1> QED
  BY <1>1, SubmissionInvariant, PTL

-------------------------------------------------------------------------------
\* Nothing is lost, nothing is repeated.
LEMMA SameLength ==
    ASSUME NEW S, NEW tasks \in Seq(S), NEW r, NEW relation,
           Lists(r, tasks, DOMAIN tasks, relation)
    PROVE  Len(r) = Len(tasks)
<1>1. /\ DOMAIN tasks = 1..Len(tasks) /\ Len(tasks) \in Nat
      /\ Len(r) \in Nat
  BY DEF Lists
<1>2. PICK p \in [1..Len(r) -> DOMAIN tasks] :
        /\ \A i \in DOMAIN tasks : \E j \in 1..Len(r) : p[j] = i
        /\ \A j, k \in 1..Len(r) : j # k => p[j] # p[k]
  BY DEF Lists
<1>3. ExistsBijection(1..Len(r), 1..Len(tasks))
  <2>1. p \in Bijection(1..Len(r), 1..Len(tasks))
    BY <1>1, <1>2 DEF Bijection, Injection, Surjection, IsInjective
  <2> QED
    BY <2>1 DEF ExistsBijection
<1>4. /\ IsFiniteSet(1..Len(r))
      /\ Cardinality(1..Len(r)) = Len(r) /\ Cardinality(1..Len(tasks)) = Len(tasks)
  <2>1. ASSUME NEW n \in Nat PROVE IsFiniteSet(1..n) /\ Cardinality(1..n) = n
    BY FS_Interval
  <2> QED
    BY <1>1, <2>1
<1> QED
  BY <1>3, <1>4, FS_Bijection

LEMMA SameCounts ==
    ASSUME NEW S, NEW tasks \in Seq(S), NEW r, NEW relation,
           Lists(r, tasks, DOMAIN tasks, relation), NEW t
    PROVE  Count(r, t) = Count(tasks, t)
<1>1. /\ DOMAIN tasks = 1..Len(tasks) /\ Len(tasks) \in Nat
      /\ DOMAIN r = 1..Len(r) /\ Len(r) \in Nat
  BY DEF Lists
<1>2. PICK p \in [1..Len(r) -> DOMAIN tasks] :
        /\ \A i \in DOMAIN tasks : \E j \in 1..Len(r) : p[j] = i
        /\ \A j \in 1..Len(r) : r[j] = tasks[p[j]]
        /\ \A j, k \in 1..Len(r) : j # k => p[j] # p[k]
  BY DEF Lists
<1> DEFINE from == {j \in DOMAIN r : r[j] = t}
           to == {i \in DOMAIN tasks : tasks[i] = t}
           q == [j \in from |-> p[j]]
<1>3. q \in Bijection(from, to)
  <2>1. \A j \in from : q[j] \in to
    BY <1>1, <1>2
  <2>2. \A i \in to : \E j \in from : q[j] = i
    BY <1>1, <1>2
  <2>3. \A j, k \in from : q[j] = q[k] => j = k
    BY <1>1, <1>2
  <2>4. q \in [from -> to]
    BY <2>1
  <2> HIDE DEF q, from, to
  <2> QED
    BY <2>2, <2>3, <2>4 DEF Bijection, Injection, Surjection, IsInjective
<1>4. IsFiniteSet(from)
  <2>1. from \in SUBSET (1..Len(r)) /\ IsFiniteSet(1..Len(r))
    BY <1>1, FS_Interval
  <2> QED
    BY <2>1, FS_Subset
<1>5. ExistsBijection(from, to)
  BY <1>3 DEF ExistsBijection
<1> HIDE DEF from, to
<1>6. Cardinality(to) = Cardinality(from)
  BY <1>4, <1>5, FS_Bijection
<1> QED
  BY <1>6 DEF Count, from, to

\* A list of tasks sent to the service is what is pending, and then what is run.
ServiceInv ==
    request.by = "service" /\ outcome \in {"pending", "assembled"} => submitted = request.tasks

LEMMA ServiceInvStep ==
    ASSUME ServiceInv, [SubmitNext]_submitVars
    PROVE  ServiceInv'
<1>1. ASSUME NEW entered \in BOOLEAN, outcome = "idle", SaveCustomDataset(entered)
      PROVE  ServiceInv'
  BY <1>1 DEF SaveCustomDataset, ServiceInv
<1>2. ASSUME PageCannotOpen PROVE ServiceInv'
  BY <1>2 DEF PageCannotOpen, Ask, End, ServiceInv
<1>3. ASSUME NEW form \in Forms, FillForm(form) PROVE ServiceInv'
  <2>1. request'.by = "page"
    BY <1>3 DEF FillForm, Ask
  <2> QED
    BY <2>1 DEF ServiceInv
<1>4. ASSUME NEW command \in Commands, GiveCommand(command) PROVE ServiceInv'
  <2>1. request'.by = "command"
    BY <1>4 DEF GiveCommand, Ask
  <2> QED
    BY <2>1 DEF ServiceInv
<1>5. ASSUME NEW tasks \in Posts, PostTasks(tasks) PROVE ServiceInv'
  <2>1. /\ request'.tasks = tasks
        /\ submitted' = tasks \/ outcome' = "invalid_tasks"
    BY <1>5 DEF PostTasks, Ask, End
  <2> QED
    BY <2>1 DEF ServiceInv
<1>6. ASSUME NEW k \in Ks, PressRun(k) PROVE ServiceInv'
  <2>1. request'.by = "page"
    BY <1>6 DEF PressRun
  <2> QED
    BY <2>1 DEF ServiceInv
<1>7. ASSUME Assemble \/ RefuseCase \/ RefuseFilter PROVE ServiceInv'
  <2>1. /\ outcome = "pending" /\ request' = request /\ submitted' = submitted
    BY <1>7 DEF Assemble, RefuseCase, RefuseFilter, Conclude
  <2> QED
    BY <2>1 DEF ServiceInv
<1>8. ASSUME UNCHANGED submitVars PROVE ServiceInv'
  BY <1>8 DEF submitVars, ServiceInv
<1> QED
  BY <1>1, <1>2, <1>3, <1>4, <1>5, <1>6, <1>7, <1>8 DEF SubmitNext, Request

\* What the service is sent runs, every task as often as it was sent, whatever the
\* list: the part of RunsWhatWasSubmitted that is about the service.
THEOREM ServiceRunsItsPosts ==
    SubmitSpec => [](outcome = "assembled" /\ request.by = "service" => RunsThePost(request.tasks))
<1>1. SubmitInit => ServiceInv
  BY DEF SubmitInit, ServiceInv
<1>2. ServiceInv /\ [SubmitNext]_submitVars => ServiceInv'
  BY ServiceInvStep
<1>3. ASSUME SubmitInv, ServiceInv, outcome = "assembled", request.by = "service"
      PROVE  RunsThePost(request.tasks)
  <2>1. submitted \in Seq(TaskConfigs) /\ CasesExist /\ case_runners = AssembleAll(Tasks)
    BY <1>3 DEF SubmitInv
  <2>2. Tasks \in Seq(TheTasks) /\ Orderable(TheTasks)
    BY <2>1, TasksAreOrderable
  <2>3. Lists(case_runners, Tasks, DOMAIN Tasks, RunOrder(Tasks))
    BY <2>1, <2>2, AssemblyIsAnOrder
  <2>4. Len(case_runners) = Len(Tasks)
    BY <2>2, <2>3, SameLength
  <2>5. \A t : Count(case_runners, t) = Count(Tasks, t)
    BY <2>2, <2>3, SameCounts
  <2>6. submitted = request.tasks
    BY <1>3 DEF ServiceInv
  <2>7. Len(Tasks) = Len(submitted)
    BY <2>1 DEF Tasks
  <2> QED
    BY <2>4, <2>5, <2>6, <2>7 DEF RunsThePost
<1> QED
  BY <1>1, <1>2, <1>3, SubmissionInvariant, PTL DEF SubmitSpec

\* Between two performance cases of an assembled list there are only search cases:
\* what TaskSequence assumes of its plans is what assemble_all makes of every list.
THEOREM AssembledPlansAreInOrder ==
    ASSUME NEW S, Orderable(S), NEW tasks \in Seq(S)
    PROVE  LET p == AssembleAll(tasks)
           IN  \A l, m, n \in DOMAIN p :
                  l < m /\ m < n /\ p[l].label = "Performance" /\ p[n].label = "Performance"
                     => p[m].label \in {"Performance", "CloudColdLatency"}
<1> DEFINE p == AssembleAll(tasks)
<1>1. Lists(p, tasks, DOMAIN tasks, RunOrder(tasks))
  BY AssemblyIsAnOrder
<1> HIDE DEF p
<1>2. ASSUME NEW l \in DOMAIN p, NEW m \in DOMAIN p, NEW n \in DOMAIN p, l < m, m < n,
             p[l].label = "Performance", p[n].label = "Performance"
      PROVE  p[m].label \in {"Performance", "CloudColdLatency"}
  BY <1>1, <1>2, BetweenTwoOfADatabase
<1> QED
  BY <1>2 DEF p

-------------------------------------------------------------------------------
(* The loop over the cases.                                                      *)

\* A reuse key is a pair, never the absent key.
LEMMA KeyIsPair ==
    ASSUME NEW t, NEW c
    PROVE  <<t, c>> # NoKey
BY DEF NoKey

\* What load_reuse_key returns: a pair for performance cases only.
LEMMA KeyOfTask ==
    ASSUME NEW t \in Task
    PROVE  /\ LoadReuseKey(t) \in {NoKey} \cup (Targets \X Contents)
           /\ t.label = "Performance" => LoadReuseKey(t) = <<t.target, t.content>>
           /\ t.label = "Performance" <=> LoadReuseKey(t) # NoKey
BY KeyIsPair DEF LoadReuseKey, Task

\* The case the loop is at is one of the plan's tasks.
LEMMA CaseIsTask ==
    ASSUME TypeOK, idx <= Len(plan)
    PROVE  Case \in Task
BY DEF TypeOK, Case

\* Dropping or filling the case's collection keeps collections well typed.
LEMMA OpensType ==
    ASSUME TypeOK, Opens, idx <= Len(plan)
    PROVE  coll' \in [Targets -> Collection]
<1>1. Case.target \in Targets /\ Case.content \in Contents
  BY CaseIsTask DEF Task
<1>2. coll \in [Targets -> Collection]
  BY DEF TypeOK
<1> QED
  BY <1>1, <1>2 DEF Opens, Collection, Dropped

\* So does an insertion or a load of the case.
LEMMA BecomesType ==
    ASSUME TypeOK, idx <= Len(plan),
           NEW r \in Contents \cup {Foreign, Nothing},
           NEW s \in {"partial", "loaded", "ready"},
           Becomes(r, s)
    PROVE  coll' \in [Targets -> Collection]
BY CaseIsTask DEF TypeOK, Becomes, Collection, Task

\* A step that records a result and otherwise keeps types keeps TypeOK.
LEMMA RecordingStep ==
    ASSUME TypeOK, idx <= Len(plan), UNCHANGED <<plan, runnerDropOld, drop, loadDur, searched>>,
           touched' \in BOOLEAN, coll' \in [Targets -> Collection],
           latest' \in {NoKey} \cup (Targets \X Contents), cached' \in Nat,
           NEW l \in ResultLabels, NEW w \in Reasons, NEW d \in Nat,
           Record(l, w, d)
    PROVE  TypeOK'
<1>1. results' \in Seq(CaseResult) /\ Len(results') = Len(results) + 1
  BY DEF TypeOK, Record, AppendResult, CaseResult
<1>2. idx' = idx + 1 /\ pc' = "start"
  BY DEF Record
<1>3. plan' \in Seq(Task) /\ Len(plan) \in Nat /\ Len(results) \in Nat
  BY DEF TypeOK
<1>4. QED
  BY <1>1, <1>2, <1>3 DEF TypeOK, PCs

\* So does a step within a case.
LEMMA InnerStep ==
    ASSUME TypeOK, idx <= Len(plan),
           UNCHANGED <<plan, runnerDropOld, drop, idx, results, latest, cached>>,
           touched' \in BOOLEAN, coll' \in [Targets -> Collection],
           loadDur' \in Nat, searched' \in Collection \cup {Unsearched},
           pc' \in PCs
    PROVE  TypeOK'
<1>1. plan' = plan /\ idx' = idx /\ results' = results
  OBVIOUS
<1>2. QED
  BY <1>1 DEF TypeOK

\* Every step keeps the types.
LEMMA TypeStep ==
    ASSUME TypeOK, [Next]_vars
    PROVE  TypeOK'
<1>0. /\ touched \in BOOLEAN /\ drop \in BOOLEAN /\ loadDur \in Nat
      /\ latest \in {NoKey} \cup (Targets \X Contents) /\ cached \in Nat
      /\ coll \in [Targets -> Collection]
      /\ searched \in Collection \cup {Unsearched}
      /\ idx \in Nat
      /\ pc \notin {"start", "success", "error"} => idx <= Len(plan)
  BY DEF TypeOK
<1>1. CASE StartCase
  <2>1. drop' \in BOOLEAN
    BY <1>1 DEF StartCase, ChooseDrop
  <2>2. pc' \in PCs /\ loadDur' = 0 /\ touched' = FALSE /\ searched' = Unsearched
    BY <1>1 DEF StartCase, PCs
  <2>3. UNCHANGED <<plan, runnerDropOld, coll, idx, latest, cached, results>>
    BY <1>1 DEF StartCase
  <2>4. idx <= Len(plan)
    BY <1>1 DEF StartCase
  <2>5. QED
    BY <2>1, <2>2, <2>3, <2>4 DEF TypeOK
<1>2. CASE PreRun
  <2>1. idx <= Len(plan) /\ pc' \in PCs
    BY <1>0, <1>2 DEF PreRun, AfterPreRun, AfterLoad, PCs
  <2>2. coll' \in [Targets -> Collection]
    BY <1>2, <2>1, OpensType DEF PreRun
  <2>3. QED
    BY <1>0, <1>2, <2>1, <2>2, InnerStep DEF PreRun
<1>3. CASE PreRunRejects
  BY <1>0, <1>3, RecordingStep DEF PreRunRejects, ResultLabels, Reasons
<1>4. CASE PreRunFails
  <2>1. idx <= Len(plan)
    BY <1>0, <1>4 DEF PreRunFails
  <2>2. coll' \in [Targets -> Collection] /\ touched' \in BOOLEAN
    BY <1>0, <1>4, <2>1, OpensType DEF PreRunFails
  <2>3. QED
    BY <1>0, <1>4, <2>1, <2>2, RecordingStep
       DEF PreRunFails, Fails, ResultLabels, Reasons
<1>5. CASE Insert
  <2>1. idx <= Len(plan) /\ touched' \in BOOLEAN
    BY <1>0, <1>5 DEF Insert
  <2>2. coll' \in [Targets -> Collection]
    BY <1>5, <2>1, BecomesType DEF Insert
  <2>3. CASE pc' = "complete" /\ UNCHANGED <<idx, results>>
    BY <1>0, <1>5, <2>1, <2>2, <2>3, InnerStep DEF Insert, PCs
  <2>4. CASE \E l \in ResultLabels, w \in Reasons : Record(l, w, 0)
    BY <1>0, <1>5, <2>1, <2>2, <2>4, RecordingStep DEF Insert
  <2>5. QED
    BY <1>5, <2>3, <2>4 DEF Insert, Fails, ResultLabels, Reasons
<1>6. CASE Load
  <2>1. idx <= Len(plan) /\ Case.content \in Contents
    BY <1>0, <1>6, CaseIsTask DEF Load, Task
  <2>2. coll' \in [Targets -> Collection]
    BY <1>6, <2>1, BecomesType DEF Load
  <2>3. QED
    BY <1>0, <1>6, <2>1, <2>2, InnerStep DEF Load, PCs
<1>7. CASE LoadFails
  <2>1. idx <= Len(plan) /\ Case.content \in Contents
    BY <1>0, <1>7, CaseIsTask DEF LoadFails, Task
  <2>2. coll' \in [Targets -> Collection] /\ touched' \in BOOLEAN
    BY <1>0, <1>7, <2>1, BecomesType DEF LoadFails
  <2>3. \E l \in ResultLabels, w \in Reasons : Record(l, w, 0)
    BY <1>7 DEF LoadFails, Fails, LoadTimeoutLabel, ResultLabels, Reasons
  <2>4. QED
    BY <1>0, <1>7, <2>1, <2>2, <2>3, RecordingStep DEF LoadFails
<1>8. CASE Optimize
  <2>1. idx <= Len(plan) /\ Case.target \in Targets
    BY <1>0, <1>8, CaseIsTask DEF Optimize, Task
  <2>2. Held.rows \in Contents \cup {Foreign, Nothing}
    BY <1>0, <2>1 DEF Held, Collection
  <2>3. coll' \in [Targets -> Collection]
    BY <1>8, <2>1, <2>2, BecomesType DEF Optimize
  <2>4. QED
    BY <1>0, <1>8, <2>1, <2>3, InnerStep DEF Optimize, AfterLoad, PCs
<1>9. CASE OptimizeFails
  BY <1>0, <1>9, RecordingStep DEF OptimizeFails, Fails, ResultLabels, Reasons
<1>10. CASE Search
  <2>1. idx <= Len(plan) /\ Case.target \in Targets
    BY <1>0, <1>10, CaseIsTask DEF Search, Task
  <2>2. QED
    BY <1>0, <1>10, <2>1, InnerStep DEF Search, AfterSearch, PCs, Held
<1>11. CASE SearchFails
  BY <1>0, <1>11, RecordingStep DEF SearchFails, Fails, ResultLabels, Reasons
<1>12. CASE Complete
  <2>1. idx <= Len(plan)
    BY <1>0, <1>12 DEF Complete
  <2>2. LoadReuseKey(Case) \in {NoKey} \cup (Targets \X Contents)
    BY <2>1, CaseIsTask, KeyOfTask
  <2>3. \E d \in Nat : Record("NORMAL", "none", d)
    BY <1>0, <1>12 DEF Complete
  <2>4. latest' \in {NoKey} \cup (Targets \X Contents) /\ cached' \in Nat
    BY <1>0, <1>12, <2>2 DEF Complete
  <2>5. QED
    BY <1>0, <1>12, <2>1, <2>3, <2>4, RecordingStep
       DEF Complete, ResultLabels, Reasons
<1>13. CASE Flush
  BY <1>13 DEF Flush, TypeOK, PCs
<1>14. CASE UNCHANGED vars
  BY <1>14 DEF vars, TypeOK
<1>15. QED
  BY <1>1, <1>2, <1>3, <1>4, <1>5, <1>6, <1>7, <1>8, <1>9, <1>10, <1>11,
     <1>12, <1>13, <1>14 DEF Next

\* The loop starts well typed.
LEMMA TypeInit ==
    ASSUME Init
    PROVE  TypeOK
<1> USE DEF Init
<1>1. plan \in Seq(Task) /\ Len(plan) \in Nat
  BY PlansAssumption
<1>2. coll \in [Targets -> Collection]
  BY DEF Leftover, Collection
<1>3. results \in Seq(CaseResult) /\ Len(results) = 0
  OBVIOUS
<1>4. /\ idx = 1 /\ pc = "start" /\ loadDur = 0 /\ cached = 0
      /\ latest = NoKey /\ searched = Unsearched
      /\ drop = FALSE /\ touched = FALSE
  OBVIOUS
<1>5. runnerDropOld \in BOOLEAN
  OBVIOUS
<1> HIDE DEF Init
<1>6. idx \in Nat \ {0} /\ idx = Len(results) + 1 /\ idx <= Len(plan) + 1
  BY <1>1, <1>3, <1>4
<1>7. QED
  BY <1>1, <1>2, <1>3, <1>4, <1>5, <1>6 DEF TypeOK, PCs

\* The loop's state keeps its types.
THEOREM TypeCorrect == Spec => []TypeOK
<1>1. Init => TypeOK
  BY TypeInit
<1>2. TypeOK /\ [Next]_vars => TypeOK'
  BY TypeStep
<1>3. QED
  BY <1>1, <1>2, PTL DEF Spec

-----------------------------------------------------------------------------
\* Recording appends one result and leaves the earlier ones alone.
LEMMA Appended ==
    ASSUME TypeOK, idx <= Len(plan), NEW r, results' = Append(results, r)
    PROVE  /\ idx \in Nat /\ idx >= 1
           /\ DOMAIN results = 1..(idx - 1)
           /\ DOMAIN results' = 1..idx
           /\ results'[idx] = r
           /\ \A n \in 1..(idx - 1) : results'[n] = results[n]
BY DEF TypeOK

\* What earlier results attest they keep attesting.
LEMMA AttestationsStay ==
    ASSUME TypeOK, idx <= Len(plan), plan' = plan, NEW r, results' = Append(results, r)
    PROVE  /\ \A l, k : MadeLoad(l, k) => MadeLoad(l, k)'
           /\ \A m, t : Disturbed(m, t) => Disturbed(m, t)'
           /\ \A n \in 1..(idx - 1) : ClaimsOwnLoad(n)' /\ runnerDropOld' = runnerDropOld
                                        => ClaimsOwnLoad(n)
           /\ \A n \in 1..(idx - 1) : MeasuredOwnLoad(n) <=> MeasuredOwnLoad(n)'
<1>1. /\ DOMAIN results = 1..(idx - 1) /\ DOMAIN results' = 1..idx
      /\ \A n \in 1..(idx - 1) : results'[n] = results[n]
      /\ idx \in Nat
  BY Appended
<1>2. \A n \in DOMAIN results : n \in DOMAIN results'
  BY <1>1
<1>3. QED
  BY <1>1, <1>2 DEF MadeLoad, Disturbed, ClaimsOwnLoad, MeasuredOwnLoad

\* The three statements about results survive a result that satisfies them.
LEMMA ResultsKept ==
    ASSUME TypeOK, idx <= Len(plan), UNCHANGED <<plan, runnerDropOld>>,
           MisledOnlyByDisturbance, ReportedLoadHappened, SkippedLoadIsCovered,
           NEW r, results' = Append(results, r),
           r.label = "NORMAL" /\ r.searched # Unsearched /\ runnerDropOld
             /\ Case.label = "Performance" /\ {"DROP_OLD", "LOAD"} \subseteq Case.stages
             /\ r.searched # Ready(Case.content)
             => \E l, m \in 1..(idx - 1) : /\ l < m
                                           /\ MadeLoad(l, LoadReuseKey(Case))
                                           /\ Disturbed(m, Case.target),
           r.load # 0 => /\ r.load <= idx
                         /\ plan[r.load].label = Case.label
                         /\ r.load = idx \/ MadeLoad(r.load, LoadReuseKey(Case)),
           r.label = "NORMAL" /\ runnerDropOld
             /\ Case.label \in {"Performance", "FullTextSearch"}
             /\ {"DROP_OLD", "LOAD"} \subseteq Case.stages
             => r.load # 0
    PROVE  MisledOnlyByDisturbance' /\ ReportedLoadHappened' /\ SkippedLoadIsCovered'
<1>1. /\ idx \in Nat /\ idx >= 1
      /\ DOMAIN results = 1..(idx - 1) /\ DOMAIN results' = 1..idx
      /\ results'[idx] = r
      /\ \A n \in 1..(idx - 1) : results'[n] = results[n]
  BY Appended
<1>2. /\ \A l, k : MadeLoad(l, k) => MadeLoad(l, k)'
      /\ \A m, t : Disturbed(m, t) => Disturbed(m, t)'
  BY AttestationsStay
<1>3. plan' = plan /\ runnerDropOld' = runnerDropOld /\ Case = plan[idx]
  BY DEF Case
<1>4. /\ \A n \in DOMAIN results' : n \in DOMAIN results \/ n = idx
      /\ \A n \in DOMAIN results : n \in DOMAIN results'
  BY <1>1
<1>5. MisledOnlyByDisturbance'
  <2> SUFFICES ASSUME NEW n \in DOMAIN results', ClaimsOwnLoad(n)', ~MeasuredOwnLoad(n)'
               PROVE  \E l, m \in 1..(n - 1) :
                         /\ l < m
                         /\ MadeLoad(l, LoadReuseKey(plan[n]))'
                         /\ Disturbed(m, plan[n].target)'
    BY DEF MisledOnlyByDisturbance
  <2>1. CASE n \in DOMAIN results
    <3>1. ClaimsOwnLoad(n) /\ ~MeasuredOwnLoad(n)
      BY <1>1, <1>3, <2>1 DEF ClaimsOwnLoad, MeasuredOwnLoad
    <3>2. \E l, m \in 1..(n - 1) : /\ l < m
                                   /\ MadeLoad(l, LoadReuseKey(plan[n]))
                                   /\ Disturbed(m, plan[n].target)
      BY <2>1, <3>1 DEF MisledOnlyByDisturbance
    <3>3. PICK l \in 1..(n - 1), m \in 1..(n - 1) :
             /\ l < m
             /\ MadeLoad(l, LoadReuseKey(plan[n]))
             /\ Disturbed(m, plan[n].target)
      BY <3>2
    <3>4. MadeLoad(l, LoadReuseKey(plan[n]))' /\ Disturbed(m, plan[n].target)'
      BY <1>1, <1>3, <1>4, <3>3 DEF MadeLoad, Disturbed
    <3>5. QED
      BY <3>3, <3>4
  <2>2. CASE n = idx
    <3>1. \E l, m \in 1..(idx - 1) : /\ l < m
                                     /\ MadeLoad(l, LoadReuseKey(Case))
                                     /\ Disturbed(m, Case.target)
      BY <1>1, <1>3, <2>2 DEF ClaimsOwnLoad, MeasuredOwnLoad
    <3>2. PICK l \in 1..(idx - 1), m \in 1..(idx - 1) :
             /\ l < m
             /\ MadeLoad(l, LoadReuseKey(Case))
             /\ Disturbed(m, Case.target)
      BY <3>1
    <3>3. MadeLoad(l, LoadReuseKey(plan[n]))' /\ Disturbed(m, plan[n].target)'
      BY <1>1, <1>3, <1>4, <2>2, <3>2 DEF MadeLoad, Disturbed
    <3>4. QED
      BY <2>2, <3>2, <3>3
  <2>3. QED
    BY <1>4, <2>1, <2>2
<1>6. ReportedLoadHappened'
  <2> SUFFICES ASSUME NEW n \in DOMAIN results', results'[n].load # 0
               PROVE  /\ results'[n].load <= n
                      /\ plan'[results'[n].load].label = plan'[n].label
                      /\ \/ results'[n].load = n
                         \/ MadeLoad(results[n].load, LoadReuseKey(plan[n]))'
    BY DEF ReportedLoadHappened
  <2>1. CASE n \in DOMAIN results
    BY <1>1, <1>3, <1>4, <2>1 DEF ReportedLoadHappened, MadeLoad
  <2>2. CASE n = idx
    BY <1>1, <1>3, <1>4, <2>2 DEF MadeLoad
  <2>3. QED
    BY <1>4, <2>1, <2>2
<1>7. SkippedLoadIsCovered'
  BY <1>1, <1>3, <1>4 DEF SkippedLoadIsCovered
<1>8. QED
  BY <1>5, <1>6, <1>7

\* A case that fails, having touched at most its own collection, leaves the
\* invariant intact: if it touched the remembered load's collection, its own
\* result attests it.
LEMMA FailingStep ==
    ASSUME LoopInv, InCase, UNCHANGED <<plan, runnerDropOld, latest, cached>>,
           touched' \in BOOLEAN, touched => touched',
           \/ coll' = coll
           \/ touched' /\ \A t \in Targets : t # Case.target => coll'[t] = coll[t],
           NEW l \in {"FAILED", "OUTOFRANGE"}, NEW w, Record(l, w, 0)
    PROVE  /\ RememberedLoad' /\ CaseAtWork'
           /\ MisledOnlyByDisturbance' /\ ReportedLoadHappened' /\ SkippedLoadIsCovered'
<1> DEFINE r == [label |-> l, reason |-> w, load |-> 0, touched |-> touched',
                 searched |-> searched]
<1>0. TypeOK /\ idx <= Len(plan)
  BY DEF LoopInv, InCase, TypeOK
<1>1. results' = Append(results, r) /\ pc' = "start"
  BY DEF Record, AppendResult
<1>2. CaseAtWork'
  BY <1>1 DEF CaseAtWork, InCase
<1>3. r.label # "NORMAL" /\ r.load = 0 /\ r.touched = touched'
  OBVIOUS
<1>4. MisledOnlyByDisturbance' /\ ReportedLoadHappened' /\ SkippedLoadIsCovered'
  BY <1>0, <1>1, <1>3, ResultsKept DEF LoopInv
<1>5. RememberedLoad'
  <2> SUFFICES ASSUME latest # NoKey
               PROVE  /\ MadeLoad(cached, latest)'
                      /\ \/ coll'[latest[1]] = Ready(latest[2])
                         \/ \E m \in DOMAIN results' : cached < m /\ Disturbed(m, latest[1])'
    BY DEF RememberedLoad
  <2>0. MadeLoad(cached, latest) /\ MadeLoad(cached, latest)'
    BY <1>0, <1>1, AttestationsStay DEF LoopInv, RememberedLoad
  <2>1. /\ DOMAIN results = 1..(idx - 1) /\ DOMAIN results' = 1..idx
        /\ results'[idx] = r /\ idx \in Nat /\ idx >= 1
    BY <1>0, <1>1, Appended
  <2>2. cached < idx
    BY <2>0, <2>1, <1>0 DEF MadeLoad, TypeOK
  <2>3. latest[1] \in Targets
    BY <1>0 DEF TypeOK
  <2>4. ASSUME NEW i, i = idx, touched', Case.target = latest[1]
        PROVE  Disturbed(i, latest[1])'
    BY <1>3, <2>1, <2>4 DEF Disturbed, Case
  <2>5. CASE touched' /\ Case.target = latest[1]
    BY <2>0, <2>1, <2>2, <2>4, <2>5
  <2>6. CASE ~(touched' /\ Case.target = latest[1])
    <3>1. coll'[latest[1]] = coll[latest[1]]
      BY <2>3, <2>6
    <3>2. \/ coll[latest[1]] = Ready(latest[2])
          \/ \E m \in DOMAIN results : cached < m /\ Disturbed(m, latest[1])
      BY <2>6 DEF LoopInv, RememberedLoad
    <3>3. \A m \in DOMAIN results : m \in DOMAIN results'
      BY <2>1
    <3>4. \A m, t : Disturbed(m, t) => Disturbed(m, t)'
      BY <1>0, <1>1, AttestationsStay
    <3>5. QED
      BY <2>0, <3>1, <3>2, <3>3, <3>4
  <2>7. QED
    BY <2>5, <2>6
<1>6. QED
  BY <1>2, <1>4, <1>5

\* A step inside a case that changes at most its own collection, and counts
\* as having touched it, leaves the remembered load as it was.
LEMMA RememberedWithinCase ==
    ASSUME LoopInv, InCase, InCase',
           UNCHANGED <<plan, idx, results, latest, cached>>,
           touched' \in BOOLEAN, touched => touched',
           \/ coll' = coll
           \/ touched' /\ \A t \in Targets : t # Case.target => coll'[t] = coll[t]
    PROVE  RememberedLoad'
<1> SUFFICES ASSUME latest # NoKey
             PROVE  /\ MadeLoad(cached, latest)'
                    /\ \/ coll'[latest[1]] = Ready(latest[2])
                       \/ \E m \in DOMAIN results' : cached' < m /\ Disturbed(m, latest[1])'
                       \/ touched' /\ (Case.target)' = latest[1]
  BY DEF RememberedLoad
<1>1. /\ MadeLoad(cached, latest)
      /\ \/ coll[latest[1]] = Ready(latest[2])
         \/ \E m \in DOMAIN results : cached < m /\ Disturbed(m, latest[1])
         \/ touched /\ Case.target = latest[1]
  BY DEF LoopInv, RememberedLoad
<1>2. plan' = plan /\ idx' = idx /\ results' = results /\ latest' = latest /\ cached' = cached
  OBVIOUS
<1>3. latest[1] \in Targets
  BY DEF LoopInv, TypeOK
<1>4. MadeLoad(cached, latest)'
  BY <1>1, <1>2 DEF MadeLoad
<1>5. (Case.target)' = Case.target
  BY <1>2 DEF Case
<1>6. ASSUME NEW m, Disturbed(m, latest[1]) PROVE Disturbed(m, latest[1])'
  BY <1>2, <1>6 DEF Disturbed
<1>7. QED
  BY <1>1, <1>2, <1>3, <1>4, <1>5, <1>6

\* The statements about results depend on nothing else.
LEMMA ResultsUnchanged ==
    ASSUME LoopInv, UNCHANGED <<plan, runnerDropOld, results>>
    PROVE  MisledOnlyByDisturbance' /\ ReportedLoadHappened' /\ SkippedLoadIsCovered'
<1>1. plan' = plan /\ runnerDropOld' = runnerDropOld /\ results' = results
  OBVIOUS
<1>2. /\ \A n : ClaimsOwnLoad(n)' <=> ClaimsOwnLoad(n)
      /\ \A n : MeasuredOwnLoad(n)' <=> MeasuredOwnLoad(n)
      /\ \A l, k : MadeLoad(l, k)' <=> MadeLoad(l, k)
      /\ \A m, t : Disturbed(m, t)' <=> Disturbed(m, t)
  BY <1>1 DEF ClaimsOwnLoad, MeasuredOwnLoad, MadeLoad, Disturbed
<1>3. QED
  BY <1>1, <1>2 DEF LoopInv, MisledOnlyByDisturbance, ReportedLoadHappened,
                    SkippedLoadIsCovered

\* The strengthened invariant holds before the first case.
LEMMA LoopInvInit == Init => LoopInv
<1> SUFFICES ASSUME Init PROVE LoopInv
  OBVIOUS
<1>1. TypeOK
  BY TypeInit
<1>2. results = <<>> /\ latest = NoKey /\ pc = "start"
  BY DEF Init
<1>3. QED
  BY <1>1, <1>2 DEF LoopInv, RememberedLoad, CaseAtWork, InCase,
     MisledOnlyByDisturbance, ReportedLoadHappened, SkippedLoadIsCovered

\* Every step keeps the strengthened invariant.
LEMMA LoopInvStep ==
    ASSUME LoopInv, [Next]_vars
    PROVE  LoopInv'
<1>0. /\ TypeOK /\ TypeOK'
      /\ touched \in BOOLEAN /\ drop \in BOOLEAN
      /\ InCase => idx <= Len(plan) /\ Case \in Task
  BY TypeStep, CaseIsTask DEF LoopInv, TypeOK, InCase
<1>1. CASE StartCase
  <2>1. RememberedLoad'
    <3>1. RememberedLoad /\ ~InCase
      BY <1>1 DEF StartCase, LoopInv, InCase
    <3>2. plan' = plan /\ coll' = coll /\ results' = results /\ latest' = latest /\ cached' = cached
      BY <1>1 DEF StartCase
    <3>3. \A l, k : MadeLoad(l, k)' <=> MadeLoad(l, k)
      BY <3>2 DEF MadeLoad
    <3>4. \A m, t : Disturbed(m, t)' <=> Disturbed(m, t)
      BY <3>2 DEF Disturbed
    <3>5. QED
      BY <3>1, <3>2, <3>3, <3>4 DEF RememberedLoad
  <2>2. CaseAtWork'
    BY <1>1 DEF StartCase, CaseAtWork, ChooseDrop, Case, InCase
  <2>3. QED
    BY <1>0, <1>1, <2>1, <2>2, ResultsUnchanged DEF StartCase, LoopInv
<1>2. CASE PreRun
  <2>1. InCase /\ InCase' /\ ~touched
    BY <1>2 DEF PreRun, AfterPreRun, AfterLoad, InCase, LoopInv, CaseAtWork
  <2>2. \/ coll' = coll
        \/ touched' /\ \A t \in Targets : t # Case.target => coll'[t] = coll[t]
    BY <1>0, <1>2 DEF PreRun, Opens, TypeOK
  <2>3. RememberedLoad'
    BY <1>0, <1>2, <2>1, <2>2, RememberedWithinCase DEF PreRun
  <2>4. Case.label = "CloudColdLatency" => ~touched'
    BY <1>2 DEF PreRun, RejectedUpFront
  <2>5. CaseAtWork'
    BY <1>0, <1>2, <2>1, <2>4
       DEF PreRun, AfterPreRun, AfterLoad, CaseAtWork, ChooseDrop, Case, Has, InCase, LoopInv, Task, Labels
  <2>6. QED
    BY <1>0, <1>2, <2>3, <2>5, ResultsUnchanged DEF PreRun, LoopInv
<1>3. CASE PreRunRejects
  <2>1. InCase /\ ~touched
    BY <1>3 DEF PreRunRejects, InCase, LoopInv, CaseAtWork
  <2>2. QED
    BY <1>0, <1>3, <2>1, FailingStep DEF PreRunRejects, LoopInv
<1>4. CASE PreRunFails
  <2>1. InCase /\ ~touched
    BY <1>4 DEF PreRunFails, InCase, LoopInv, CaseAtWork
  <2>2. \/ coll' = coll
        \/ touched' /\ \A t \in Targets : t # Case.target => coll'[t] = coll[t]
    BY <1>0, <1>4 DEF PreRunFails, Opens, TypeOK
  <2>3. QED
    BY <1>0, <1>4, <2>1, <2>2, FailingStep DEF PreRunFails, Fails, LoopInv
<1>5. CASE Insert
  <2>1. InCase /\ touched' = TRUE
    BY <1>5 DEF Insert, InCase
  <2>2. \A t \in Targets : t # Case.target => coll'[t] = coll[t]
    BY <1>0, <1>5 DEF Insert, Becomes, TypeOK
  <2>3. CASE pc' = "complete" /\ UNCHANGED <<idx, results>>
    <3>1. InCase'
      BY <2>3 DEF InCase
    <3>2. RememberedLoad'
      BY <1>0, <1>5, <2>1, <2>2, <2>3, <3>1, RememberedWithinCase DEF Insert
    <3>3. CaseAtWork'
      BY <1>0, <1>5, <2>1, <2>3
         DEF Insert, CaseAtWork, ChooseDrop, Case, Has, InCase, LoopInv
    <3>4. QED
      BY <1>0, <1>5, <2>3, <3>2, <3>3, ResultsUnchanged DEF Insert, LoopInv
  <2>4. CASE \E l \in {"FAILED", "OUTOFRANGE"}, w \in Reasons : Record(l, w, 0)
    BY <1>0, <1>5, <2>1, <2>2, <2>4, FailingStep DEF Insert, LoopInv
  <2>5. QED
    BY <1>5, <2>3, <2>4 DEF Insert, Fails, Reasons
<1>6. CASE Load
  <2>1. InCase /\ InCase' /\ touched
    BY <1>6 DEF Load, InCase, LoopInv, CaseAtWork
  <2>2. \A t \in Targets : t # Case.target => coll'[t] = coll[t]
    BY <1>0, <1>6 DEF Load, Becomes, TypeOK
  <2>3. RememberedLoad'
    BY <1>0, <1>6, <2>1, <2>2, RememberedWithinCase DEF Load
  <2>4. Held' = [rows |-> Case.content, state |-> "loaded"]
    BY <1>0, <1>6, <2>1 DEF Load, Becomes, TypeOK, Held, Case, Task
  <2>5. CaseAtWork'
    BY <1>0, <1>6, <2>1, <2>4
       DEF Load, CaseAtWork, ChooseDrop, Case, Has, InCase, LoopInv
  <2>6. QED
    BY <1>0, <1>6, <2>3, <2>5, ResultsUnchanged DEF Load, LoopInv
<1>7. CASE LoadFails
  <2>1. InCase /\ touched
    BY <1>7 DEF LoadFails, InCase, LoopInv, CaseAtWork
  <2>2. \A t \in Targets : t # Case.target => coll'[t] = coll[t]
    BY <1>0, <1>7 DEF LoadFails, Becomes, TypeOK
  <2>3. \E l \in {"FAILED", "OUTOFRANGE"}, w \in Reasons : Record(l, w, 0)
    BY <1>7 DEF LoadFails, Fails, LoadTimeoutLabel, Reasons
  <2>4. QED
    BY <1>0, <1>7, <2>1, <2>2, <2>3, FailingStep DEF LoadFails, LoopInv
<1>8. CASE Optimize
  <2>1. InCase /\ InCase' /\ touched
    BY <1>8 DEF Optimize, AfterLoad, InCase, LoopInv, CaseAtWork
  <2>2. \A t \in Targets : t # Case.target => coll'[t] = coll[t]
    BY <1>0, <1>8 DEF Optimize, Becomes, TypeOK
  <2>3. RememberedLoad'
    BY <1>0, <1>8, <2>1, <2>2, RememberedWithinCase DEF Optimize
  <2>4. Held' = Ready(Case.content)
    BY <1>0, <1>8, <2>1
       DEF Optimize, Becomes, TypeOK, Held, Case, Task, Ready, LoopInv, CaseAtWork
  <2>5. CaseAtWork'
    BY <1>0, <1>8, <2>1, <2>4
       DEF Optimize, AfterLoad, CaseAtWork, ChooseDrop, Case, Has, InCase, LoopInv
  <2>6. QED
    BY <1>0, <1>8, <2>3, <2>5, ResultsUnchanged DEF Optimize, LoopInv
<1>9. CASE OptimizeFails
  <2>1. InCase
    BY <1>9 DEF OptimizeFails, InCase
  <2>2. \E l \in {"FAILED", "OUTOFRANGE"}, w \in Reasons : Record(l, w, 0)
    BY <1>9 DEF OptimizeFails, Fails, Reasons
  <2>3. QED
    BY <1>0, <1>9, <2>1, <2>2, FailingStep DEF OptimizeFails, LoopInv
<1>10. CASE Search
  <2>1. InCase /\ InCase'
    BY <1>10 DEF Search, AfterSearch, InCase
  <2>2. RememberedLoad'
    BY <1>0, <1>10, <2>1, RememberedWithinCase DEF Search
  <2>3. CaseAtWork'
    BY <1>0, <1>10, <2>1
       DEF Search, AfterSearch, CaseAtWork, ChooseDrop, Case, Held, Has, InCase, LoopInv
  <2>4. QED
    BY <1>0, <1>10, <2>2, <2>3, ResultsUnchanged DEF Search, LoopInv
<1>11. CASE SearchFails
  <2>1. InCase
    BY <1>11 DEF SearchFails, InCase
  <2>2. QED
    BY <1>0, <1>11, <2>1, FailingStep DEF SearchFails, Fails, LoopInv
<1>12. CASE Complete
  <2>1. InCase /\ idx <= Len(plan) /\ Case \in Task /\ ~InCase'
    BY <1>0, <1>12 DEF Complete, Record, InCase
  <2> DEFINE reuses == ReusesLoad(Case)
             load == IF reuses THEN cached ELSE loadDur
             r == [label |-> "NORMAL", reason |-> "none", load |-> load,
                   touched |-> touched, searched |-> searched]
  <2>2. results' = Append(results, r) /\ pc' = "start" /\ idx' = idx + 1
    BY <1>12 DEF Complete, Record, AppendResult
  <2>3. /\ drop <=> ChooseDrop(Case)
        /\ drop => touched
        /\ touched /\ Case.label = "Performance" => drop
        /\ drop /\ Has("LOAD") /\ Case.label \in {"Performance", "FullTextSearch"}
             => Held = Ready(Case.content) /\ loadDur = idx
        /\ searched # Unsearched => searched = Held
        /\ loadDur # 0 => loadDur = idx
    BY <1>12, <2>1 DEF Complete, LoopInv, CaseAtWork
  <2>4. latest # NoKey => MadeLoad(cached, latest)
    BY DEF LoopInv, RememberedLoad
  <2>5. /\ DOMAIN results = 1..(idx - 1) /\ idx \in Nat /\ idx >= 1
        /\ DOMAIN results' = 1..idx
        /\ results'[idx] = r
        /\ \A n \in 1..(idx - 1) : results'[n] = results[n]
    BY <1>0, <2>1, <2>2, Appended
  <2>6. Case.label = "Performance" =>
           LoadReuseKey(Case) = <<Case.target, Case.content>> /\ LoadReuseKey(Case) # NoKey
    BY <2>1, KeyOfTask
  <2>7. LoadReuseKey(Case) # NoKey => Case.label = "Performance"
    BY <2>1, KeyOfTask
  <2>8. UNCHANGED <<plan, runnerDropOld, coll>> /\ touched' = touched
    BY <1>12 DEF Complete
  \* The new result claims its own load: either it made it, or it reused the
  \* remembered one without touching the collection.
  <2>9. ASSUME r.label = "NORMAL", searched # Unsearched, runnerDropOld,
               Case.label = "Performance", {"DROP_OLD", "LOAD"} \subseteq Case.stages,
               searched # Ready(Case.content)
        PROVE  \E l, m \in 1..(idx - 1) : /\ l < m
                                           /\ MadeLoad(l, LoadReuseKey(Case))
                                           /\ Disturbed(m, Case.target)
    <3>1. ~drop /\ LoadReuseKey(Case) = latest /\ latest # NoKey
      BY <2>3, <2>6, <2>9 DEF ChooseDrop, Has
    <3>2. ~touched /\ latest[1] = Case.target /\ latest[2] = Case.content
      BY <2>3, <2>6, <2>9, <3>1
    <3>3. coll[latest[1]] # Ready(latest[2])
      BY <2>3, <2>9, <3>2 DEF Held
    <3>4. \E m \in DOMAIN results : cached < m /\ Disturbed(m, latest[1])
      BY <3>1, <3>2, <3>3 DEF LoopInv, RememberedLoad
    <3>5. cached \in 1..(idx - 1)
      BY <2>4, <2>5, <3>1 DEF MadeLoad
    <3>6. QED
      BY <2>4, <2>5, <3>1, <3>2, <3>4, <3>5
  <2>10. ASSUME load # 0
         PROVE  /\ load <= idx
                /\ plan[load].label = Case.label
                /\ load = idx \/ MadeLoad(load, LoadReuseKey(Case))
    <3>1. CASE reuses
      <4>1. MadeLoad(cached, LoadReuseKey(Case)) /\ load = cached
        BY <2>4, <3>1 DEF ReusesLoad
      <4>2. cached \in 1..(idx - 1) /\ LoadReuseKey(plan[cached]) = LoadReuseKey(Case)
        BY <2>5, <4>1 DEF MadeLoad
      <4>3. cached \in DOMAIN plan
        BY <1>0, <2>1, <2>5, <4>2 DEF TypeOK
      <4>4. plan[cached] \in Task
        BY <1>0, <4>3 DEF TypeOK
      <4>5. plan[cached].label = "Performance" /\ Case.label = "Performance"
        BY <2>7, <3>1, <4>2, <4>4, KeyOfTask DEF ReusesLoad
      <4>6. QED
        BY <2>5, <4>1, <4>2, <4>5
    <3>2. CASE ~reuses
      BY <2>3, <2>5, <2>10, <3>2 DEF Case
    <3>3. QED
      BY <3>1, <3>2
  <2>11. ASSUME runnerDropOld, Case.label \in {"Performance", "FullTextSearch"},
                {"DROP_OLD", "LOAD"} \subseteq Case.stages
         PROVE  load # 0
    <3>1. CASE drop
      BY <2>3, <2>5, <2>11, <3>1 DEF Has, ReusesLoad
    <3>2. CASE ~drop
      <4>1. reuses
        BY <2>3, <2>11, <3>2 DEF ChooseDrop, ReusesLoad
      <4>2. QED
        BY <2>4, <2>5, <4>1 DEF MadeLoad, ReusesLoad
    <3>3. QED
      BY <3>1, <3>2
  <2>12. MisledOnlyByDisturbance' /\ ReportedLoadHappened' /\ SkippedLoadIsCovered'
    <3> DEFINE q == r
    <3>1. /\ q.label = "NORMAL" /\ q.searched = searched /\ q.load = load
          /\ results' = Append(results, q)
      BY <2>2
    <3> HIDE DEF q
    <3>2. QED
      BY <1>0, <2>1, <2>8, <2>9, <2>10, <2>11, <3>1, ResultsKept DEF LoopInv
  <2>13. RememberedLoad'
    <3>1. CASE LoadedItself(Case)
      <4>1. /\ drop /\ touched /\ Has("LOAD") /\ LoadReuseKey(Case) # NoKey
            /\ Case.label = "Performance"
        BY <2>3, <2>7, <3>1 DEF LoadedItself, Has
      <4>2. Held = Ready(Case.content) /\ loadDur = idx /\ load = idx
        BY <2>3, <4>1 DEF ReusesLoad
      <4>3. latest' = <<Case.target, Case.content>> /\ cached' = idx
        BY <1>12, <2>6, <3>1, <4>1, <4>2 DEF Complete
      <4>4. MadeLoad(cached, latest)'
        BY <2>5, <2>6, <2>8, <4>1, <4>2, <4>3 DEF MadeLoad, Case
      <4>5. coll'[latest'[1]] = Ready(latest'[2])
        BY <2>8, <4>2, <4>3 DEF Held
      <4>6. QED
        BY <4>4, <4>5 DEF RememberedLoad
    <3>2. CASE ~LoadedItself(Case)
      <4>1. latest' = latest /\ cached' = cached
        BY <1>12, <3>2 DEF Complete
      <4> SUFFICES ASSUME latest # NoKey
                   PROVE  /\ MadeLoad(cached, latest)'
                          /\ \/ coll'[latest[1]] = Ready(latest[2])
                             \/ \E m \in DOMAIN results' : cached < m /\ Disturbed(m, latest[1])'
        BY <4>1 DEF RememberedLoad
      <4>2. MadeLoad(cached, latest) /\ MadeLoad(cached, latest)'
        BY <2>4, <2>5, <2>8, <4>1 DEF MadeLoad
      <4>3. cached < idx
        BY <2>5, <4>2 DEF MadeLoad
      <4>4. ASSUME NEW m, Disturbed(m, latest[1]) PROVE Disturbed(m, latest[1])'
        BY <2>5, <2>8, <4>1, <4>4 DEF Disturbed
      <4>5. ASSUME NEW m, m = idx, touched, Case.target = latest[1]
            PROVE  Disturbed(m, latest[1])'
        <5>1. ~(LoadReuseKey(Case) # NoKey /\ "LOAD" \in Case.stages)
          BY <2>3, <2>7, <3>2, <4>5 DEF LoadedItself
        <5>2. QED
          BY <2>5, <2>8, <4>1, <4>5, <5>1 DEF Disturbed, Case
      <4>6. CASE touched /\ Case.target = latest[1]
        BY <2>5, <4>2, <4>3, <4>5, <4>6
      <4>7. CASE ~(touched /\ Case.target = latest[1])
        <5>1. \/ coll[latest[1]] = Ready(latest[2])
              \/ \E m \in DOMAIN results : cached < m /\ Disturbed(m, latest[1])
          BY <4>7 DEF LoopInv, RememberedLoad
        <5>2. \A m \in DOMAIN results : m \in DOMAIN results'
          BY <2>5
        <5>3. QED
          BY <2>8, <4>2, <4>4, <5>1, <5>2
      <4>8. QED
        BY <4>6, <4>7
    <3>3. QED
      BY <3>1, <3>2
  <2>14. CaseAtWork'
    BY <2>2 DEF CaseAtWork, InCase
  <2>15. QED
    BY <1>0, <2>12, <2>13, <2>14 DEF LoopInv
<1>13. CASE Flush
  <2>1. RememberedLoad'
    <3>1. RememberedLoad /\ ~InCase /\ ~InCase'
      BY <1>13 DEF Flush, LoopInv, InCase
    <3>2. plan' = plan /\ coll' = coll /\ results' = results /\ latest' = latest /\ cached' = cached
      BY <1>13 DEF Flush
    <3>3. \A l, k : MadeLoad(l, k)' <=> MadeLoad(l, k)
      BY <3>2 DEF MadeLoad
    <3>4. \A m, t : Disturbed(m, t)' <=> Disturbed(m, t)
      BY <3>2 DEF Disturbed
    <3>5. QED
      BY <3>1, <3>2, <3>3, <3>4 DEF RememberedLoad
  <2>2. CaseAtWork'
    BY <1>13 DEF Flush, CaseAtWork, InCase
  <2>3. QED
    BY <1>0, <1>13, <2>1, <2>2, ResultsUnchanged DEF Flush, LoopInv
<1>14. CASE UNCHANGED vars
  BY <1>14 DEF vars, LoopInv, TypeOK, RememberedLoad, CaseAtWork, InCase,
     MisledOnlyByDisturbance, ReportedLoadHappened, SkippedLoadIsCovered,
     ChooseDrop, Case, Has, Held, MadeLoad, Disturbed, ClaimsOwnLoad, MeasuredOwnLoad
<1>15. QED
  BY <1>1, <1>2, <1>3, <1>4, <1>5, <1>6, <1>7, <1>8, <1>9, <1>10, <1>11,
     <1>12, <1>13, <1>14 DEF Next

-----------------------------------------------------------------------------
\* The strengthened invariant of the reuse of loads: what the remembered key
\* vouches for, and what is known of the case at work (interface.py 165-216).
THEOREM LoopInvariant == Spec => []LoopInv
<1>1. LoopInv /\ [Next]_vars => LoopInv'
  BY LoopInvStep
<1>2. QED
  BY LoopInvInit, <1>1, PTL DEF Spec

\* Whatever fails and in whatever order the cases come: a successful
\* performance case that searched anything but its own load was misled by a
\* case that disturbed the collection after the load it relied on.
THEOREM MisledOnly == Spec => []MisledOnlyByDisturbance
<1>1. LoopInv => MisledOnlyByDisturbance
  BY DEF LoopInv
<1>2. QED
  BY LoopInvariant, <1>1, PTL

\* A reported load duration belongs to a load that happened, with one key.
THEOREM ReportedLoads == Spec => []ReportedLoadHappened
<1>1. LoopInv => ReportedLoadHappened
  BY DEF LoopInv
<1>2. QED
  BY LoopInvariant, <1>1, PTL

\* Skipping drop and load never leaves a successful case without a load.
THEOREM SkippedLoads == Spec => []SkippedLoadIsCovered
<1>1. LoopInv => SkippedLoadIsCovered
  BY DEF LoopInv
<1>2. QED
  BY LoopInvariant, <1>1, PTL

\* The two together: the load durations of a run (interface.py 193-199) are
\* those of loads that were made, and no case that needed one is without.
THEOREM ReportedLoadsHold == Spec => []ReportedLoadsAreReal
<1>1. ReportedLoadHappened /\ SkippedLoadIsCovered => ReportedLoadsAreReal
  BY DEF ReportedLoadsAreReal
<1>. QED
  BY <1>1, ReportedLoads, SkippedLoads, PTL

-----------------------------------------------------------------------------
\* A recorded search case that touched its collection was told to drop it,
\* when that is so of the case at work.
LEMMA TouchRecorded ==
    ASSUME TypeOK, TouchedByDrop, idx <= Len(plan), plan' = plan,
           NEW l, NEW w, NEW d, Record(l, w, d),
           touched' /\ Case.label \in {"Performance", "CloudColdLatency"}
             => Case.label = "Performance" /\ "DROP_OLD" \in Case.stages
    PROVE  TouchedByDrop'
<1> DEFINE r == [label |-> l, reason |-> w, load |-> d,
                 touched |-> touched', searched |-> searched]
<1>1. results' = Append(results, r)
  BY DEF Record, AppendResult
<1>2. /\ DOMAIN results = 1..(idx - 1) /\ DOMAIN results' = 1..idx
      /\ results'[idx] = r /\ idx \in Nat
      /\ \A n \in 1..(idx - 1) : results'[n] = results[n]
  BY <1>1, Appended
<1>3. r.touched = touched'
  OBVIOUS
<1> HIDE DEF r
<1>4. QED
  BY <1>2, <1>3 DEF TouchedByDrop, Case

\* Every step keeps TouchedByDrop, given what is known of the case at work.
LEMMA TouchStep ==
    ASSUME LoopInv, TouchedByDrop, [Next]_vars
    PROVE  TouchedByDrop'
<1>1. /\ TypeOK /\ CaseAtWork
      /\ InCase => idx <= Len(plan)
  BY DEF LoopInv, TypeOK, InCase
\* A performance case drops before it touches, and then only when told to.
<1>2. InCase /\ (touched \/ drop) /\ Case.label = "Performance"
         => "DROP_OLD" \in Case.stages
  BY <1>1 DEF CaseAtWork, ChooseDrop
<1>3. InCase /\ Case.label = "CloudColdLatency" => ~touched
  BY <1>1 DEF CaseAtWork
<1>4. CASE UNCHANGED <<plan, results>>
  BY <1>4 DEF TouchedByDrop
<1>5. ASSUME InCase, plan' = plan, touched' = touched,
             NEW l, NEW w, NEW d, Record(l, w, d)
      PROVE  TouchedByDrop'
  BY <1>1, <1>2, <1>3, <1>5, TouchRecorded
<1>6. CASE PreRunRejects
  BY <1>1, <1>6, TouchRecorded DEF PreRunRejects, InCase
<1>7. CASE PreRunFails
  <2>1. touched' => drop
    BY <1>7 DEF PreRunFails
  <2>2. Case.label = "CloudColdLatency" => ~drop
    BY <1>7 DEF PreRunFails, RejectedUpFront
  <2>3. InCase /\ plan' = plan /\ Record("FAILED", "error", 0)
    BY <1>7 DEF PreRunFails, Fails, InCase
  <2>4. QED
    BY <1>1, <1>2, <2>1, <2>2, <2>3, TouchRecorded
<1>8. CASE Insert
  <2>1. InCase /\ plan' = plan
    BY <1>8 DEF Insert, InCase
  <2>2. Case.label \notin {"Performance", "CloudColdLatency"}
    BY <1>1, <1>8 DEF Insert, CaseAtWork, InCase
  <2>3. CASE UNCHANGED <<idx, results>>
    BY <1>4, <2>1, <2>3
  <2>4. CASE \E l, w : Record(l, w, 0)
    BY <1>1, <2>1, <2>2, <2>4, TouchRecorded
  <2>5. QED
    BY <1>8, <2>3, <2>4 DEF Insert, Fails
<1>9. CASE LoadFails \/ OptimizeFails \/ SearchFails \/ Complete
  <2>1. InCase /\ plan' = plan /\ touched' = touched
    BY <1>9 DEF LoadFails, OptimizeFails, SearchFails, Complete, InCase
  <2>2. \E l, w, d : Record(l, w, d)
    BY <1>9 DEF LoadFails, OptimizeFails, SearchFails, Complete, Fails
  <2>3. QED
    BY <1>5, <2>1, <2>2
<1>10. CASE StartCase \/ PreRun \/ Load \/ Optimize \/ Search \/ Flush
            \/ UNCHANGED vars
  BY <1>4, <1>10 DEF StartCase, PreRun, Load, Optimize, Search, Flush, vars
<1>11. QED
  BY <1>6, <1>7, <1>8, <1>9, <1>10 DEF Next

\* Nothing that precedes a performance case in order disturbs a load when it
\* succeeds: only performance cases can have touched the collection, and those
\* that drop also load.
LEMMA UndisturbedIsSound ==
    ASSUME TypeOK, plan \in Plans, TouchedByDrop, MisledOnlyByDisturbance
    PROVE  FaultlessReuseIsSound
<1> SUFFICES ASSUME NEW n \in DOMAIN results,
                    ClaimsOwnLoad(n), UndisturbedUpTo(n), ~MeasuredOwnLoad(n)
             PROVE  FALSE
  BY DEF FaultlessReuseIsSound
<1>1. PICK l, m \in 1..(n - 1) :
         /\ l < m
         /\ MadeLoad(l, LoadReuseKey(plan[n]))
         /\ Disturbed(m, plan[n].target)
  BY DEF MisledOnlyByDisturbance
<1>2. DOMAIN results \subseteq DOMAIN plan /\ DOMAIN results \subseteq Nat
  BY DEF TypeOK
<1>3. /\ l \in DOMAIN plan /\ m \in DOMAIN plan /\ n \in DOMAIN plan
      /\ m \in DOMAIN results /\ m < n
      /\ plan[l] \in Task /\ plan[m] \in Task /\ plan[n] \in Task
  BY <1>1, <1>2 DEF TypeOK, Disturbed, MadeLoad
<1>4. plan[n].label = "Performance"
  BY DEF ClaimsOwnLoad
<1>5. plan[l].label = "Performance"
  BY <1>1, <1>3, <1>4, KeyOfTask DEF MadeLoad
<1>6. plan[m].label \in {"Performance", "CloudColdLatency"}
  BY <1>1, <1>3, <1>4, <1>5, PlansInOrder
<1>7. plan[m].label = "Performance" /\ "DROP_OLD" \in plan[m].stages
  BY <1>1, <1>3, <1>6 DEF TouchedByDrop, Disturbed
<1>8. results[m].label = "NORMAL" /\ "LOAD" \in plan[m].stages
  BY <1>1, <1>7 DEF UndisturbedUpTo
<1>9. LoadReuseKey(plan[m]) # NoKey
  BY <1>3, <1>7, KeyOfTask
<1>10. QED
  BY <1>1, <1>8, <1>9 DEF Disturbed

\* In a run in assembled order where nothing fails and every drop comes with
\* a load, a case that reuses a load searched that very load
\* (interface.py 178-199, assembler.py 84-90).
THEOREM FaultlessReuse == Spec => []FaultlessReuseIsSound
<1>1. Init => plan \in Plans /\ TouchedByDrop
  BY DEF Init, TouchedByDrop
<1>2. plan \in Plans /\ [Next]_vars => (plan \in Plans)'
  BY DEF Next, vars, StartCase, PreRun, PreRunRejects, PreRunFails, Insert, Load,
         LoadFails, Optimize, OptimizeFails, Search, SearchFails, Complete, Flush
<1>3. LoopInv /\ TouchedByDrop /\ [Next]_vars => TouchedByDrop'
  BY TouchStep
<1>4. LoopInv /\ plan \in Plans /\ TouchedByDrop => FaultlessReuseIsSound
  BY UndisturbedIsSound DEF LoopInv
<1>5. QED
  BY <1>1, <1>2, <1>3, <1>4, LoopInvariant, PTL DEF Spec

\* A cold-latency case, whatever its options, changes no collection: the
\* option check precedes the drop, and no later step writes
\* (task_runner.py 313-324).
THEOREM ColdReadsOnly == Spec => ColdCaseOnlyReads
<1> DEFINE Cold == idx <= Len(plan) /\ Case.label = "CloudColdLatency"
<1>1. ASSUME LoopInv, Next, Cold PROVE coll' = coll
  <2>1. CaseAtWork
    BY <1>1 DEF LoopInv
  <2>2. CASE PreRun
    BY <2>2, <1>1 DEF PreRun, Opens, RejectedUpFront
  <2>3. CASE PreRunFails
    BY <2>3, <1>1 DEF PreRunFails, Opens, RejectedUpFront
  <2>4. ~Insert /\ ~Load /\ ~LoadFails /\ ~Optimize
    BY <1>1, <2>1 DEF CaseAtWork, InCase, Insert, Load, LoadFails, Optimize
  <2>5. CASE StartCase \/ PreRunRejects \/ OptimizeFails \/ Search \/ SearchFails
             \/ Complete \/ Flush
    BY <2>5 DEF StartCase, PreRunRejects, OptimizeFails, Search, SearchFails,
                Complete, Flush
  <2>6. QED
    BY <1>1, <2>2, <2>3, <2>4, <2>5 DEF Next
<1>2. LoopInv /\ [Next]_vars
        => [idx <= Len(plan) /\ Case.label = "CloudColdLatency" => coll' = coll]_vars
  BY <1>1
<1>3. QED
  BY <1>2, LoopInvariant, PTL DEF Spec, ColdCaseOnlyReads

-----------------------------------------------------------------------------
\* A step that records the result of a case advances the run by one case.
LEMMA RecordAdvances ==
    ASSUME TypeOK, InCase, plan' = plan,
           NEW l, NEW w, NEW d, Record(l, w, d)
    PROVE  Promise!Advance
<1>1. Len(results') = Len(results) + 1
  BY DEF Record, AppendResult, TypeOK
<1>2. Len(results) < Len(plan) /\ Len(plan) \in Nat /\ Len(results) \in Nat
  BY DEF TypeOK, InCase
<1>3. Verdict = "running" /\ Verdict' = "running"
  BY DEF Verdict, InCase, Record
<1>4. QED
  BY <1>1, <1>2, <1>3 DEF Promise!Advance, Verdict

\* A step inside a case, or one that starts it, is none of the run's.
LEMMA InnerStutters ==
    ASSUME UNCHANGED <<plan, results>>,
           pc \notin {"success", "error"}, pc' \notin {"success", "error"}
    PROVE  UNCHANGED Promise!vars
BY DEF Promise!vars, Verdict

\* Every step of the loop is a step of the promise, or none.
LEMMA PromiseStep ==
    ASSUME TypeOK, [Next]_vars
    PROVE  [Promise!Next]_(Promise!vars)
<1>1. CASE StartCase
  BY <1>1, InnerStutters DEF StartCase
<1>2. CASE PreRun
  <2>1. pc' \notin {"success", "error"}
    BY <1>2 DEF PreRun, AfterPreRun, AfterLoad
  <2>2. QED
    BY <1>2, <2>1, InnerStutters DEF PreRun
<1>3. CASE PreRunRejects
  BY <1>3, RecordAdvances DEF PreRunRejects, InCase, Promise!Next
<1>4. CASE PreRunFails
  BY <1>4, RecordAdvances DEF PreRunFails, Fails, InCase, Promise!Next
<1>5. CASE Insert
  <2>1. CASE pc' = "complete" /\ UNCHANGED <<idx, results>>
    BY <1>5, <2>1, InnerStutters DEF Insert
  <2>2. ASSUME NEW l, NEW w, Fails(l, w) PROVE Promise!Advance
    BY <1>5, <2>2, RecordAdvances DEF Insert, Fails, InCase
  <2>3. QED
    BY <1>5, <2>1, <2>2 DEF Insert, Promise!Next
<1>6. CASE Load
  BY <1>6, InnerStutters DEF Load
<1>7. CASE LoadFails
  BY <1>7, RecordAdvances DEF LoadFails, Fails, InCase, Promise!Next
<1>8. CASE Optimize
  <2>1. pc' \notin {"success", "error"}
    BY <1>8 DEF Optimize, AfterLoad
  <2>2. QED
    BY <1>8, <2>1, InnerStutters DEF Optimize
<1>9. CASE OptimizeFails
  BY <1>9, RecordAdvances DEF OptimizeFails, Fails, InCase, Promise!Next
<1>10. CASE Search
  <2>1. pc' \notin {"success", "error"}
    BY <1>10 DEF Search, AfterSearch
  <2>2. QED
    BY <1>10, <2>1, InnerStutters DEF Search
<1>11. CASE SearchFails
  BY <1>11, RecordAdvances DEF SearchFails, Fails, InCase, Promise!Next
<1>12. CASE Complete
  BY <1>12, RecordAdvances DEF Complete, InCase, Promise!Next
<1>13. CASE Flush
  <2>1. Len(results) = Len(plan)
    BY <1>13 DEF Flush, TypeOK
  <2>2. pc' \in {"success", "error"} /\ Verdict = "running" /\ UNCHANGED <<plan, results>>
    BY <1>13 DEF Flush, Verdict
  <2>3. QED
    BY <2>1, <2>2 DEF Verdict, Promise!Next, Promise!Succeed, Promise!Fail
<1>14. CASE UNCHANGED vars
  BY <1>14 DEF vars, Promise!vars, Verdict
<1>15. QED
  BY <1>1, <1>2, <1>3, <1>4, <1>5, <1>6, <1>7, <1>8, <1>9, <1>10, <1>11,
     <1>12, <1>13, <1>14 DEF Next

\* The child process implements the promise of a run: one result at a time,
\* and success only with a result for every case (interface.py 165-238).
THEOREM LoopKeepsPromise == Spec => KeepsPromise
<1>1. Init => Promise!Init
  <2> SUFFICES ASSUME Init PROVE Promise!Init
    OBVIOUS
  <2>1. Len(plan) \in Nat /\ results = <<>> /\ pc = "start"
    BY PlansAssumption DEF Init
  <2>2. QED
    BY <2>1 DEF Promise!Init, Verdict
<1>2. TypeOK /\ [Next]_vars => [Promise!Next]_(Promise!vars)
  BY PromiseStep
<1>3. QED
  BY <1>1, <1>2, TypeCorrect, PTL DEF Spec, KeepsPromise, Promise!Spec

-------------------------------------------------------------------------------
(* The table of cases, type by type.                                             *)

\* What case_cls makes of each type.
LEMMA TableByType ==
    ASSUME NEW custom
    PROVE  /\ \A type \in DOMAIN CapacityCases :
                 case_cls(type, custom) = Cases("Load", CapacityCases[type], NonFilter, "ids_only")
           /\ \A type \in DOMAIN FixedCases :
                 case_cls(type, custom)
                    = Cases("Performance", FixedCases[type], NonFilter, Payload(custom))
           /\ \A type \in DOMAIN FixedFilterCases :
                 case_cls(type, custom)
                    = Cases("Performance", FixedFilterCases[type][1],
                            IntFilter(DefaultNumber(custom.filter_rate, FixedFilterCases[type][2])),
                            Payload(custom))
<1>1. ASSUME NEW type \in DOMAIN CapacityCases
      PROVE  case_cls(type, custom) = Cases("Load", CapacityCases[type], NonFilter, "ids_only")
  <2> DEFINE cases == Cases("Load", CapacityCases[type], NonFilter, "ids_only")
  <2>1. /\ type \notin DOMAIN FixedCases /\ type \notin DOMAIN FixedFilterCases
        /\ type \notin ParameterCases
    BY TypesDiffer
  <2> HIDE DEF cases
  <2>2. case_cls(type, custom) = cases
    BY <2>1 DEF case_cls, ParameterCases, cases
  <2> QED
    BY <2>2 DEF cases
<1>2. ASSUME NEW type \in DOMAIN FixedCases
      PROVE  case_cls(type, custom)
                = Cases("Performance", FixedCases[type], NonFilter, Payload(custom))
  <2> DEFINE cases == Cases("Performance", FixedCases[type], NonFilter, Payload(custom))
  <2>1. /\ type \notin DOMAIN CapacityCases /\ type \notin DOMAIN FixedFilterCases
        /\ type \notin ParameterCases
    BY TypesDiffer
  <2> HIDE DEF cases
  <2>2. case_cls(type, custom) = cases
    BY <2>1 DEF case_cls, ParameterCases, cases
  <2> QED
    BY <2>2 DEF cases
<1>3. ASSUME NEW type \in DOMAIN FixedFilterCases
      PROVE  case_cls(type, custom)
                = Cases("Performance", FixedFilterCases[type][1],
                        IntFilter(DefaultNumber(custom.filter_rate, FixedFilterCases[type][2])),
                        Payload(custom))
  <2> DEFINE cases ==
               Cases("Performance", FixedFilterCases[type][1],
                     IntFilter(DefaultNumber(custom.filter_rate, FixedFilterCases[type][2])),
                     Payload(custom))
  <2>1. /\ type \notin DOMAIN CapacityCases /\ type \notin DOMAIN FixedCases
        /\ type \notin ParameterCases
    BY TypesDiffer
  <2> HIDE DEF cases
  <2>2. case_cls(type, custom) = cases
    BY <2>1 DEF case_cls, ParameterCases, cases
  <2> QED
    BY <2>2 DEF cases
<1> QED
  BY <1>1, <1>2, <1>3

\* The types that take parameters, each with its own constructor.
LEMMA TableOfParameters ==
    ASSUME NEW custom
    PROVE  /\ case_cls("PerformanceCustomDataset", custom) = PerformanceCustomDataset(custom)
           /\ case_cls("StreamingPerformanceCase", custom) = StreamingPerformanceCase(custom)
           /\ case_cls("StreamingCustomDataset", custom) = StreamingCustomDataset(custom)
           /\ case_cls("NewIntFilterPerformanceCase", custom)
                 = NewIntFilterPerformanceCase(custom)
           /\ case_cls("LabelFilterPerformanceCase", custom) = LabelFilterPerformanceCase(custom)
           /\ case_cls("CloudPayloadSearchCase", custom) = CloudPayloadSearchCase(custom)
           /\ case_cls("CloudColdLatencyCase", custom) = CloudColdLatencyCase(custom)
           /\ case_cls("CloudInsertCase", custom) = CloudInsertCase(custom)
           /\ case_cls("CloudMultiTenantSearchCase", custom) = CloudMultiTenantSearchCase(custom)
           /\ case_cls("FTSBm25Performance", custom) = FTSBm25Performance(custom)
           /\ case_cls("Performance", custom) = Performance(custom)
<1>1. \A type \in ParameterCases :
         /\ type \notin DOMAIN CapacityCases /\ type \notin DOMAIN FixedCases
         /\ type \notin DOMAIN FixedFilterCases
  BY TypesDiffer
<1> QED
  BY <1>1 DEF case_cls, ParameterCases

\* A case of the table is a case of its data.
LEMMA CasesAre ==
    ASSUME NEW label, NEW datas, NEW filter, NEW payload,
           NEW case \in Cases(label, datas, filter, payload)
    PROVE  /\ case.label = label /\ case.filter = filter /\ case.payload = payload
           /\ case.data \in datas
           /\ case = NewCase(label, case.data, filter, payload, 0)
           /\ needs_scalar_labels(case) => with_scalar_labels(case.data)
BY DEF Cases, check_scalar_labels, NewCase

-------------------------------------------------------------------------------
(* The ground truth of a case.                                                   *)

\* The filters there are.
IsFilter(filter) ==
    \/ filter = NonFilter
    \/ \E rate : filter = IntFilter(rate)
    \/ \E rate : filter = NewIntFilter(rate)
    \/ \E part \in Int : filter = LabelFilter(part)

\* LAION: the rows of the one size published, and the dataset of them.
LaionRows == 100000000
AllOfLaion == manager("LAION", 100000000)

\* What the files of a case depend on: its filter, and that LAION has one size.
HasFiles(case) ==
    /\ IsFilter(case.filter)
    /\ case.data.class = "LAION" => case.data.size = LaionRows

\* What a cloud case filters by is one of the filters.
LEMMA CloudFilterIsFilter ==
    ASSUME NEW custom, custom.label_percentage \in Int
    PROVE  IsFilter(CloudFilter(custom)) /\ IsFilter(NonFilter)
BY DEF CloudFilter, IsFilter

\* LAION is published in one size.
LEMMA LaionHasOneSize ==
    /\ \A name : \A d \in SizeType(name) : d.class = "LAION" => d.size = LaionRows
    /\ \A name \in DOMAIN FtsDatasetWithSize : FtsDatasetWithSize[name].class # "LAION"
    /\ CustomData.class # "LAION"
    /\ \A name : \A d \in get_dataset_manager(name) : d.class = "LAION" => d.size = LaionRows
    /\ \A d \in AllOfLaion : d.size = LaionRows
<1>1. \A name \in DOMAIN DatasetWithSize :
         DatasetWithSize[name].class = "LAION" => DatasetWithSize[name].size = LaionRows
  BY DEF DatasetWithSize, Data, LaionRows
<1>2. \A name : \A d \in SizeType(name) : d.class = "LAION" => d.size = LaionRows
  BY <1>1 DEF SizeType
<1>3. \A name \in DOMAIN FtsDatasetWithSize : FtsDatasetWithSize[name].class # "LAION"
  BY DEF FtsDatasetWithSize, Data
<1>4. "LAION" \notin DOMAIN Vibe /\ "LAION" \notin DOMAIN Multimodal
  BY DEF Vibe, Multimodal
<1>5. \A name : \A d \in get_dataset_manager(name) : d.class = "LAION" => d.size = LaionRows
  BY <1>1, <1>4 DEF get_dataset_manager, Data
<1>6. \A d \in AllOfLaion : d.size = LaionRows
  BY DEF AllOfLaion, manager, Data, LaionRows
<1> QED
  BY <1>2, <1>3, <1>5, <1>6 DEF CustomData, Data

\* No row of the fixed cases is of LAION in another size.
LEMMA FixedLaion ==
    /\ \A type \in DOMAIN CapacityCases : \A d \in CapacityCases[type] : d.class # "LAION"
    /\ \A type \in DOMAIN FixedCases : \A d \in FixedCases[type] :
          d.class = "LAION" => d.size = LaionRows
    /\ \A type \in DOMAIN FixedFilterCases : \A d \in FixedFilterCases[type][1] :
          d.class # "LAION"
<1>1. \A class, size : \A d \in manager(class, size) : d = Data(class, size)
  BY DEF manager
<1>2. \A type \in DOMAIN CapacityCases : \A d \in CapacityCases[type] : d.class # "LAION"
  BY <1>1 DEF CapacityCases, Data
<1>3. \A type \in DOMAIN FixedCases : \A d \in FixedCases[type] :
         d.class = "LAION" => d.size = LaionRows
  BY <1>1 DEF FixedCases, Fixed, Data, LaionRows
<1>4. \A type \in DOMAIN FixedFilterCases : \A d \in FixedFilterCases[type][1] :
         d.class # "LAION"
  BY <1>1 DEF FixedFilterCases, Fixed, Data
<1> QED
  BY <1>2, <1>3, <1>4

\* Every case the table makes of parameters has a ground truth of this form.
LEMMA ParameterCasesHaveFiles ==
    ASSUME NEW custom, custom.label_percentage \in Int, NEW type \in ParameterCases,
           NEW case \in case_cls(type, custom)
    PROVE  HasFiles(case)
<1>1. /\ custom.label_percentage \in Int
      /\ IsFilter(CloudFilter(custom)) /\ IsFilter(NonFilter)
  BY CloudFilterIsFilter
<1>2. ASSUME NEW label, NEW datas, NEW filter, NEW payload,
             NEW c \in Cases(label, datas, filter, payload), IsFilter(filter),
             \A d \in datas : d.class = "LAION" => d.size = LaionRows
      PROVE  HasFiles(c)
  BY <1>2, CasesAre DEF HasFiles
<1>3. \A d \in CloudData(custom) : d.class = "LAION" => d.size = LaionRows
  <2>1. CloudData(custom) = IF custom.dataset_with_size_type = "" THEN AllOfLaion
                            ELSE SizeType(custom.dataset_with_size_type)
    BY DEF CloudData, AllOfLaion
  <2> QED
    BY <2>1, LaionHasOneSize
<1>4. \A d \in {CustomData} : d.class = "LAION" => d.size = LaionRows
  BY LaionHasOneSize
<1>5. ASSUME NEW c \in PerformanceCustomDataset(custom) PROVE HasFiles(c)
  <2> DEFINE filter == IF custom.use_filter THEN LabelFilter(custom.label_percentage)
                       ELSE NonFilter
  <2>1. c \in Cases("Performance", {CustomData}, filter, "ids_only")
    BY <1>5 DEF PerformanceCustomDataset
  <2>2. IsFilter(filter)
    BY <1>1 DEF IsFilter
  <2> HIDE DEF filter
  <2> QED
    BY <1>2, <1>4, <2>1, <2>2
<1>6. ASSUME NEW c \in StreamingPerformanceCase(custom) PROVE HasFiles(c)
  BY <1>1, <1>2, <1>6, LaionHasOneSize DEF StreamingPerformanceCase
<1>7. ASSUME NEW c \in StreamingCustomDataset(custom) PROVE HasFiles(c)
  BY <1>1, <1>2, <1>4, <1>7 DEF StreamingCustomDataset
<1>8. ASSUME NEW c \in NewIntFilterPerformanceCase(custom) PROVE HasFiles(c)
  <2>1. IsFilter(NewIntFilter(custom.filter_rate))
    BY DEF IsFilter
  <2> QED
    BY <1>2, <1>8, <2>1, LaionHasOneSize DEF NewIntFilterPerformanceCase
<1>9. ASSUME NEW c \in LabelFilterPerformanceCase(custom) PROVE HasFiles(c)
  <2>1. IsFilter(LabelFilter(custom.label_percentage))
    BY <1>1 DEF IsFilter
  <2> QED
    BY <1>2, <1>9, <2>1, LaionHasOneSize DEF LabelFilterPerformanceCase
<1>10. ASSUME NEW c \in CloudPayloadSearchCase(custom) PROVE HasFiles(c)
  BY <1>1, <1>2, <1>3, <1>10 DEF CloudPayloadSearchCase
<1>11. ASSUME NEW c \in CloudColdLatencyCase(custom) PROVE HasFiles(c)
  BY <1>1, <1>2, <1>3, <1>11 DEF CloudColdLatencyCase
<1>12. ASSUME NEW c \in CloudInsertCase(custom) PROVE HasFiles(c)
  BY <1>1, <1>2, <1>3, <1>12 DEF CloudInsertCase
<1>13. ASSUME NEW c \in CloudMultiTenantSearchCase(custom) PROVE HasFiles(c)
  <2> DEFINE tenants == DefaultNumber(custom.tenant_count, 1000)
             datas == SizeType(DefaultName(custom.dataset_with_size_type, "CohereLarge"))
             cases == Cases("Performance", datas, CloudFilter(custom), Payload(custom))
  <2>1. PICK d \in cases : c = [d EXCEPT !.tenants = tenants]
    BY <1>13 DEF CloudMultiTenantSearchCase
  <2>2. HasFiles(d)
    BY <1>1, <1>2, <2>1, LaionHasOneSize
  <2>3. d = NewCase("Performance", d.data, CloudFilter(custom), Payload(custom), 0)
    BY <2>1, CasesAre
  <2>4. c.data = d.data /\ c.filter = d.filter
    BY <2>1, <2>3 DEF NewCase
  <2> QED
    BY <2>2, <2>4 DEF HasFiles
<1>14. ASSUME NEW c \in FTSBm25Performance(custom) PROVE HasFiles(c)
  <2> DEFINE name == DefaultName(custom.dataset_with_size_type, "MSMarcoSmall")
  <2>1. name \in DOMAIN FtsDatasetWithSize
    BY <1>14 DEF FTSBm25Performance
  <2>2. c \in Cases("FullTextSearch", {FtsDatasetWithSize[name]}, CloudFilter(custom),
                    Payload(custom))
    BY <1>14 DEF FTSBm25Performance
  <2> QED
    BY <1>1, <1>2, <2>1, <2>2, LaionHasOneSize
<1>15. ASSUME NEW c \in Performance(custom) PROVE HasFiles(c)
  BY <1>1, <1>2, <1>15, LaionHasOneSize DEF Performance
<1> QED
  BY <1>5, <1>6, <1>7, <1>8, <1>9, <1>10, <1>11, <1>12, <1>13, <1>14, <1>15, TableOfParameters
     DEF ParameterCases

\* The parameters a case is made of: those of the configuration but for the profile.
LEMMA ConfiguredCustom ==
    ASSUME NEW config \in CaseConfigs
    PROVE  \E profile :
              LET custom == [config.custom_case EXCEPT !.payload_profile = profile]
              IN  /\ case_of(config) = case_cls(config.case_id, custom)
                  /\ profile = DefaultName(config.payload_profile,
                                           config.custom_case.payload_profile)
                  /\ custom.payload_profile = profile
                  /\ custom.label_percentage = config.custom_case.label_percentage
                  /\ custom.label_percentage \in Int
<1> DEFINE profile == DefaultName(config.payload_profile, config.custom_case.payload_profile)
           custom == [config.custom_case EXCEPT !.payload_profile = profile]
<1>1. case_of(config) = case_cls(config.case_id, custom)
  BY DEF case_of
<1>2. config.custom_case \in Parameters
  BY DEF CaseConfigs
<1> HIDE DEF profile
<1>3. /\ custom.payload_profile = profile
      /\ custom.label_percentage = config.custom_case.label_percentage
      /\ custom.label_percentage \in Int
  BY <1>2 DEF Parameters
<1> QED
  BY <1>1, <1>3 DEF profile

\* So has every case that a configuration makes.
LEMMA CasesHaveFiles ==
    ASSUME NEW config \in CaseConfigs, NEW case \in case_of(config)
    PROVE  HasFiles(case)
<1>1. PICK custom : /\ case \in case_cls(config.case_id, custom)
                    /\ custom.label_percentage \in Int
  BY ConfiguredCustom
<1> DEFINE type == config.case_id
<1>2. type \in CaseType
  BY DEF CaseConfigs
<1> HIDE DEF type
<1>3. case \in case_cls(type, custom)
  BY <1>1 DEF type
<1>4. ASSUME NEW label, NEW datas, NEW filter, NEW payload,
             case \in Cases(label, datas, filter, payload), IsFilter(filter),
             \A d \in datas : d.class = "LAION" => d.size = LaionRows
      PROVE  HasFiles(case)
  BY <1>4, CasesAre DEF HasFiles
<1>5. CASE type \in ParameterCases
  BY <1>1, <1>3, <1>5, ParameterCasesHaveFiles
<1>6. CASE type \in DOMAIN CapacityCases
  <2>1. case \in Cases("Load", CapacityCases[type], NonFilter, "ids_only")
    BY <1>3, <1>6, TableByType
  <2>2. IsFilter(NonFilter)
    BY DEF IsFilter
  <2> QED
    BY <1>4, <1>6, <2>1, <2>2, FixedLaion
<1>7. CASE type \in DOMAIN FixedCases
  <2>1. case \in Cases("Performance", FixedCases[type], NonFilter, Payload(custom))
    BY <1>3, <1>7, TableByType
  <2>2. IsFilter(NonFilter)
    BY DEF IsFilter
  <2> QED
    BY <1>4, <1>7, <2>1, <2>2, FixedLaion
<1>8. CASE type \in DOMAIN FixedFilterCases
  <2> DEFINE filter == IntFilter(DefaultNumber(custom.filter_rate, FixedFilterCases[type][2]))
  <2>1. case \in Cases("Performance", FixedFilterCases[type][1], filter, Payload(custom))
    BY <1>3, <1>8, TableByType
  <2>2. IsFilter(filter)
    BY DEF IsFilter
  <2> HIDE DEF filter
  <2> QED
    BY <1>4, <1>8, <2>1, <2>2, FixedLaion
<1> QED
  BY <1>2, <1>5, <1>6, <1>7, <1>8 DEF CaseType

\* The population a filter asks for: what IsTruthOf compares the file with.
AskedOf(filter) ==
    CASE filter.type = "NonFilter" -> Truth("none", 0)
      [] filter.type = "NumGE"     -> Truth("id", filter.rate)
      [] filter.type = "StrEqual"  -> Truth("label", filter.part)

\* A percentage is whole, or the file is named after another one.
LEMMA WholePercentages ==
    ASSUME NEW mille \in Int, mille % 10 = 0, mille \notin ShortOfPercent
    PROVE  WholePercent(mille) = mille
<1>1. 10 * (mille \div 10) = mille
  OBVIOUS
<1> QED
  BY <1>1 DEF WholePercent

\* The file of a filter is that of what it asks for, or of another rate.
LEMMA TruthOfFilter ==
    ASSUME NEW filter, IsFilter(filter), NEW truth \in groundtruth_file(filter)
    PROVE  truth = AskedOf(filter) \/ NamesAnotherRate(AskedOf(filter))
<1>1. CASE filter = NonFilter
  BY <1>1 DEF NonFilter, Filter, groundtruth_file, AskedOf
<1>2. ASSUME NEW rate, filter = IntFilter(rate)
      PROVE  truth = AskedOf(filter)
  BY <1>2 DEF IntFilter, Filter, groundtruth_file, AskedOf
<1>3. ASSUME NEW rate, filter = NewIntFilter(rate)
      PROVE  truth = AskedOf(filter) \/ NamesAnotherRate(AskedOf(filter))
  <2>1. AskedOf(filter) = Truth("id", rate) /\ truth = Truth("id", int_rate(rate))
    BY <1>3 DEF NewIntFilter, Filter, groundtruth_file, AskedOf
  <2>2. CASE rate \notin 10..990
    BY <2>1, <2>2 DEF int_rate
  <2>3. CASE rate \in 10..990 /\ rate % 10 = 0 /\ rate \notin ShortOfPercent
    BY <2>1, <2>3, WholePercentages DEF int_rate
  <2>4. CASE rate \in 10..990 /\ (rate % 10 # 0 \/ rate \in ShortOfPercent)
    BY <2>1, <2>4 DEF NamesAnotherRate, Truth
  <2> QED
    BY <2>2, <2>3, <2>4
<1>4. ASSUME NEW part \in Int, filter = LabelFilter(part)
      PROVE  truth = AskedOf(filter) \/ NamesAnotherRate(AskedOf(filter))
  <2>1. AskedOf(filter) = Truth("label", part) /\ truth = Truth("label", label_value(part))
    BY <1>4 DEF LabelFilter, Filter, groundtruth_file, AskedOf
  <2>2. CASE part < 10
    BY <2>1, <2>2 DEF label_value
  <2>3. CASE part >= 10 /\ part % 10 = 0 /\ part \notin ShortOfPercent
    BY <2>1, <2>3, WholePercentages DEF label_value
  <2>4. CASE part >= 10 /\ (part % 10 # 0 \/ part \in ShortOfPercent)
    BY <2>1, <2>4 DEF NamesAnotherRate, Truth
  <2> QED
    BY <2>2, <2>3, <2>4
<1> QED
  BY <1>1, <1>2, <1>3, <1>4 DEF IsFilter

\* The least of a set of numbers is one of them.
LEMMA MinIsOne ==
    ASSUME NEW numbers \in SUBSET Nat, numbers # {}
    PROVE  Min(numbers) \in numbers
<1>1. \E least \in numbers : \A n \in numbers : least <= n
  BY LeastOfNumbers
<1> QED
  BY <1>1 DEF Min

\* The most neighbours that a file of LAION lists.
WidestTier == 1000000

\* The widths of the files of LAION, and of which rates there are none.
LEMMA LaionWidthsAre ==
    /\ LaionTiers \in SUBSET Nat /\ \A width \in LaionTiers : width <= WidestTier
    /\ \A rate \in LaionRates :
          /\ rate \in Int /\ rate < 1000
          /\ LaionWidths(rate) \in SUBSET Nat
          /\ \A width \in LaionWidths(rate) : width <= 100000 * (1000 - rate)
<1>1. LaionTiers \in SUBSET Nat /\ \A width \in LaionTiers : width <= WidestTier
  BY SMT DEF LaionTiers, WidestTier
<1>2. ASSUME NEW rate \in LaionRates
      PROVE  rate \in Int /\ (rate <= 990 \/ rate = 995 \/ rate = 998 \/ rate = 999)
  BY <1>2 DEF LaionRates
<1>3. ASSUME NEW rate \in LaionRates
      PROVE  /\ LaionWidths(rate) \in SUBSET Nat
             /\ \A width \in LaionWidths(rate) : width <= 100000 * (1000 - rate)
  <2>1. CASE rate <= 990
    <3>1. LaionWidths(rate) = {100000, 1000000}
      BY <1>2, <2>1 DEF LaionWidths
    <3>2. 100000 * (1000 - rate) \in Int /\ 1000000 <= 100000 * (1000 - rate)
      BY <1>2, <2>1
    <3> QED
      BY <3>1, <3>2
  <2>2. CASE rate = 995
    <3>1. LaionWidths(rate) = {100000, 500000}
      BY <2>2 DEF LaionWidths
    <3> QED
      BY <2>2, <3>1
  <2>3. CASE rate = 998
    <3>1. LaionWidths(rate) = {100000, 200000}
      BY <2>3 DEF LaionWidths
    <3> QED
      BY <2>3, <3>1
  <2>4. CASE rate = 999
    <3>1. LaionWidths(rate) = {100000}
      BY <2>4 DEF LaionWidths
    <3> QED
      BY <2>4, <3>1
  <2> QED
    BY <1>2, <2>1, <2>2, <2>3, <2>4
<1> QED
  BY <1>1, <1>2, <1>3

\* The rows of a registered file are more than its neighbours.
LEMMA RegisteredAreLarge ==
    \A data \in RegisteredParquet \cup Hdf5Data : data.size \in Nat /\ GroundTruthWidth <= data.size
<1>1. \A name \in DOMAIN Vibe : Vibe[name] \in Nat /\ 100 <= Vibe[name]
  BY DEF Vibe
<1>2. \A name \in DOMAIN Multimodal : Multimodal[name] \in Nat /\ 100 <= Multimodal[name]
  BY SMT DEF Multimodal
<1> QED
  BY <1>1, <1>2 DEF RegisteredParquet, Hdf5Data, Data, GroundTruthWidth

\* What the kind and the type of a filter say of it.
LEMMA FilterKinds ==
    ASSUME NEW filter, IsFilter(filter)
    PROVE  /\ filter.type \in {"NonFilter", "NumGE", "StrEqual"}
           /\ Unfiltered(filter) => filter = NonFilter
           /\ filter.kind = "NewIntFilter" =>
                 filter.type = "NumGE" /\ filter = NewIntFilter(filter.rate)
<1>1. ASSUME filter = NonFilter
      PROVE  filter.type = "NonFilter" /\ filter.kind # "NewIntFilter"
  BY <1>1 DEF NonFilter, Filter
<1>2. ASSUME NEW rate, filter = IntFilter(rate)
      PROVE  filter.type = "NumGE" /\ filter.kind # "NewIntFilter"
  BY <1>2 DEF IntFilter, Filter
<1>3. ASSUME NEW rate, filter = NewIntFilter(rate)
      PROVE  filter.type = "NumGE" /\ filter.rate = rate
  BY <1>3 DEF NewIntFilter, Filter
<1>4. ASSUME NEW part \in Int, filter = LabelFilter(part)
      PROVE  filter.type = "StrEqual" /\ filter.kind # "NewIntFilter"
  BY <1>4 DEF LabelFilter, Filter
<1>5. Unfiltered(filter) <=> filter.type = "NonFilter"
  BY DEF Unfiltered
<1> QED
  BY <1>1, <1>2, <1>3, <1>4, <1>5 DEF IsFilter

\* A file whose width is known is wide enough, and no wider than there are rows left.
LEMMA WidthsFit ==
    ASSUME NEW case, HasFiles(case), NEW k \in Int,
           NEW file \in resolve_search_files(case.data, k, case.filter), file.width # None
    PROVE  k <= file.width /\ file.width <= Left(case.data, case.filter)
<1> DEFINE data == case.data
           filter == case.filter
<1>1. CASE data \in RegisteredParquet \cup Hdf5Data
  <2>1. Unfiltered(filter) /\ k <= GroundTruthWidth /\ file.width = GroundTruthWidth
    BY <1>1 DEF resolve_search_files, SearchFile
  <2>2. filter = NonFilter
    BY <2>1, FilterKinds DEF HasFiles
  <2>3. data.size \in Nat /\ GroundTruthWidth <= data.size
    BY <1>1, RegisteredAreLarge
  <2>4. Left(data, filter) = data.size - (data.size \div 1000) * 0
    BY <2>2 DEF Left, NonFilter, Filter
  <2>5. (data.size \div 1000) * 0 = 0
    BY <2>3
  <2> QED
    BY <2>1, <2>3, <2>4, <2>5
<1>2. CASE data \notin RegisteredParquet \cup Hdf5Data /\ data.class = "LAION"
  <2>1. file \in LaionFiles(k, filter)
    BY <1>2 DEF resolve_search_files
  <2>2. data.size \div 1000 = 100000
    <3>1. data.size = LaionRows
      BY <1>2 DEF HasFiles
    <3>2. LaionRows \div 1000 = 100000
      BY SMT DEF LaionRows
    <3> QED
      BY SMT, <3>1, <3>2
  <2>3. \A f : \A width : f \in FilesOf(filter, width) => f.width = width
    BY DEF FilesOf, SearchFile
  <2>4. ASSUME NEW widths \in SUBSET Nat, file \in Narrowest(k, widths, filter)
        PROVE  file.width \in widths /\ k <= file.width
    <3> DEFINE enough == {w \in widths : k <= w}
    <3>1. enough \in SUBSET Nat /\ enough # {} /\ file \in FilesOf(filter, Min(enough))
      BY <2>4 DEF Narrowest
    <3>2. Min(enough) \in enough
      BY <3>1, MinIsOne
    <3> QED
      BY <2>3, <3>1, <3>2
  <2>5. CASE filter.kind = "NewIntFilter"
    <3>1. /\ filter.rate \in LaionRates
          /\ file \in Narrowest(k, LaionWidths(filter.rate), filter)
      BY <2>1, <2>3, <2>5 DEF LaionFiles
    <3>2. file.width \in LaionWidths(filter.rate) /\ k <= file.width
      BY SMT, <2>4, <3>1, LaionWidthsAre
    <3>3. file.width <= 100000 * (1000 - filter.rate)
      BY SMT, <3>1, <3>2, LaionWidthsAre
    <3>4. filter.type # "StrEqual"
      BY <2>5, FilterKinds DEF HasFiles
    <3>5. Left(data, filter) = data.size - 100000 * filter.rate
      BY SMT, <2>2, <3>4 DEF Left
    <3>6. data.size - 100000 * filter.rate = 100000 * (1000 - filter.rate)
      <4>1. data.size = LaionRows /\ filter.rate \in Int
        BY <1>2, <3>1, LaionWidthsAre DEF HasFiles
      <4>2. ASSUME NEW rate \in Int
            PROVE  LaionRows - 100000 * rate = 100000 * (1000 - rate)
        BY SMT DEF LaionRows
      <4> QED
        BY SMT, <4>1, <4>2
    <3> QED
      BY SMT, <3>2, <3>3, <3>5, <3>6
  <2>6. CASE filter.kind # "NewIntFilter"
    <3>1. Unfiltered(filter) /\ file \in Narrowest(k, LaionTiers, filter)
      BY <2>1, <2>3, <2>6 DEF LaionFiles
    <3>2. file.width \in LaionTiers /\ k <= file.width
      BY SMT, <2>4, <3>1, LaionWidthsAre
    <3>3. file.width \in Nat /\ file.width <= WidestTier
      <4>1. LaionTiers \in SUBSET Nat /\ \A width \in LaionTiers : width <= WidestTier
        BY LaionWidthsAre
      <4>2. ASSUME NEW width \in LaionTiers PROVE width \in Nat /\ width <= WidestTier
        BY <4>1
      <4> QED
        BY <3>2, <4>2
    <3>4. filter = NonFilter
      BY <3>1, FilterKinds DEF HasFiles
    <3>5. Left(data, filter) = data.size - (data.size \div 1000) * 0
      BY <3>4 DEF Left, NonFilter, Filter
    <3>6. Left(data, filter) = LaionRows - 100000 * 0
      BY SMT, <1>2, <2>2, <3>5 DEF HasFiles
    <3>7. WidestTier <= LaionRows - 100000 * 0
      BY SMT DEF WidestTier, LaionRows
    <3>8. LaionRows - 100000 * 0 \in Int /\ WidestTier \in Int
      BY SMT DEF WidestTier, LaionRows
    <3> QED
      BY SMT, <3>2, <3>3, <3>6, <3>7, <3>8
  <2> QED
    BY <2>5, <2>6
<1>3. ASSUME data \notin RegisteredParquet \cup Hdf5Data, data.class # "LAION"
      PROVE  FALSE
  BY <1>3 DEF resolve_search_files, FilesOf, SearchFile
<1> QED
  BY <1>1, <1>2, <1>3

\* The files a case searches with are those of the rows its filter lets through.
LEMMA FilesAreTrue ==
    ASSUME NEW case, HasFiles(case), NEW k \in Int,
           NEW file \in resolve_search_files(case.data, k, case.filter)
    PROVE  IsTruthOf(file, case, k)
<1> DEFINE data == case.data
           filter == case.filter
<1>1. \/ file.truth \in groundtruth_file(filter)
      \/ Unfiltered(filter) /\ file.truth = Truth("none", 0)
  <2>1. \A width, f : f \in FilesOf(filter, width) => f.truth \in groundtruth_file(filter)
    BY DEF FilesOf, SearchFile
  <2>2. \A widths, f : f \in Narrowest(k, widths, filter) => f.truth \in groundtruth_file(filter)
    BY <2>1 DEF Narrowest
  <2>3. \A f \in LaionFiles(k, filter) : f.truth \in groundtruth_file(filter)
    BY <2>1, <2>2 DEF LaionFiles
  <2> QED
    BY <2>1, <2>3 DEF resolve_search_files, SearchFile
<1>2. Unfiltered(filter) => AskedOf(filter) = Truth("none", 0)
  BY DEF Unfiltered, AskedOf
<1>3. file.truth = AskedOf(filter) \/ NamesAnotherRate(AskedOf(filter))
  BY <1>1, <1>2, TruthOfFilter DEF HasFiles
<1> QED
  BY <1>3, WidthsFit DEF IsTruthOf, AskedOf

\* What a case that runs is: a task of those submitted, and a case its configuration makes.
LEMMA RunnersAreTasks ==
    ASSUME SubmitInv, outcome = "assembled", NEW j \in DOMAIN case_runners
    PROVE  \E i \in DOMAIN submitted :
              LET config == submitted[i].config
                  task == case_runners[j]
              IN  /\ task = TaskOf(submitted[i], TheCase(submitted[i]))
                  /\ submitted[i] \in TaskConfigs /\ config \in CaseConfigs
                  /\ task.db = submitted[i].db /\ task.config = config
                  /\ task.stages = submitted[i].stages
                  /\ task.case \in case_of(config) /\ task.label = task.case.label
<1>1. submitted \in Seq(TaskConfigs) /\ CasesExist /\ case_runners = AssembleAll(Tasks)
  BY DEF SubmitInv
<1>2. Tasks \in Seq(TheTasks) /\ Orderable(TheTasks)
  BY <1>1, TasksAreOrderable
<1>3. Lists(case_runners, Tasks, DOMAIN Tasks, RunOrder(Tasks))
  BY <1>1, <1>2, AssemblyIsAnOrder
<1>4. PICK i \in DOMAIN Tasks : case_runners[j] = Tasks[i]
  <2>1. DOMAIN case_runners = 1..Len(case_runners)
    BY <1>2, <1>3, RunOfTasks
  <2> QED
    BY <1>2, <1>3, <2>1, RunOfTasks
<1>5. i \in DOMAIN submitted /\ case_runners[j] = TaskOf(submitted[i], TheCase(submitted[i]))
  BY <1>4 DEF Tasks
<1>6. submitted[i] \in TaskConfigs /\ submitted[i].config \in CaseConfigs
  <2>1. submitted[i] \in TaskConfigs
    BY <1>1, <1>5
  <2> QED
    BY <2>1 DEF TaskConfigs
<1>7. TheCase(submitted[i]) \in case_of(submitted[i].config)
  BY <1>1, <1>5 DEF CasesExist, TheCase
<1> QED
  BY <1>5, <1>6, <1>7 DEF TaskOf

\* A search is compared with the neighbours among the rows its filter lets through,
\* save for the rates of NamesAnotherRate: whatever is submitted, the files that
\* resolve_search_files names for a case that is built are of its own filter, and where
\* their width is known they have K neighbours (dataset.py 660-716, filter.py 45-93).
THEOREM TruthsOfFilters == SubmitSpec => []TruthIsOfTheFilter
<1>1. ASSUME SubmitInv PROVE TruthIsOfTheFilter
  <2> SUFFICES ASSUME outcome = "assembled", NEW j \in DOMAIN case_runners,
                      NEW file \in resolve_search_files(case_runners[j].case.data,
                                      case_runners[j].config.k, case_runners[j].case.filter)
               PROVE  IsTruthOf(file, case_runners[j].case, case_runners[j].config.k)
    BY DEF TruthIsOfTheFilter
  <2>1. PICK i \in DOMAIN submitted :
           /\ case_runners[j].config \in CaseConfigs
           /\ case_runners[j].case \in case_of(case_runners[j].config)
    BY <1>1, RunnersAreTasks
  <2>2. case_runners[j].config.k \in Int
    BY <2>1 DEF CaseConfigs
  <2>3. HasFiles(case_runners[j].case)
    BY <2>1, CasesHaveFiles
  <2> QED
    BY <2>2, <2>3, FilesAreTrue
<1> QED
  BY <1>1, SubmissionInvariant, PTL

-------------------------------------------------------------------------------
(* What a command asks for and what runs.                                        *)

\* What is pending, and then run, is the one task made of the options of a command.
CommandInv ==
    request.by = "command" /\ outcome \in {"pending", "assembled"} =>
        \E command \in Commands :
            LET options == command.options
            IN  /\ request.options = options /\ CommandIsValid(options)
                /\ submitted = <<Submitted(command.db, ConfigOf(options), StagesOf(options),
                                           options.insert_batch_size)>>

\* No step leaves CommandInv: only a command writes the request of a command, and what
\* it submits is then only assembled.
LEMMA CommandInvStep ==
    ASSUME CommandInv, [SubmitNext]_submitVars
    PROVE  CommandInv'
<1>1. ASSUME NEW entered \in BOOLEAN, outcome = "idle", SaveCustomDataset(entered)
      PROVE  CommandInv'
  BY <1>1 DEF SaveCustomDataset, CommandInv
<1>2. ASSUME PageCannotOpen PROVE CommandInv'
  BY <1>2 DEF PageCannotOpen, Ask, End, CommandInv
<1>3. ASSUME NEW form \in Forms, FillForm(form) PROVE CommandInv'
  <2>1. request'.by = "page"
    BY <1>3 DEF FillForm, Ask
  <2> QED
    BY <2>1 DEF CommandInv
<1>4. ASSUME NEW command \in Commands, GiveCommand(command) PROVE CommandInv'
  <2> DEFINE options == command.options
             task == Submitted(command.db, ConfigOf(options), StagesOf(options),
                               options.insert_batch_size)
  <2>1. /\ request'.options = options
        /\ \/ CommandIsValid(options) /\ submitted' = <<task>>
           \/ outcome' = "command_refused"
    BY <1>4 DEF GiveCommand, Ask, End
  <2> QED
    BY <2>1 DEF CommandInv
<1>5. ASSUME NEW tasks \in Posts, PostTasks(tasks) PROVE CommandInv'
  <2>1. request'.by = "service"
    BY <1>5 DEF PostTasks, Ask
  <2> QED
    BY <2>1 DEF CommandInv
<1>6. ASSUME NEW k \in Ks, PressRun(k) PROVE CommandInv'
  <2>1. request'.by = "page"
    BY <1>6 DEF PressRun
  <2> QED
    BY <2>1 DEF CommandInv
<1>7. ASSUME Assemble \/ RefuseCase \/ RefuseFilter PROVE CommandInv'
  <2>1. /\ outcome = "pending" /\ request' = request /\ submitted' = submitted
    BY <1>7 DEF Assemble, RefuseCase, RefuseFilter, Conclude
  <2> QED
    BY <2>1 DEF CommandInv
<1>8. ASSUME UNCHANGED submitVars PROVE CommandInv'
  BY <1>8 DEF submitVars, CommandInv
<1> QED
  BY <1>1, <1>2, <1>3, <1>4, <1>5, <1>6, <1>7, <1>8 DEF SubmitNext, Request

\* The parameters of a type without any are the defaults.
LEMMA PlainParameters ==
    ASSUME NEW options, options.case_type \notin ParameterCases
    PROVE  get_custom_case_config(options) = NoParameters
BY DEF get_custom_case_config, ParameterCases, StreamingTypes

\* The parameters of each other type.
LEMMA TypeParameters ==
    ASSUME NEW options
    PROVE  LET type == options.case_type
               custom == get_custom_case_config(options)
           IN  /\ type = "Performance" =>
                     custom = [NoParameters EXCEPT !.dataset_name = options.dataset_name]
               /\ type = "PerformanceCustomDataset" =>
                     custom = [NoParameters EXCEPT !.dataset_config = TRUE]
               /\ type = "NewIntFilterPerformanceCase" =>
                     custom = [NoParameters EXCEPT
                                 !.dataset_with_size_type = SizeTypeOption(options),
                                 !.filter_rate = options.filter_rate]
               /\ type = "LabelFilterPerformanceCase" =>
                     custom = [NoParameters EXCEPT
                                 !.dataset_with_size_type = SizeTypeOption(options),
                                 !.label_percentage = options.label_percentage]
               /\ type = "CloudPayloadSearchCase" => custom = CloudParameters(options)
               /\ type = "CloudColdLatencyCase" =>
                     custom = [CloudParameters(options) EXCEPT
                                 !.query_count = options.cloud_cold_query_count]
               /\ type = "CloudInsertCase" =>
                     custom = [NoParameters EXCEPT
                                 !.dataset_with_size_type = SizeTypeOption(options)]
               /\ type = "CloudMultiTenantSearchCase" =>
                     custom = [CloudParameters(options) EXCEPT
                                 !.tenant_count = options.tenant_count,
                                 !.tenant_id_width = options.tenant_id_width]
               /\ type = "FTSBm25Performance" =>
                     custom = [NoParameters EXCEPT
                                 !.dataset_with_size_type = FtsSizeTypeOption(options),
                                 !.payload_profile = options.payload_profile,
                                 !.filter_rate = options.fts_filter_rate]
BY DEF get_custom_case_config, StreamingTypes

\* The stages of a valid command.
LEMMA StagesOfCommand ==
    ASSUME NEW options, StagesAreValid(options)
    PROVE  LET stages == StagesOf(options)
           IN  /\ "LOAD" \in stages <=> options.load
               /\ "DROP_OLD" \in stages <=> "LOAD" \in stages
               /\ "SEARCH_SERIAL" \in stages <=> options.search_serial
               /\ "SEARCH_CONCURRENT" \in stages <=> options.search_concurrent
<1> DEFINE stages == StagesOf(options)
<1>1. "LOAD" \in stages <=> options.load
  BY DEF StagesOf
<1>2. "DROP_OLD" \in stages <=> DropsOld(options)
  BY DEF StagesOf
<1>3. "SEARCH_SERIAL" \in stages <=> options.search_serial
  BY DEF StagesOf
<1>4. "SEARCH_CONCURRENT" \in stages <=> options.search_concurrent
  BY DEF StagesOf
<1>5. options.load <=> DropsOld(options)
  BY DEF StagesAreValid, DropsOld
<1> QED
  BY <1>1, <1>2, <1>3, <1>4, <1>5

\* What the parameters of a command's case take from its options, type by type.
TakesFrom(custom, options) ==
    LET type == options.case_type
        name == custom.dataset_with_size_type
    IN  /\ type \notin ParameterCases =>
              custom.filter_rate = None
        /\ type = "NewIntFilterPerformanceCase" =>
              name = SizeTypeOption(options) /\ custom.filter_rate = options.filter_rate
        /\ type = "LabelFilterPerformanceCase" =>
              /\ name = SizeTypeOption(options)
              /\ custom.label_percentage = options.label_percentage
        /\ type \in {"CloudPayloadSearchCase", "CloudColdLatencyCase",
                     "CloudMultiTenantSearchCase"} =>
              /\ name = options.dataset_with_size_type
              /\ custom.filter_rate = options.cloud_filter_rate
              /\ custom.label_percentage = options.cloud_label_percentage
        /\ type = "CloudInsertCase" => name = SizeTypeOption(options)
        /\ type = "PerformanceCustomDataset" => custom.use_filter = FALSE
        /\ type = "FTSBm25Performance" =>
              /\ name = FtsSizeTypeOption(options)
              /\ custom.label_percentage = None
              /\ custom.filter_rate = options.fts_filter_rate

\* get_custom_case_config keeps the options that the case is asked for with.
LEMMA CommandFields ==
    ASSUME NEW options, NEW profile, NEW custom,
           custom = [get_custom_case_config(options) EXCEPT !.payload_profile = profile]
    PROVE  TakesFrom(custom, options)
<1> DEFINE type == options.case_type
           given == get_custom_case_config(options)
<1>1. ASSUME type \notin ParameterCases PROVE custom.filter_rate = None
  <2>1. given = NoParameters
    BY <1>1, PlainParameters
  <2>2. custom = [NoParameters EXCEPT !.payload_profile = profile]
    BY <2>1
  <2> QED
    BY <2>2 DEF NoParameters
<1>2. ASSUME type = "NewIntFilterPerformanceCase"
      PROVE  /\ custom.dataset_with_size_type = SizeTypeOption(options)
             /\ custom.filter_rate = options.filter_rate
  <2>1. given = [NoParameters EXCEPT !.dataset_with_size_type = SizeTypeOption(options),
                                   !.filter_rate = options.filter_rate]
    BY <1>2, TypeParameters
  <2> QED
    BY <2>1 DEF NoParameters
<1>3. ASSUME type = "LabelFilterPerformanceCase"
      PROVE  /\ custom.dataset_with_size_type = SizeTypeOption(options)
             /\ custom.label_percentage = options.label_percentage
  <2>1. given = [NoParameters EXCEPT !.dataset_with_size_type = SizeTypeOption(options),
                                   !.label_percentage = options.label_percentage]
    BY <1>3, TypeParameters
  <2> QED
    BY <2>1 DEF NoParameters
<1>4. ASSUME type \in {"CloudPayloadSearchCase", "CloudColdLatencyCase",
                       "CloudMultiTenantSearchCase"}
      PROVE  /\ custom.dataset_with_size_type = options.dataset_with_size_type
             /\ custom.filter_rate = options.cloud_filter_rate
             /\ custom.label_percentage = options.cloud_label_percentage
  <2>1. CASE type = "CloudPayloadSearchCase"
    <3>1. given = CloudParameters(options)
      BY <2>1, TypeParameters
    <3> QED
      BY <3>1 DEF CloudParameters, NoParameters
  <2>2. CASE type = "CloudColdLatencyCase"
    <3>1. given = [CloudParameters(options) EXCEPT
                      !.query_count = options.cloud_cold_query_count]
      BY <2>2, TypeParameters
    <3> QED
      BY <3>1 DEF CloudParameters, NoParameters
  <2>3. CASE type = "CloudMultiTenantSearchCase"
    <3>1. given = [CloudParameters(options) EXCEPT !.tenant_count = options.tenant_count,
                                                  !.tenant_id_width = options.tenant_id_width]
      BY <2>3, TypeParameters
    <3> QED
      BY <3>1 DEF CloudParameters, NoParameters
  <2> QED
    BY <1>4, <2>1, <2>2, <2>3
<1>5. ASSUME type = "CloudInsertCase"
      PROVE  custom.dataset_with_size_type = SizeTypeOption(options)
  <2>1. given = [NoParameters EXCEPT !.dataset_with_size_type = SizeTypeOption(options)]
    BY <1>5, TypeParameters
  <2> QED
    BY <2>1 DEF NoParameters
<1>6. ASSUME type = "PerformanceCustomDataset" PROVE custom.use_filter = FALSE
  <2>1. given = [NoParameters EXCEPT !.dataset_config = TRUE]
    BY <1>6, TypeParameters
  <2> QED
    BY <2>1 DEF NoParameters
<1>7. ASSUME type = "FTSBm25Performance"
      PROVE  /\ custom.dataset_with_size_type = FtsSizeTypeOption(options)
             /\ custom.label_percentage = None
             /\ custom.filter_rate = options.fts_filter_rate
  <2>1. given = [NoParameters EXCEPT !.dataset_with_size_type = FtsSizeTypeOption(options),
                                   !.payload_profile = options.payload_profile,
                                   !.filter_rate = options.fts_filter_rate]
    BY <1>7, TypeParameters
  <2> QED
    BY <2>1 DEF NoParameters
<1> QED
  BY <1>1, <1>2, <1>3, <1>4, <1>5, <1>6, <1>7 DEF TakesFrom

\* A case has the data it is made of, and the rate of its filter.
LEMMA RatesOfFilters ==
    /\ NonFilter.rate = 0
    /\ \A rate : IntFilter(rate).rate = rate /\ NewIntFilter(rate).rate = rate
    /\ \A part \in Int : LabelFilter(part).rate = 1000 - part
    /\ \A custom : custom.label_percentage = None =>
          CloudFilter(custom).rate = DefaultNumber(custom.filter_rate, 0)
    /\ \A custom : custom.label_percentage \in Int /\ custom.label_percentage # None =>
          CloudFilter(custom).rate = 1000 - custom.label_percentage
<1>1. /\ NonFilter.rate = 0
      /\ \A rate : IntFilter(rate).rate = rate /\ NewIntFilter(rate).rate = rate
      /\ \A part \in Int : LabelFilter(part).rate = 1000 - part
  BY DEF NonFilter, IntFilter, NewIntFilter, LabelFilter, Filter
<1>2. ASSUME NEW custom, custom.label_percentage = None
      PROVE  CloudFilter(custom).rate = DefaultNumber(custom.filter_rate, 0)
  BY <1>1, <1>2 DEF CloudFilter, DefaultNumber
<1>3. ASSUME NEW custom, custom.label_percentage \in Int, custom.label_percentage # None
      PROVE  CloudFilter(custom).rate = 1000 - custom.label_percentage
  BY <1>1, <1>3 DEF CloudFilter
<1> QED
  BY <1>1, <1>2, <1>3

\* The rate that the options of each type with parameters ask for.
LEMMA AskedRates ==
    ASSUME NEW options, options.case_type \in ParameterCases
    PROVE  LET type == options.case_type
           IN  /\ type = "NewIntFilterPerformanceCase" =>
                     AskedRate(options) = options.filter_rate
               /\ type = "LabelFilterPerformanceCase" =>
                     AskedRate(options) = 1000 - options.label_percentage
               /\ type = "FTSBm25Performance" =>
                     AskedRate(options) = DefaultNumber(options.fts_filter_rate, 0)
               /\ type \in {"CloudPayloadSearchCase", "CloudColdLatencyCase",
                            "CloudMultiTenantSearchCase"} =>
                     AskedRate(options) =
                        IF options.cloud_label_percentage # None
                          THEN 1000 - options.cloud_label_percentage
                          ELSE DefaultNumber(options.cloud_filter_rate, 0)
               /\ type \in {"Performance", "PerformanceCustomDataset", "CloudInsertCase",
                            "StreamingPerformanceCase", "StreamingCustomDataset"} =>
                     AskedRate(options) = 0
<1>1. options.case_type \notin DOMAIN FixedFilterCases
  BY TypesDiffer
<1> QED
  BY <1>1 DEF AskedRate

\* The data of a cloud case.
LEMMA CloudDataIs ==
    ASSUME NEW custom
    PROVE  CloudData(custom) = IF custom.dataset_with_size_type = "" THEN AllOfLaion
                               ELSE SizeType(custom.dataset_with_size_type)
BY DEF CloudData, AllOfLaion

\* The case of a command has the dataset and the rate that the options say.
LEMMA CommandCase ==
    ASSUME NEW options, ConfigOf(options) \in CaseConfigs,
           NEW case \in case_of(ConfigOf(options))
    PROVE  /\ options.dataset_with_size_type # "" /\ TakesDataset(options)
                => case.data = AskedData(options)
           /\ case.filter.rate = AskedRate(options)
<1> DEFINE config == ConfigOf(options)
           type == options.case_type
           asked == options.dataset_with_size_type
<1>1. PICK profile, custom :
        /\ custom = [get_custom_case_config(options) EXCEPT !.payload_profile = profile]
        /\ case \in case_cls(type, custom) /\ custom.label_percentage \in Int
  <2>1. /\ config.case_id = type
        /\ config.custom_case = get_custom_case_config(options)
    BY DEF ConfigOf, CaseConfig
  <2> HIDE DEF config
  <2> QED
    BY <2>1, ConfiguredCustom DEF config
<1>2. type \in CaseType
  BY DEF ConfigOf, CaseConfig, CaseConfigs
<1>3. ASSUME NEW label, NEW datas, NEW filter, NEW payload,
             case \in Cases(label, datas, filter, payload)
      PROVE  case.data \in datas /\ case.filter = filter
  BY <1>3, CasesAre
<1>4. ASSUME NEW name, NEW d \in SizeType(name) PROVE d = DatasetWithSize[name]
  BY DEF SizeType
<1>5. asked # "" => SizeTypeOption(options) = asked
  BY DEF SizeTypeOption, DefaultName
<1>label. custom.label_percentage \in Int
  BY <1>1
<1>fields. TakesFrom(custom, options)
  BY <1>1, CommandFields
<1> HIDE DEF type, asked
<1>6. CASE type \notin ParameterCases
  <2>1. ~TakesDataset(options)
    BY <1>6 DEF TakesDataset, ParameterCases, type
  <2>2. AskedRate(options) = IF type \in DOMAIN FixedFilterCases THEN FixedFilterCases[type][2]
                             ELSE 0
    BY <1>6 DEF AskedRate, ParameterCases, type
  <2>3. custom.filter_rate = None
    BY <1>fields, <1>6 DEF TakesFrom, type
  <2>4. NonFilter.rate = 0 /\ \A rate : IntFilter(rate).rate = rate
    BY RatesOfFilters
  <2>5. CASE type \in DOMAIN CapacityCases \cup DOMAIN FixedCases
    <3>1. case.filter = NonFilter
      <4>1. CASE type \in DOMAIN CapacityCases
        <5>1. case \in Cases("Load", CapacityCases[type], NonFilter, "ids_only")
          BY <1>1, <4>1, TableByType
        <5> QED
          BY <1>3, <5>1
      <4>2. CASE type \in DOMAIN FixedCases
        <5>1. case \in Cases("Performance", FixedCases[type], NonFilter, Payload(custom))
          BY <1>1, <4>2, TableByType
        <5> QED
          BY <1>3, <5>1
      <4> QED
        BY <2>5, <4>1, <4>2
    <3>2. type \notin DOMAIN FixedFilterCases
      BY <2>5, TypesDiffer
    <3>3. AskedRate(options) = 0
      BY <2>2, <3>2
    <3>4. case.filter.rate = AskedRate(options)
      BY <2>4, <3>1, <3>3
    <3> QED
      BY <2>1, <3>4
  <2>6. CASE type \in DOMAIN FixedFilterCases
    <3> DEFINE rate == FixedFilterCases[type][2]
    <3>1. DefaultNumber(custom.filter_rate, rate) = rate
      BY <2>3 DEF DefaultNumber
    <3>2. case \in Cases("Performance", FixedFilterCases[type][1],
                        IntFilter(DefaultNumber(custom.filter_rate, rate)), Payload(custom))
      BY <1>1, <2>6, TableByType
    <3>3. AskedRate(options) = rate
      BY <2>2, <2>6
    <3> HIDE DEF rate
    <3>4. case.filter = IntFilter(rate)
      BY <1>3, <3>1, <3>2
    <3>5. case.filter.rate = AskedRate(options)
      BY <2>4, <3>3, <3>4
    <3> QED
      BY <2>1, <3>5
  <2> QED
    BY <1>2, <1>6, <2>5, <2>6 DEF CaseType
<1>7. CASE type = "NewIntFilterPerformanceCase"
  <2>1. /\ custom.dataset_with_size_type = SizeTypeOption(options)
        /\ custom.filter_rate = options.filter_rate
    BY <1>fields, <1>7 DEF TakesFrom, type
  <2>2. case \in NewIntFilterPerformanceCase(custom)
    BY <1>1, <1>7, TableOfParameters
  <2>3. case \in Cases("Performance", SizeType(custom.dataset_with_size_type),
                      NewIntFilter(custom.filter_rate), Payload(custom))
    BY <2>2 DEF NewIntFilterPerformanceCase
  <2>4. /\ case.data \in SizeType(custom.dataset_with_size_type)
        /\ case.filter = NewIntFilter(custom.filter_rate)
    BY <1>3, <2>3
  <2>5. AskedRate(options) = options.filter_rate
    BY <1>7, AskedRates DEF ParameterCases, type
  <2>6. AskedData(options) = DatasetWithSize[asked]
    BY <1>7 DEF AskedData, type, asked
  <2>7. case.filter.rate = AskedRate(options)
    BY <2>1, <2>4, <2>5, RatesOfFilters
  <2>8. asked # "" => case.data = AskedData(options)
    BY <1>4, <1>5, <2>1, <2>4, <2>6
  <2> QED
    BY <2>7, <2>8 DEF asked
<1>8. CASE type = "LabelFilterPerformanceCase"
  <2>1. /\ custom.dataset_with_size_type = SizeTypeOption(options)
        /\ custom.label_percentage = options.label_percentage
    BY <1>fields, <1>8 DEF TakesFrom, type
  <2>2. case \in LabelFilterPerformanceCase(custom)
    BY <1>1, <1>8, TableOfParameters
  <2>3. case \in Cases("Performance", SizeType(custom.dataset_with_size_type),
                      LabelFilter(custom.label_percentage), Payload(custom))
    BY <2>2 DEF LabelFilterPerformanceCase
  <2>4. /\ case.data \in SizeType(custom.dataset_with_size_type)
        /\ case.filter = LabelFilter(custom.label_percentage)
    BY <1>3, <2>3
  <2>5. AskedRate(options) = 1000 - options.label_percentage
    BY <1>8, AskedRates DEF ParameterCases, type
  <2>6. AskedData(options) = DatasetWithSize[asked]
    BY <1>8 DEF AskedData, type, asked
  <2>7. case.filter.rate = AskedRate(options)
    BY <1>1, <2>1, <2>4, <2>5, RatesOfFilters
  <2>8. asked # "" => case.data = AskedData(options)
    BY <1>4, <1>5, <2>1, <2>4, <2>6
  <2> QED
    BY <2>7, <2>8 DEF asked
<1>9. ASSUME type \in {"CloudPayloadSearchCase", "CloudColdLatencyCase",
                      "CloudMultiTenantSearchCase"},
             custom.filter_rate = options.cloud_filter_rate,
             custom.label_percentage = options.cloud_label_percentage
      PROVE  CloudFilter(custom).rate = AskedRate(options)
  <2>1. AskedRate(options) = IF custom.label_percentage # None
                               THEN 1000 - custom.label_percentage
                               ELSE DefaultNumber(custom.filter_rate, 0)
    BY <1>9, AskedRates DEF ParameterCases, type
  <2> QED
    BY <1>label, <2>1, RatesOfFilters
<1>10. CASE type = "CloudPayloadSearchCase"
  <2>1. /\ custom.dataset_with_size_type = asked
        /\ custom.filter_rate = options.cloud_filter_rate
        /\ custom.label_percentage = options.cloud_label_percentage
    BY <1>fields, <1>10 DEF TakesFrom, type, asked
  <2>2. case \in CloudPayloadSearchCase(custom)
    BY <1>1, <1>10, TableOfParameters
  <2>3. case \in Cases("Performance", CloudData(custom), CloudFilter(custom), Payload(custom))
    BY <2>2 DEF CloudPayloadSearchCase
  <2>4. case.data \in CloudData(custom) /\ case.filter = CloudFilter(custom)
    BY <1>3, <2>3
  <2>5. case.filter.rate = AskedRate(options)
    BY <1>1, <1>9, <1>10, <2>1, <2>4
  <2>6. AskedData(options) = DatasetWithSize[asked]
    BY <1>10 DEF AskedData, type, asked
  <2>7. asked # "" => case.data = AskedData(options)
    BY <1>4, <2>1, <2>4, <2>6, CloudDataIs
  <2> QED
    BY <2>5, <2>7 DEF asked
<1>11. CASE type = "CloudColdLatencyCase"
  <2>1. /\ custom.dataset_with_size_type = asked
        /\ custom.filter_rate = options.cloud_filter_rate
        /\ custom.label_percentage = options.cloud_label_percentage
    BY <1>fields, <1>11 DEF TakesFrom, type, asked
  <2>2. case \in CloudColdLatencyCase(custom)
    BY <1>1, <1>11, TableOfParameters
  <2>3. case \in Cases("CloudColdLatency", CloudData(custom), CloudFilter(custom), Payload(custom))
    BY <2>2 DEF CloudColdLatencyCase
  <2>4. case.data \in CloudData(custom) /\ case.filter = CloudFilter(custom)
    BY <1>3, <2>3
  <2>5. case.filter.rate = AskedRate(options)
    BY <1>1, <1>9, <1>11, <2>1, <2>4
  <2>6. AskedData(options) = DatasetWithSize[asked]
    BY <1>11 DEF AskedData, type, asked
  <2>7. asked # "" => case.data = AskedData(options)
    BY <1>4, <2>1, <2>4, <2>6, CloudDataIs
  <2> QED
    BY <2>5, <2>7 DEF asked
<1>12. CASE type = "CloudMultiTenantSearchCase"
  <2> DEFINE tenants == DefaultNumber(custom.tenant_count, 1000)
             datas == SizeType(DefaultName(custom.dataset_with_size_type, "CohereLarge"))
             cases == Cases("Performance", datas, CloudFilter(custom), Payload(custom))
  <2>1. /\ custom.dataset_with_size_type = asked
        /\ custom.filter_rate = options.cloud_filter_rate
        /\ custom.label_percentage = options.cloud_label_percentage
    BY <1>fields, <1>12 DEF TakesFrom, type, asked
  <2>2. case \in CloudMultiTenantSearchCase(custom)
    BY <1>1, <1>12, TableOfParameters
  <2>3. PICK d \in cases : case = [d EXCEPT !.tenants = tenants]
    BY <2>2 DEF CloudMultiTenantSearchCase
  <2>4. /\ d.data \in datas /\ d.filter = CloudFilter(custom)
        /\ d = NewCase("Performance", d.data, CloudFilter(custom), Payload(custom), 0)
    BY <2>3, CasesAre
  <2>5. case.data = d.data /\ case.filter = d.filter
    BY <2>3, <2>4 DEF NewCase
  <2>6. case.filter.rate = AskedRate(options)
    BY <1>9, <1>12, <2>1, <2>4, <2>5
  <2>7. AskedData(options) = DatasetWithSize[asked]
    BY <1>12 DEF AskedData, type, asked
  <2>8. asked # "" => case.data = AskedData(options)
    BY <1>4, <2>1, <2>4, <2>5, <2>7 DEF DefaultName
  <2> QED
    BY <2>6, <2>8 DEF asked
<1>13. CASE type = "CloudInsertCase"
  <2>1. custom.dataset_with_size_type = SizeTypeOption(options)
    BY <1>fields, <1>13 DEF TakesFrom, type
  <2>2. case \in CloudInsertCase(custom)
    BY <1>1, <1>13, TableOfParameters
  <2>3. case \in Cases("CloudInsert", CloudData(custom), NonFilter, "ids_only")
    BY <2>2 DEF CloudInsertCase
  <2>4. case.data \in CloudData(custom) /\ case.filter = NonFilter
    BY <1>3, <2>3
  <2>5. case.filter.rate = AskedRate(options)
    BY <1>13, <2>4, AskedRates, RatesOfFilters DEF ParameterCases, type
  <2>6. AskedData(options) = DatasetWithSize[asked]
    BY <1>13 DEF AskedData, type, asked
  <2>7. asked # "" => case.data = AskedData(options)
    BY <1>4, <1>5, <2>1, <2>4, <2>6, CloudDataIs
  <2> QED
    BY <2>5, <2>7 DEF asked
<1>14. CASE type = "FTSBm25Performance"
  <2> DEFINE name == DefaultName(custom.dataset_with_size_type, "MSMarcoSmall")
  <2>1. /\ custom.dataset_with_size_type = FtsSizeTypeOption(options)
        /\ custom.label_percentage = None
        /\ custom.filter_rate = options.fts_filter_rate
    BY <1>fields, <1>14 DEF TakesFrom, type
  <2>2. case \in FTSBm25Performance(custom)
    BY <1>1, <1>14, TableOfParameters
  <2>3. case \in Cases("FullTextSearch", {FtsDatasetWithSize[name]}, CloudFilter(custom),
                      Payload(custom))
    BY <2>2 DEF FTSBm25Performance
  <2>4. case.data = FtsDatasetWithSize[name] /\ case.filter = CloudFilter(custom)
    BY <1>3, <2>3
  <2>5. AskedRate(options) = DefaultNumber(options.fts_filter_rate, 0)
    BY <1>14, AskedRates DEF ParameterCases, type
  <2>6. case.filter.rate = AskedRate(options)
    BY <2>1, <2>4, <2>5, RatesOfFilters
  <2>7. AskedData(options) = FtsDatasetWithSize[asked]
    BY <1>14 DEF AskedData, type, asked
  <2>8. TakesDataset(options) => asked \in DOMAIN FtsDatasetWithSize
    BY <1>14 DEF TakesDataset, type, asked
  <2>9. asked # "" /\ TakesDataset(options) => name = asked
    BY <2>1, <2>8 DEF FtsSizeTypeOption, DefaultName, asked
  <2> HIDE DEF name
  <2> QED
    BY <2>4, <2>6, <2>7, <2>9 DEF asked
<1>15. CASE type \in {"Performance", "PerformanceCustomDataset",
                     "StreamingPerformanceCase", "StreamingCustomDataset"}
  <2>1. ~TakesDataset(options)
    BY <1>15 DEF TakesDataset, type
  <2>2. AskedRate(options) = 0
    BY <1>15, AskedRates DEF ParameterCases, type
  <2>3. CASE type = "Performance"
    <3>1. case \in Performance(custom)
      BY <1>1, <2>3, TableOfParameters
    <3>2. case.filter = NonFilter
      BY <1>3, <3>1 DEF Performance
    <3> QED
      BY <2>1, <2>2, <3>2, RatesOfFilters
  <2>4. CASE type = "PerformanceCustomDataset"
    <3>1. case \in PerformanceCustomDataset(custom) /\ custom.use_filter = FALSE
      BY <1>1, <1>fields, <2>4, TableOfParameters DEF TakesFrom, type
    <3>2. case.filter = NonFilter
      BY <1>3, <3>1 DEF PerformanceCustomDataset
    <3> QED
      BY <2>1, <2>2, <3>2, RatesOfFilters
  <2>5. CASE type = "StreamingPerformanceCase"
    <3>1. case \in StreamingPerformanceCase(custom)
      BY <1>1, <2>5, TableOfParameters
    <3>2. case.filter = NonFilter
      BY <1>3, <3>1 DEF StreamingPerformanceCase
    <3> QED
      BY <2>1, <2>2, <3>2, RatesOfFilters
  <2>6. CASE type = "StreamingCustomDataset"
    <3>1. case \in StreamingCustomDataset(custom)
      BY <1>1, <2>6, TableOfParameters
    <3>2. case.filter = NonFilter
      BY <1>3, <3>1 DEF StreamingCustomDataset
    <3> QED
      BY <2>1, <2>2, <3>2, RatesOfFilters
  <2> QED
    BY <1>15, <2>3, <2>4, <2>5, <2>6
<1> QED
  BY <1>6, <1>7, <1>8, <1>10, <1>11, <1>12, <1>13, <1>14, <1>15 DEF ParameterCases, asked

\* A command runs one case, on the dataset and with the filter of its options, and
\* loads when it may: the part of RunsWhatWasSubmitted that is about the command line.
THEOREM CommandRunsItsCase ==
    SubmitSpec =>
        [](outcome = "assembled" /\ request.by = "command" => RunsTheCommand(request.options))
<1>1. SubmitInit => CommandInv
  BY DEF SubmitInit, CommandInv
<1>2. CommandInv /\ [SubmitNext]_submitVars => CommandInv'
  BY CommandInvStep
<1>3. ASSUME SubmitInv, CommandInv, outcome = "assembled", request.by = "command"
      PROVE  RunsTheCommand(request.options)
  <2>1. PICK command \in Commands :
           LET options == command.options
           IN  /\ request.options = options /\ CommandIsValid(options)
               /\ submitted = <<Submitted(command.db, ConfigOf(options), StagesOf(options),
                                          options.insert_batch_size)>>
    BY <1>3 DEF CommandInv
  <2> DEFINE options == command.options
             config == ConfigOf(options)
             stages == StagesOf(options)
             only == Submitted(command.db, config, stages, options.insert_batch_size)
  <2>2. /\ request.options = options /\ StagesAreValid(options) /\ submitted = <<only>>
        /\ config \in CaseConfigs /\ only.config = config /\ only.stages = stages
    BY <2>1, CommandsAssumption DEF CommandIsValid, Submitted
  <2> HIDE DEF only, config, stages, options
  <2>3. Len(submitted) = 1 /\ submitted[1] = only /\ DOMAIN submitted = {1}
    BY <2>2
  <2>4. Len(case_runners) = 1 /\ 1 \in DOMAIN case_runners
    <3>1. CasesExist /\ case_runners = AssembleAll(Tasks) /\ submitted \in Seq(TaskConfigs)
      BY <1>3 DEF SubmitInv
    <3>2. Tasks \in Seq(TheTasks) /\ Orderable(TheTasks)
      BY <3>1, TasksAreOrderable
    <3>3. Lists(case_runners, Tasks, DOMAIN Tasks, RunOrder(Tasks))
      BY <3>1, <3>2, AssemblyIsAnOrder
    <3>4. Len(case_runners) = Len(Tasks)
      BY <3>2, <3>3, SameLength
    <3>5. Len(Tasks) = Len(submitted)
      BY <3>1 DEF Tasks
    <3>6. \E T : case_runners \in Seq(T)
      BY <3>2, <3>3, RunOfTasks
    <3> QED
      BY <2>3, <3>4, <3>5, <3>6
  <2> DEFINE task == case_runners[1]
  <2>5. task.case \in case_of(config) /\ task.stages = stages
    <3>1. PICK i \in DOMAIN submitted :
             /\ task.stages = submitted[i].stages
             /\ task.config = submitted[i].config
             /\ task.case \in case_of(submitted[i].config)
      BY <1>3, <2>4, RunnersAreTasks
    <3>2. i = 1
      BY <2>3
    <3> QED
      BY <2>2, <2>3, <3>1, <3>2
  <2>6. /\ options.dataset_with_size_type # "" /\ TakesDataset(options)
             => task.case.data = AskedData(options)
        /\ task.case.filter.rate = AskedRate(options)
    BY <2>2, <2>5, CommandCase DEF config
  <2>7. /\ "LOAD" \in task.stages <=> options.load
        /\ "DROP_OLD" \in task.stages <=> "LOAD" \in task.stages
        /\ "SEARCH_SERIAL" \in task.stages <=> options.search_serial
        /\ "SEARCH_CONCURRENT" \in task.stages <=> options.search_concurrent
    BY <2>2, <2>5, StagesOfCommand DEF stages
  <2> QED
    BY <2>2, <2>4, <2>6, <2>7 DEF RunsTheCommand
<1> QED
  BY <1>1, <1>2, <1>3, SubmissionInvariant, PTL DEF SubmitSpec

-------------------------------------------------------------------------------
(* What a page offers and what runs.                                             *)

\* The places of the items of a sequence of sequences.
PlacesIn(ss) == UNION {{i} \X DOMAIN ss[i] : i \in DOMAIN ss}

\* p tells where in ss each item of flat comes from: from each place, once.
Flattens(p, flat, ss) ==
    /\ p \in [1..Len(flat) -> PlacesIn(ss)]
    /\ \A q \in PlacesIn(ss) : \E n \in 1..Len(flat) : p[n] = q
    /\ \A n \in 1..Len(flat) : flat[n] = ss[p[n][1]][p[n][2]]
    /\ \A m, n \in 1..Len(flat) : m # n => p[m] # p[n]

\* FlattenSeq takes every item of every sequence, once.
LEMMA FlattenPlaces ==
    ASSUME NEW S, NEW ss \in Seq(Seq(S))
    PROVE  \E p : Flattens(p, FlattenSeq(ss), ss)
<1> DEFINE n == Len(ss)
           P == PlacesIn(ss)
           s == [q \in P |-> ss[q[1]][q[2]]]
           R == P \X P
           at == [i \in 1..n |-> {i} \X DOMAIN ss[i]]
           flat == FlattenSeq(ss)
<1>1. n \in Nat /\ DOMAIN ss = 1..n /\ \A i \in 1..n : ss[i] \in Seq(S)
  OBVIOUS
<1>2. P = UNION {at[i] : i \in 1..n}
  BY <1>1 DEF PlacesIn
<1>3. ASSUME NEW i \in 1..n PROVE Lists(ss[i], s, at[i], R)
  <2> DEFINE l == Len(ss[i])
             p == [j \in 1..l |-> <<i, j>>]
  <2>1. l \in Nat /\ DOMAIN ss[i] = 1..l /\ ss[i] \in Seq(S) /\ ss[i] = [j \in 1..l |-> ss[i][j]]
    BY <1>1
  <2>2. at[i] = {i} \X (1..l) /\ at[i] \subseteq P
    BY <1>2, <2>1
  <2>3. \A j \in 1..l : <<i, j>> \in at[i] /\ s[<<i, j>>] = ss[i][j]
    BY <2>2
  <2> DEFINE those == {s[q] : q \in at[i]}
  <2>4. ss[i] \in Seq(those)
    <3>1. \A j \in 1..l : ss[i][j] \in those
      BY <2>3
    <3> HIDE DEF those, l
    <3>2. [j \in 1..l |-> ss[i][j]] \in Seq(those)
      BY <2>1, <3>1
    <3> QED
      BY <2>1, <3>2
  <2>5. p \in [1..l -> at[i]]
    BY <2>3
  <2>6. \A q \in at[i] : \E j \in 1..l : p[j] = q
    BY <2>2
  <2>7. \A j \in 1..l : ss[i][j] = s[p[j]]
    BY <2>3
  <2>8. \A j, k \in 1..l : j # k => p[j] # p[k]
    OBVIOUS
  <2>9. \A j, k \in 1..l : <<p[j], p[k]>> \in R
    <3> HIDE DEF p, P
    <3> QED
      BY <2>2, <2>5
  <2> HIDE DEF p, s, R, at
  <2> QED
    BY <2>4, <2>5, <2>6, <2>7, <2>8, <2>9 DEF Lists
<1>4. Lists(flat, s, P, R)
  <2>1. CASE n = 0
    <3>1. flat = <<>> /\ P = {}
      BY <1>1, <1>2, <2>1 DEF FlattenSeq
    <3> HIDE DEF flat, s, P, R
    <3> QED
      BY <3>1, EmptyLists
  <2>2. CASE n # 0
    <3>1. n \in Nat \ {0} /\ Len(ss) = n
      BY <1>1, <2>2
    <3>2. \A i, j \in 1..n : i < j => at[i] \cap at[j] = {}
      BY <1>1
    <3>3. \A i, j \in 1..n : \A a \in at[i], b \in at[j] : <<a, b>> \in R
      BY <1>2
    <3> HIDE DEF n, s, at, R, P
    <3>4. \A i, j \in 1..n : i < j =>
             /\ at[i] \cap at[j] = {}
             /\ \A a \in at[i], b \in at[j] : <<a, b>> \in R
      BY <3>2, <3>3
    <3>5. \A i \in 1..n : Lists(ss[i], s, at[i], R)
      BY <1>3
    <3>6. Lists(FlattenSeq(ss), s, UNION {at[i] : i \in 1..n}, R)
      BY ONLY <3>1, <3>4, <3>5, ListsFlatten, SMTT(20)
    <3> QED
      BY <1>2, <3>6
  <2> QED
    BY <2>1, <2>2
<1>5. PICK p \in [1..Len(flat) -> P] :
        /\ \A q \in P : \E j \in 1..Len(flat) : p[j] = q
        /\ \A j \in 1..Len(flat) : flat[j] = s[p[j]]
        /\ \A j, k \in 1..Len(flat) : j # k => p[j] # p[k]
  <2> HIDE DEF flat, s, P, R
  <2> QED
    BY <1>4 DEF Lists
<1>6. \A j \in 1..Len(flat) : s[p[j]] = ss[p[j][1]][p[j][2]]
  <2> HIDE DEF P, flat
  <2> QED
    BY <1>5
<1> HIDE DEF flat, s
<1>7. \A j \in 1..Len(flat) : flat[j] = ss[p[j][1]][p[j][2]]
  BY <1>5, <1>6
<1>8. Flattens(p, flat, ss)
  BY <1>5, <1>7 DEF Flattens
<1> QED
  BY <1>8 DEF flat

\* What a flattened sequence has is what the sequences have.
LEMMA FlattenHas ==
    ASSUME NEW S, NEW ss \in Seq(Seq(S))
    PROVE  LET flat == FlattenSeq(ss)
           IN  /\ \A n \in DOMAIN flat : \E i \in DOMAIN ss : \E j \in DOMAIN ss[i] :
                     flat[n] = ss[i][j]
               /\ \A i \in DOMAIN ss : \A j \in DOMAIN ss[i] : \E n \in DOMAIN flat :
                     flat[n] = ss[i][j]
<1> DEFINE flat == FlattenSeq(ss)
<1>1. flat \in Seq(S) /\ DOMAIN flat = 1..Len(flat)
  <2>1. flat \in Seq(S)
    BY FlattenType
  <2> HIDE DEF flat
  <2> QED
    BY <2>1
<1>2. PICK p : Flattens(p, flat, ss)
  BY FlattenPlaces
<1> HIDE DEF flat
<1>3. ASSUME NEW n \in DOMAIN flat
      PROVE  \E i \in DOMAIN ss : \E j \in DOMAIN ss[i] : flat[n] = ss[i][j]
  <2>1. p[n] \in PlacesIn(ss) /\ flat[n] = ss[p[n][1]][p[n][2]]
    BY <1>1, <1>2 DEF Flattens
  <2>2. p[n][1] \in DOMAIN ss /\ p[n][2] \in DOMAIN ss[p[n][1]]
    BY <2>1 DEF PlacesIn
  <2> QED
    BY <2>1, <2>2
<1>4. ASSUME NEW i \in DOMAIN ss, NEW j \in DOMAIN ss[i]
      PROVE  \E n \in DOMAIN flat : flat[n] = ss[i][j]
  <2>1. <<i, j>> \in PlacesIn(ss)
    BY DEF PlacesIn
  <2>2. PICK n \in 1..Len(flat) : p[n] = <<i, j>>
    BY <1>2, <2>1 DEF Flattens
  <2>3. flat[n] = ss[i][j]
    BY <1>2, <2>2 DEF Flattens
  <2> QED
    BY <1>1, <2>2, <2>3
<1> QED
  BY <1>3, <1>4 DEF flat

\* Sequences without repetitions and without common items flatten to one without.
LEMMA FlattenDistinct ==
    ASSUME NEW S, NEW ss \in Seq(Seq(S)),
           \A i \in DOMAIN ss : IsInjective(ss[i]),
           \A a, b \in DOMAIN ss : \A j \in DOMAIN ss[a], k \in DOMAIN ss[b] :
              ss[a][j] = ss[b][k] => a = b
    PROVE  IsInjective(FlattenSeq(ss))
<1> DEFINE flat == FlattenSeq(ss)
<1>1. flat \in Seq(S) /\ DOMAIN flat = 1..Len(flat)
  <2>1. flat \in Seq(S)
    BY FlattenType
  <2> HIDE DEF flat
  <2> QED
    BY <2>1
<1>2. PICK p : Flattens(p, flat, ss)
  BY FlattenPlaces
<1> HIDE DEF flat
<1>3. ASSUME NEW m \in DOMAIN flat, NEW n \in DOMAIN flat, flat[m] = flat[n]
      PROVE  m = n
  <2>1. \A l \in {m, n} : /\ p[l] \in PlacesIn(ss) /\ flat[l] = ss[p[l][1]][p[l][2]]
    BY <1>1, <1>2 DEF Flattens
  <2>2. \A q \in PlacesIn(ss) : /\ q[1] \in DOMAIN ss /\ q[2] \in DOMAIN ss[q[1]]
                               /\ q = <<q[1], q[2]>>
    BY DEF PlacesIn
  <2>3. p[m][1] = p[n][1]
    BY <1>3, <2>1, <2>2
  <2>4. p[m][2] = p[n][2]
    BY <1>3, <2>1, <2>2, <2>3 DEF IsInjective
  <2>5. p[m] = p[n]
    BY <2>1, <2>2, <2>3, <2>4
  <2> QED
    BY <1>1, <1>2, <2>5 DEF Flattens
<1> QED
  BY <1>3 DEF IsInjective, flat

-------------------------------------------------------------------------------
(* The configurations of the items.                                              *)

\* A list comprehension over numbers takes each, once.
LEMMA ComprehensionHas ==
    ASSUME NEW f, NEW numbers, IsFiniteSet(numbers), numbers \subseteq Nat,
           \A m, n \in numbers : f[m] = f[n] => m = n, NEW list, list = AtPlaces(f, numbers)
    PROVE  /\ \A i \in DOMAIN list : \E n \in numbers : list[i] = f[n]
           /\ IsInjective(list)
<1> DEFINE rank == [n \in numbers |-> 0]
           R == numbers \X numbers
<1>1. rank \in [numbers -> Nat]
  OBVIOUS
<1>2. \A m, n \in numbers : Earlier(rank, m, n) => <<m, n>> \in R
  OBVIOUS
<1>3. list = Arranged(f, rank)
  BY DEF AtPlaces
<1> HIDE DEF rank, R
<1>4. Lists(list, f, numbers, R)
  BY <1>1, <1>2, <1>3, ArrangedLists
<1>5. PICK p \in [1..Len(list) -> numbers] :
        /\ \A j \in 1..Len(list) : list[j] = f[p[j]]
        /\ \A j, k \in 1..Len(list) : j # k => p[j] # p[k]
  BY <1>4 DEF Lists
<1>6. DOMAIN list = 1..Len(list)
  BY <1>4 DEF Lists
<1>7. \A i \in DOMAIN list : \E n \in numbers : list[i] = f[n]
  BY <1>5, <1>6
<1>8. ASSUME NEW j \in DOMAIN list, NEW k \in DOMAIN list, list[j] = list[k]
      PROVE  j = k
  <2>1. p[j] \in numbers /\ p[k] \in numbers /\ f[p[j]] = f[p[k]]
    BY <1>5, <1>6, <1>8
  <2>2. p[j] = p[k]
    BY <2>1
  <2> QED
    BY <1>5, <1>6, <2>2
<1> QED
  BY <1>7, <1>8 DEF IsInjective

\* The rates and percentages are finitely many numbers.
LEMMA RatesAre ==
    \A numbers \in {IntRates, LabelPercentages} \cup SUBSET LaionRates :
        IsFiniteSet(numbers) /\ numbers \subseteq Nat
<1>1. PICK n \in Nat : n = 999
  OBVIOUS
<1>2. IntRates \subseteq 1..n /\ LabelPercentages \subseteq 1..n /\ LaionRates \subseteq 1..n
  BY <1>1 DEF IntRates, LabelPercentages, LaionRates
<1>3. ASSUME NEW numbers \in SUBSET (1..n)
      PROVE  IsFiniteSet(numbers) /\ numbers \subseteq Nat
  <2>1. IsFiniteSet(1..n)
    BY FS_Interval
  <2>2. IsFiniteSet(numbers)
    BY <2>1, FS_Subset
  <2> QED
    BY <2>2
<1> QED
  BY <1>2, <1>3

\* What the item of a rate or of a percentage has.
IntRatesOffered(name, rates) ==
    \/ name = "LAIONLarge" /\ \E width : rates = {r \in LaionRates : Max(LaionWidths(r)) = width}
    \/ name \in DOMAIN DatasetWithSize \ {"LAIONLarge"} /\ rates = IntRates

\* Which item offers which configurations, one disjunct for each function that makes
\* items.
OfNormal(item, config) ==
    \E type \in OfferedTypes :
        config = CaseOf(type, NoParameters) /\ item = generate_normal_cases(type)

OfIntFilter(item, config) ==
    \E name, rates :
        /\ IntRatesOffered(name, rates) /\ item = generate_int_filter_cases(name, rates)
        /\ \E rate \in rates : config = IntFilterConfig(name, rate)

OfLabelFilter(item, config) ==
    \E name \in DOMAIN DatasetWithSize, part \in LabelPercentages :
        config = LabelFilterConfig(name, part) /\ item = generate_label_filter_cases(name)

OfRegistered(item, config) ==
    \E name \in DOMAIN Vibe \cup DOMAIN Multimodal :
        /\ config = CaseOf("Performance", [NoParameters EXCEPT !.dataset_name = name])
        /\ item = RegisteredItem(name)

OfText(item, config) ==
    \E name \in DOMAIN FtsDatasetWithSize :
        config = generate_fts_case(name) /\ item = get_fts_case_item(name)

OfStreaming(item, config) ==
    config = CaseOf("StreamingPerformanceCase", NoParameters) /\ item = CustomStreamingItem

\* The parameters of a dataset of the user's own with a label filter.
LabelledConfig == [DatasetConfig EXCEPT !.use_filter = TRUE, !.label_percentage = LabelOfText]

OfCustom(item, config) ==
    \E custom \in {DatasetConfig, LabelledConfig} :
        /\ config = CaseOf("PerformanceCustomDataset", custom)
        /\ item = Item(<<config>>, AnyDb, FALSE)

OfCustomStreaming(item, config) ==
    /\ config = CaseOf("StreamingCustomDataset", DatasetConfig)
    /\ item = Item(<<config>>, AnyDb, TRUE)

\* One of them.
Offers(item, config) ==
    \/ OfNormal(item, config) \/ OfIntFilter(item, config) \/ OfLabelFilter(item, config)
    \/ OfRegistered(item, config) \/ OfText(item, config) \/ OfStreaming(item, config)
    \/ OfCustom(item, config) \/ OfCustomStreaming(item, config)

\* Every item that can be chosen offers its configurations, each once.
LEMMA SelectableOffers ==
    ASSUME NEW item, NEW file, NEW dbs, IsSelectable(item, file, dbs)
    PROVE  /\ \A i \in DOMAIN item.configs : Offers(item, item.configs[i])
           /\ IsInjective(item.configs)
           /\ item.inputs => \A i \in DOMAIN item.configs : i = 1
<1>1. ASSUME NEW config, NEW takes, NEW inputs, item = Item(<<config>>, takes, inputs)
      PROVE  /\ DOMAIN item.configs = {1} /\ item.configs[1] = config
             /\ IsInjective(item.configs)
  BY <1>1 DEF Item, IsInjective
<1>2. ASSUME NEW type \in OfferedTypes, item = generate_normal_cases(type)
      PROVE  /\ \A i \in DOMAIN item.configs : OfNormal(item, item.configs[i])
             /\ IsInjective(item.configs) /\ item.inputs = FALSE
  <2>1. item = Item(<<CaseOf(type, NoParameters)>>, AnyDb, FALSE)
    BY <1>2 DEF generate_normal_cases
  <2>2. item.inputs = FALSE
    BY <2>1 DEF Item
  <2> QED
    BY <1>1, <1>2, <2>1, <2>2 DEF OfNormal
<1>3. ASSUME NEW name, NEW rates, IntRatesOffered(name, rates),
             item = generate_int_filter_cases(name, rates)
      PROVE  /\ \A i \in DOMAIN item.configs : OfIntFilter(item, item.configs[i])
             /\ IsInjective(item.configs) /\ item.inputs = FALSE
  <2> DEFINE f == [rate \in rates |-> IntFilterConfig(name, rate)]
  <2>1. item.configs = AtPlaces(f, rates) /\ item.inputs = FALSE
    BY <1>3 DEF generate_int_filter_cases, Item
  <2>2. IsFiniteSet(rates) /\ rates \subseteq Nat
    <3>1. rates = IntRates \/ rates \in SUBSET LaionRates
      BY <1>3 DEF IntRatesOffered
    <3> QED
      BY <3>1, RatesAre
  <2>3. \A m, n \in rates : f[m] = f[n] => m = n
    BY DEF IntFilterConfig, CaseOf, CaseConfig, SizeTypeParameter, NoParameters
  <2>4. \A rate \in rates : f[rate] = IntFilterConfig(name, rate)
    OBVIOUS
  <2> HIDE DEF f
  <2>5. /\ \A i \in DOMAIN item.configs : \E rate \in rates : item.configs[i] = f[rate]
        /\ IsInjective(item.configs)
    BY <2>1, <2>2, <2>3, ComprehensionHas
  <2> QED
    BY <1>3, <2>1, <2>4, <2>5 DEF OfIntFilter
<1>4. ASSUME NEW name \in DOMAIN DatasetWithSize, item = generate_label_filter_cases(name)
      PROVE  /\ \A i \in DOMAIN item.configs : OfLabelFilter(item, item.configs[i])
             /\ IsInjective(item.configs) /\ item.inputs = FALSE
  <2> DEFINE f == [part \in LabelPercentages |-> LabelFilterConfig(name, part)]
  <2>1. item.configs = AtPlaces(f, LabelPercentages) /\ item.inputs = FALSE
    BY <1>4 DEF generate_label_filter_cases, Item
  <2>2. IsFiniteSet(LabelPercentages) /\ LabelPercentages \subseteq Nat
    BY RatesAre
  <2>3. \A m, n \in LabelPercentages : f[m] = f[n] => m = n
    BY DEF LabelFilterConfig, CaseOf, CaseConfig, SizeTypeParameter, NoParameters
  <2>4. \A part \in LabelPercentages : f[part] = LabelFilterConfig(name, part)
    OBVIOUS
  <2> HIDE DEF f
  <2>5. /\ \A i \in DOMAIN item.configs : \E part \in LabelPercentages :
              item.configs[i] = f[part]
        /\ IsInjective(item.configs)
    BY <2>1, <2>2, <2>3, ComprehensionHas
  <2> QED
    BY <1>4, <2>1, <2>4, <2>5 DEF OfLabelFilter
<1>5. ASSUME NEW name \in DOMAIN Vibe \cup DOMAIN Multimodal, item = RegisteredItem(name)
      PROVE  /\ \A i \in DOMAIN item.configs : OfRegistered(item, item.configs[i])
             /\ IsInjective(item.configs) /\ item.inputs = FALSE
  <2> DEFINE config == CaseOf("Performance", [NoParameters EXCEPT !.dataset_name = name])
  <2>1. item = Item(<<config>>, AnyDb, FALSE)
    BY <1>5 DEF RegisteredItem
  <2>2. item.inputs = FALSE
    BY <2>1 DEF Item
  <2> QED
    BY <1>1, <1>5, <2>1, <2>2 DEF OfRegistered
<1>6. ASSUME NEW name \in DOMAIN FtsDatasetWithSize, item = get_fts_case_item(name)
      PROVE  /\ \A i \in DOMAIN item.configs : OfText(item, item.configs[i])
             /\ IsInjective(item.configs) /\ item.inputs = FALSE
  <2>1. item = Item(<<generate_fts_case(name)>>, FTS_SUPPORTED_DBS, FALSE)
    BY <1>6 DEF get_fts_case_item
  <2>2. item.inputs = FALSE
    BY <2>1 DEF Item
  <2> QED
    BY <1>1, <1>6, <2>1, <2>2 DEF OfText
<1>7. ASSUME item = CustomStreamingItem
      PROVE  /\ \A i \in DOMAIN item.configs : OfStreaming(item, item.configs[i]) /\ i = 1
             /\ IsInjective(item.configs)
  BY <1>1, <1>7 DEF CustomStreamingItem, OfStreaming
<1>8. ASSUME item \in get_custom_case_items(file)
      PROVE  /\ \A i \in DOMAIN item.configs : OfCustom(item, item.configs[i])
             /\ IsInjective(item.configs) /\ item.inputs = FALSE
  <2>1. PICK custom \in {DatasetConfig, LabelledConfig} :
           item = Item(<<CaseOf("PerformanceCustomDataset", custom)>>, AnyDb, FALSE)
    BY <1>8 DEF get_custom_case_items, LabelledConfig
  <2>2. item.inputs = FALSE
    BY <2>1 DEF Item
  <2> QED
    BY <1>1, <2>1, <2>2 DEF OfCustom
<1>9. ASSUME item \in get_custom_streaming_case_items
      PROVE  /\ \A i \in DOMAIN item.configs : OfCustomStreaming(item, item.configs[i]) /\ i = 1
             /\ IsInjective(item.configs)
  BY <1>1, <1>9 DEF get_custom_streaming_case_items, OfCustomStreaming
<1>10. /\ \A width : IntRatesOffered("LAIONLarge",
                                     {r \in LaionRates : Max(LaionWidths(r)) = width})
       /\ \A name \in {"CohereMedium", "CohereLarge", "OpenAIMedium", "OpenAILarge",
                        "BioasqMedium", "BioasqLarge"} : IntRatesOffered(name, IntRates)
  BY DEF IntRatesOffered, DatasetWithSize
<1>11. \/ \E type \in OfferedTypes : item = generate_normal_cases(type)
       \/ \E name, rates : /\ IntRatesOffered(name, rates)
                          /\ item = generate_int_filter_cases(name, rates)
       \/ \E name \in DOMAIN DatasetWithSize : item = generate_label_filter_cases(name)
       \/ \E name \in DOMAIN Vibe \cup DOMAIN Multimodal : item = RegisteredItem(name)
       \/ \E name \in DOMAIN FtsDatasetWithSize : item = get_fts_case_item(name)
       \/ item = CustomStreamingItem
       \/ item \in get_custom_case_items(file)
       \/ item \in get_custom_streaming_case_items
  <2>1. item \in generate_laion_large_topk_filter_items =>
           \E name, rates : /\ IntRatesOffered(name, rates)
                            /\ item = generate_int_filter_cases(name, rates)
    BY <1>10 DEF generate_laion_large_topk_filter_items
  <2>2. \A name \in {"CohereMedium", "CohereLarge", "OpenAIMedium", "OpenAILarge",
                     "BioasqMedium", "BioasqLarge"} :
           item = generate_int_filter_cases(name, IntRates) =>
              \E n, rates : IntRatesOffered(n, rates) /\ item = generate_int_filter_cases(n, rates)
    BY <1>10
  <2> QED
    BY <2>1, <2>2 DEF IsSelectable, UI_CASE_CLUSTERS, get_vibe_case_items,
       get_vdbbench_multimodal_case_items, get_fts_case_items
<1> QED
  BY <1>2, <1>3, <1>4, <1>5, <1>6, <1>7, <1>8, <1>9, <1>11 DEF Offers

-------------------------------------------------------------------------------
(* The configurations that are chosen.                                           *)

\* What an item offers has no profile yet, and the K of every case.
LEMMA OfferedPlain ==
    ASSUME NEW item, NEW config, Offers(item, config)
    PROVE  config.payload_profile = "" /\ config.k = K_DEFAULT
<1>1. \A type, custom : /\ CaseOf(type, custom).payload_profile = ""
                        /\ CaseOf(type, custom).k = K_DEFAULT
  BY DEF CaseOf, CaseConfig
<1>2. \E type, custom : config = CaseOf(type, custom)
  BY DEF Offers, OfNormal, OfIntFilter, OfLabelFilter, OfRegistered, OfText, OfStreaming,
         OfCustom, OfCustomStreaming, IntFilterConfig, LabelFilterConfig, generate_fts_case
<1> QED
  BY <1>1, <1>2

\* The parameters filled in.
FilledCustom(config, form) ==
    [config.custom_case EXCEPT
       !.insert_rate = form.insert_rate,
       !.dataset_with_size_type =
          IF config.case_id = "StreamingPerformanceCase" THEN form.size_type ELSE @]

\* Filling a configuration in changes its parameters and nothing else.
LEMMA FilledFields ==
    ASSUME NEW config \in CaseConfigs, NEW form
    PROVE  LET filled == FilledIn(config, form)
           IN  /\ filled.case_id = config.case_id /\ filled.k = config.k
               /\ filled.payload_profile = config.payload_profile
               /\ filled.custom_case = FilledCustom(config, form)
<1>1. config.custom_case \in Parameters
  BY DEF CaseConfigs
<1>2. FilledIn(config, form) = [config EXCEPT !.custom_case = FilledCustom(config, form)]
  BY <1>1 DEF FilledIn, FilledCustom, CaseConfigs, Parameters
<1> QED
  BY <1>2 DEF CaseConfigs

\* A configuration of an item, filled in where the item has inputs.
Filled(config, item, form) == IF item.inputs THEN FilledIn(config, form) ELSE config

\* A configuration with the profile chosen.
WithProfile(config, profile) == [config EXCEPT !.payload_profile = profile]

\* A configuration that choosing an item makes: with one of the profiles chosen, or none.
ChosenFrom(config, item, form) ==
    \E i \in DOMAIN item.configs, profile \in {""} \cup ToSet(form.profiles) :
        /\ config = WithProfile(Filled(item.configs[i], item, form), profile)
        /\ profile # "" => supports_payload_profiles(item)

\* The profile is in what is made with it, and all that is changed.
LEMMA ProfileIsKept ==
    ASSUME NEW c \in CaseConfigs, NEW profile
    PROVE  /\ WithProfile(c, profile).payload_profile = profile
           /\ c.payload_profile = "" => WithProfile(WithProfile(c, profile), "") = c
           /\ WithProfile(c, profile).case_id = c.case_id /\ WithProfile(c, profile).k = c.k
           /\ WithProfile(c, profile).custom_case = c.custom_case
BY DEF CaseConfigs, WithProfile

\* Choosing an item makes different configurations of what it offers.
LEMMA GetCasesChoose ==
    ASSUME NEW form \in Forms, NEW item \in Items, NEW file, NEW dbs,
           IsSelectable(item, file, dbs), NEW cases, cases = get_cases(item, form)
    PROVE  /\ \A j \in DOMAIN cases : ChosenFrom(cases[j], item, form)
           /\ IsInjective(cases)
<1> DEFINE configs == IF item.inputs
                        THEN [i \in DOMAIN item.configs |-> FilledIn(item.configs[i], form)]
                        ELSE item.configs
           each == [i \in DOMAIN configs |-> WithProfiles(configs[i], form.profiles)]
<1>1. /\ form.insert_rate \in Nat /\ form.size_type \in STRING
      /\ form.profiles \in Seq(Profiles) /\ IsInjective(form.profiles)
  BY FormsAssumption
<1>2. item.configs \in Seq(CaseConfigs)
  BY DEF Items
<1>3. /\ \A i \in DOMAIN item.configs : Offers(item, item.configs[i])
      /\ IsInjective(item.configs)
      /\ item.inputs => \A i \in DOMAIN item.configs : i = 1
  BY SelectableOffers
<1>4. /\ DOMAIN configs = DOMAIN item.configs
      /\ \A i \in DOMAIN configs : configs[i] = Filled(item.configs[i], item, form)
  BY DEF Filled
<1>5. ASSUME NEW i \in DOMAIN configs
      PROVE  configs[i] \in CaseConfigs /\ configs[i].payload_profile = ""
  <2>1. item.configs[i] \in CaseConfigs /\ item.configs[i].payload_profile = ""
    <3>1. i \in DOMAIN item.configs
      BY <1>4
    <3>2. Offers(item, item.configs[i])
      BY <1>3, <3>1
    <3>3. item.configs[i] \in CaseConfigs
      BY <1>2, <3>1
    <3> QED
      BY <3>2, <3>3, OfferedPlain
  <2>2. FilledIn(item.configs[i], form) \in CaseConfigs
    BY <1>1, <2>1, FilledInType
  <2>3. FilledIn(item.configs[i], form).payload_profile = ""
    BY <2>1, FilledFields
  <2> HIDE DEF configs
  <2> QED
    BY <1>4, <2>1, <2>2, <2>3 DEF Filled
<1>6. IsInjective(configs)
  <2>1. CASE item.inputs
    BY <1>3, <1>4, <2>1 DEF IsInjective
  <2>2. CASE ~item.inputs
    BY <1>3, <2>2
  <2> QED
    BY <2>1, <2>2
<1>7. DOMAIN configs = 1..Len(item.configs) /\ Len(item.configs) \in Nat
  BY <1>2, <1>4
<1> HIDE DEF configs
<1>8. ASSUME NEW i \in DOMAIN configs, NEW profile \in {""} \cup ToSet(form.profiles),
             profile # "" => supports_payload_profiles(item)
      PROVE  ChosenFrom(WithProfile(configs[i], profile), item, form)
  BY <1>4, <1>8 DEF ChosenFrom
<1>9. CASE ~supports_payload_profiles(item)
  <2>1. cases = configs
    BY <1>9 DEF get_cases, configs
  <2>2. \A i \in DOMAIN configs : configs[i] = WithProfile(configs[i], "")
    BY <1>5 DEF CaseConfigs, WithProfile
  <2>3. ASSUME NEW i \in DOMAIN configs PROVE ChosenFrom(configs[i], item, form)
    <3>1. ChosenFrom(WithProfile(configs[i], ""), item, form)
      BY <1>8
    <3> QED
      BY <2>2, <3>1
  <2> QED
    BY <1>6, <2>1, <2>3
<1>10. CASE supports_payload_profiles(item)
  <2>1. cases = FlattenSeq(each)
    BY <1>10 DEF get_cases, configs
  <2>2. /\ DOMAIN each = DOMAIN configs
        /\ \A i \in DOMAIN each : /\ each[i] \in Seq(CaseConfigs)
                                  /\ DOMAIN each[i] = DOMAIN form.profiles
    BY <1>1, <1>5, WithProfilesType DEF WithProfiles
  <2>3. \A i \in DOMAIN each : \A j \in DOMAIN each[i] :
           each[i][j] = WithProfile(configs[i], form.profiles[j])
    BY DEF WithProfiles, WithProfile
  <2> HIDE DEF each
  <2>4. each \in Seq(Seq(CaseConfigs))
    <3>1. \A i \in 1..Len(item.configs) : each[i] \in Seq(CaseConfigs)
      BY <1>7, <2>2
    <3>2. each = [i \in 1..Len(item.configs) |-> each[i]]
      BY <1>7, <2>2 DEF each
    <3> QED
      BY <1>7, <3>1, <3>2
  <2>5. ASSUME NEW a \in DOMAIN each, NEW b \in DOMAIN each,
               NEW j \in DOMAIN each[a], NEW k \in DOMAIN each[b], each[a][j] = each[b][k]
        PROVE  a = b /\ j = k
    <3>1. configs[a] = configs[b] /\ form.profiles[j] = form.profiles[k]
      <4>1. a \in DOMAIN configs /\ b \in DOMAIN configs
        BY <2>2
      <4>2. WithProfile(configs[a], form.profiles[j]) = WithProfile(configs[b], form.profiles[k])
        BY <2>3, <2>5
      <4>3. /\ configs[a] \in CaseConfigs /\ configs[a].payload_profile = ""
            /\ configs[b] \in CaseConfigs /\ configs[b].payload_profile = ""
        BY <1>5, <4>1
      <4>4. /\ WithProfile(configs[a], form.profiles[j]).payload_profile = form.profiles[j]
            /\ WithProfile(configs[b], form.profiles[k]).payload_profile = form.profiles[k]
            /\ WithProfile(WithProfile(configs[a], form.profiles[j]), "") = configs[a]
            /\ WithProfile(WithProfile(configs[b], form.profiles[k]), "") = configs[b]
        BY <4>3, ProfileIsKept
      <4> QED
        BY <4>2, <4>4
    <3> QED
      BY <1>1, <1>6, <2>2, <3>1 DEF IsInjective
  <2>6. IsInjective(cases)
    <3>1. \A a \in DOMAIN each : IsInjective(each[a])
      BY <2>5 DEF IsInjective
    <3> QED
      BY <2>1, <2>4, <2>5, <3>1, FlattenDistinct
  <2>7. ASSUME NEW n \in DOMAIN cases PROVE ChosenFrom(cases[n], item, form)
    <3>1. PICK i \in DOMAIN each : \E j \in DOMAIN each[i] : cases[n] = each[i][j]
      BY <2>1, <2>4, FlattenHas
    <3>2. PICK j \in DOMAIN each[i] : cases[n] = each[i][j]
      BY <3>1
    <3>3. form.profiles[j] \in ToSet(form.profiles)
      BY <2>2 DEF ToSet
    <3> QED
      <4>1. i \in DOMAIN configs
        BY <2>2
      <4>2. ChosenFrom(WithProfile(configs[i], form.profiles[j]), item, form)
        BY <1>8, <1>10, <3>3, <4>1
      <4> QED
        BY <2>3, <3>2, <4>2
  <2> QED
    BY <2>6, <2>7
<1> QED
  BY <1>9, <1>10

\* An item of a sequence is one of its set.
LEMMA ItemOfSeq ==
    ASSUME NEW S, NEW s \in Seq(S), NEW i \in DOMAIN s
    PROVE  s[i] \in S
OBVIOUS

\* What a chosen configuration has of the one that its item offers.
MadeOf(config, base, item, form) ==
    /\ Offers(item, base) /\ base \in CaseConfigs
    /\ config.case_id = base.case_id /\ config.k = K_DEFAULT
    /\ config.custom_case = IF item.inputs THEN FilledCustom(base, form) ELSE base.custom_case
    /\ config.payload_profile \in {""} \cup ToSet(form.profiles)
    /\ config.payload_profile # "" => config.case_id \in PerformanceTypes

\* A configuration chosen is one that its item offers, filled in and with a profile.
LEMMA ChosenIsMade ==
    ASSUME NEW form \in Forms, NEW item \in Items, NEW file, NEW dbs,
           IsSelectable(item, file, dbs), NEW config, ChosenFrom(config, item, form)
    PROVE  \E base : MadeOf(config, base, item, form)
<1>1. PICK i \in DOMAIN item.configs, profile \in {""} \cup ToSet(form.profiles) :
        /\ config = WithProfile(Filled(item.configs[i], item, form), profile)
        /\ profile # "" => supports_payload_profiles(item)
  BY DEF ChosenFrom
<1> DEFINE base == item.configs[i]
           filled == Filled(base, item, form)
<1>2. Offers(item, base) /\ base \in CaseConfigs
  <2>1. Offers(item, base)
    BY SelectableOffers
  <2>2. item.configs \in Seq(CaseConfigs)
    BY DEF Items
  <2>3. item.configs[i] \in CaseConfigs
    BY <2>2, ItemOfSeq
  <2> HIDE DEF base
  <2> QED
    BY <2>1, <2>3 DEF base
<1>3. base.payload_profile = "" /\ base.k = K_DEFAULT
  BY <1>2, OfferedPlain
<1>4. profile # "" => base.case_id \in PerformanceTypes
  BY <1>1 DEF supports_payload_profiles
<1> HIDE DEF base
<1>5. /\ filled \in CaseConfigs
      /\ filled.case_id = base.case_id /\ filled.k = base.k
      /\ filled.custom_case = IF item.inputs THEN FilledCustom(base, form) ELSE base.custom_case
  <2>1. form.insert_rate \in Nat /\ form.size_type \in STRING
    BY FormsAssumption
  <2>2. CASE item.inputs
    <3>1. filled = FilledIn(base, form)
      BY <2>2 DEF Filled
    <3> HIDE DEF filled
    <3> QED
      BY <1>2, <2>1, <2>2, <3>1, FilledInType, FilledFields
  <2>3. CASE ~item.inputs
    <3>1. filled = base
      BY <2>3 DEF Filled
    <3> HIDE DEF filled
    <3> QED
      BY <1>2, <2>3, <3>1
  <2> QED
    BY <2>2, <2>3
<1>6. config = WithProfile(filled, profile)
  BY <1>1 DEF base
<1> HIDE DEF filled
<1>7. /\ config.payload_profile = profile /\ config.case_id = filled.case_id
      /\ config.k = filled.k /\ config.custom_case = filled.custom_case
  BY <1>5, <1>6, ProfileIsKept
<1> QED
  BY <1>2, <1>3, <1>4, <1>5, <1>7 DEF MadeOf

\* The item that a configuration is chosen from, by its type and its parameters.
ItemOf(config) ==
    LET type == config.case_id
        custom == config.custom_case
        name == custom.dataset_with_size_type
        alike == {r \in LaionRates : Max(LaionWidths(r)) = Max(LaionWidths(custom.filter_rate))}
    IN  IF type = "NewIntFilterPerformanceCase" THEN
             IF name = "LAIONLarge" THEN generate_int_filter_cases(name, alike)
                                    ELSE generate_int_filter_cases(name, IntRates)
        ELSE IF type = "LabelFilterPerformanceCase" THEN generate_label_filter_cases(name)
        ELSE IF type = "Performance" THEN RegisteredItem(custom.dataset_name)
        ELSE IF type = "FTSBm25Performance" THEN get_fts_case_item(name)
        ELSE IF type = "StreamingPerformanceCase" THEN CustomStreamingItem
        ELSE IF type = "StreamingCustomDataset" THEN
             Item(<<CaseOf("StreamingCustomDataset", DatasetConfig)>>, AnyDb, TRUE)
        ELSE IF type = "PerformanceCustomDataset" THEN
             Item(<<CaseOf("PerformanceCustomDataset",
                           IF custom.use_filter THEN LabelledConfig ELSE DatasetConfig)>>,
                  AnyDb, FALSE)
        ELSE generate_normal_cases(type)

\* No configuration is chosen from two items.
LEMMA ChosenFromOne ==
    ASSUME NEW form, NEW item, NEW base, NEW config, MadeOf(config, base, item, form)
    PROVE  ItemOf(config) = item
<1>1. /\ Offers(item, base) /\ config.case_id = base.case_id
      /\ config.custom_case = IF item.inputs THEN FilledCustom(base, form) ELSE base.custom_case
  BY DEF MadeOf
<1>2. \A type, custom : CaseOf(type, custom).case_id = type
                      /\ CaseOf(type, custom).custom_case = custom
  BY DEF CaseOf, CaseConfig
<1>3. \A configs, takes, inputs : Item(configs, takes, inputs).inputs = inputs
  BY DEF Item
<1>4. \A name : SizeTypeParameter(name).dataset_with_size_type = name
  BY DEF SizeTypeParameter, NoParameters
<1>5. CASE OfNormal(item, base)
  <2>1. PICK type \in OfferedTypes : /\ base = CaseOf(type, NoParameters)
                                    /\ item = generate_normal_cases(type)
    BY <1>5 DEF OfNormal
  <2>2. config.case_id = type
    BY <1>1, <1>2, <2>1
  <2>3. type \notin ParameterCases
    BY TypesDiffer DEF OfferedTypes
  <2> QED
    BY <2>1, <2>2, <2>3 DEF ItemOf, ParameterCases
<1>6. CASE OfIntFilter(item, base)
  <2>1. PICK name, rates :
           /\ IntRatesOffered(name, rates) /\ item = generate_int_filter_cases(name, rates)
           /\ \E rate \in rates : base = IntFilterConfig(name, rate)
    BY <1>6 DEF OfIntFilter
  <2>2. PICK rate \in rates : base = IntFilterConfig(name, rate)
    BY <2>1
  <2>3. item.inputs = FALSE
    BY <1>3, <2>1 DEF generate_int_filter_cases
  <2>4. /\ config.case_id = "NewIntFilterPerformanceCase"
        /\ config.custom_case = [SizeTypeParameter(name) EXCEPT !.filter_rate = rate]
    BY <1>1, <1>2, <2>2, <2>3 DEF IntFilterConfig
  <2>5. /\ config.custom_case.dataset_with_size_type = name
        /\ config.custom_case.filter_rate = rate
    BY <2>4 DEF SizeTypeParameter, NoParameters
  <2>6. CASE name = "LAIONLarge"
    <3>1. rates = {r \in LaionRates : Max(LaionWidths(r)) = Max(LaionWidths(rate))}
      <4>1. PICK width : rates = {r \in LaionRates : Max(LaionWidths(r)) = width}
        BY <2>1, <2>6 DEF IntRatesOffered
      <4>2. Max(LaionWidths(rate)) = width
        BY <2>2, <4>1
      <4> QED
        BY <4>1, <4>2
    <3> QED
      BY <2>1, <2>4, <2>5, <2>6, <3>1 DEF ItemOf
  <2>7. CASE name # "LAIONLarge"
    <3>1. rates = IntRates
      BY <2>1, <2>7 DEF IntRatesOffered
    <3> QED
      BY <2>1, <2>4, <2>5, <2>7, <3>1 DEF ItemOf
  <2> QED
    BY <2>6, <2>7
<1>7. CASE OfLabelFilter(item, base)
  <2>1. PICK name \in DOMAIN DatasetWithSize, part \in LabelPercentages :
           base = LabelFilterConfig(name, part) /\ item = generate_label_filter_cases(name)
    BY <1>7 DEF OfLabelFilter
  <2>2. item.inputs = FALSE
    BY <1>3, <2>1 DEF generate_label_filter_cases
  <2>3. /\ config.case_id = "LabelFilterPerformanceCase"
        /\ config.custom_case = [SizeTypeParameter(name) EXCEPT !.label_percentage = part]
    BY <1>1, <1>2, <2>1, <2>2 DEF LabelFilterConfig
  <2>4. config.custom_case.dataset_with_size_type = name
    BY <2>3 DEF SizeTypeParameter, NoParameters
  <2> QED
    BY <2>1, <2>3, <2>4 DEF ItemOf
<1>8. CASE OfRegistered(item, base)
  <2>1. PICK name \in DOMAIN Vibe \cup DOMAIN Multimodal :
           /\ base = CaseOf("Performance", [NoParameters EXCEPT !.dataset_name = name])
           /\ item = RegisteredItem(name)
    BY <1>8 DEF OfRegistered
  <2>2. item.inputs = FALSE
    BY <1>3, <2>1 DEF RegisteredItem
  <2>3. /\ config.case_id = "Performance"
        /\ config.custom_case = [NoParameters EXCEPT !.dataset_name = name]
    BY <1>1, <1>2, <2>1, <2>2
  <2>4. config.custom_case.dataset_name = name
    BY <2>3 DEF NoParameters
  <2> QED
    BY <2>1, <2>3, <2>4 DEF ItemOf
<1>9. CASE OfText(item, base)
  <2>1. PICK name \in DOMAIN FtsDatasetWithSize :
           base = generate_fts_case(name) /\ item = get_fts_case_item(name)
    BY <1>9 DEF OfText
  <2>2. item.inputs = FALSE
    BY <1>3, <2>1 DEF get_fts_case_item
  <2>3. /\ config.case_id = "FTSBm25Performance"
        /\ config.custom_case = SizeTypeParameter(name)
    BY <1>1, <1>2, <2>1, <2>2 DEF generate_fts_case
  <2>4. config.custom_case.dataset_with_size_type = name
    BY <1>4, <2>3
  <2> QED
    BY <2>1, <2>3, <2>4 DEF ItemOf
<1>10. CASE OfStreaming(item, base)
  <2>1. config.case_id = "StreamingPerformanceCase" /\ item = CustomStreamingItem
    BY <1>1, <1>2, <1>10 DEF OfStreaming
  <2> QED
    BY <2>1 DEF ItemOf
<1>11. CASE OfCustom(item, base)
  <2>1. PICK custom \in {DatasetConfig, LabelledConfig} :
           /\ base = CaseOf("PerformanceCustomDataset", custom)
           /\ item = Item(<<base>>, AnyDb, FALSE)
    BY <1>11 DEF OfCustom
  <2>2. /\ config.case_id = "PerformanceCustomDataset"
        /\ config.custom_case = custom
    BY <1>1, <1>2, <1>3, <2>1
  <2>3. custom = IF custom.use_filter THEN LabelledConfig ELSE DatasetConfig
    <3>1. DatasetConfig.use_filter = FALSE /\ LabelledConfig.use_filter = TRUE
      BY DEF DatasetConfig, LabelledConfig, NoParameters
    <3> QED
      BY <3>1
  <2> QED
    BY <2>1, <2>2, <2>3 DEF ItemOf
<1>12. CASE OfCustomStreaming(item, base)
  <2>1. /\ config.case_id = "StreamingCustomDataset"
        /\ item = Item(<<CaseOf("StreamingCustomDataset", DatasetConfig)>>, AnyDb, TRUE)
    BY <1>1, <1>2, <1>12 DEF OfCustomStreaming
  <2> QED
    BY <2>1 DEF ItemOf
<1> QED
  BY <1>1, <1>5, <1>6, <1>7, <1>8, <1>9, <1>10, <1>11, <1>12 DEF Offers

\* What is chosen on a form: from which items, and no configuration twice.
LEMMA SelectedCasesDiffer ==
    ASSUME NEW form \in Forms, NEW file,
           \A item \in ToSet(form.items) : IsSelectable(item, file, form.dbs)
    PROVE  LET chosen == SelectedCases(form)
           IN  /\ chosen \in Seq(CaseConfigs) /\ IsInjective(chosen)
               /\ \A i \in DOMAIN chosen : \E item \in ToSet(form.items) : \E base :
                     MadeOf(chosen[i], base, item, form)
<1> DEFINE each == [i \in DOMAIN form.items |-> get_cases(form.items[i], form)]
           chosen == SelectedCases(form)
<1>1. /\ form.items \in Seq(Items) /\ IsInjective(form.items)
      /\ form.insert_rate \in Nat /\ form.size_type \in STRING
      /\ form.profiles \in Seq(Profiles)
  BY FormsAssumption
<1>2. chosen \in Seq(CaseConfigs)
  BY <1>1, SelectedCasesType
<1>3. /\ DOMAIN form.items = 1..Len(form.items) /\ Len(form.items) \in Nat
      /\ \A i \in DOMAIN form.items : form.items[i] \in Items /\ form.items[i] \in ToSet(form.items)
  BY <1>1 DEF ToSet
<1>4. each \in Seq(Seq(CaseConfigs)) /\ chosen = FlattenSeq(each)
  <2>1. \A i \in 1..Len(form.items) : get_cases(form.items[i], form) \in Seq(CaseConfigs)
    BY <1>1, <1>3, GetCasesType
  <2> QED
    BY <1>3, <2>1 DEF SelectedCases
<1>5. /\ DOMAIN each = DOMAIN form.items
      /\ \A i \in DOMAIN each : each[i] = get_cases(form.items[i], form)
  OBVIOUS
<1> HIDE DEF each, chosen
<1>6. ASSUME NEW i \in DOMAIN each
      PROVE  /\ IsInjective(each[i])
             /\ \A j \in DOMAIN each[i] : \E base : MadeOf(each[i][j], base, form.items[i], form)
  <2>1. form.items[i] \in Items /\ IsSelectable(form.items[i], file, form.dbs)
    BY <1>3, <1>5
  <2>2. /\ IsInjective(each[i])
        /\ \A j \in DOMAIN each[i] : ChosenFrom(each[i][j], form.items[i], form)
    BY <1>5, <2>1, GetCasesChoose
  <2> QED
    BY <2>1, <2>2, ChosenIsMade
<1>7. ASSUME NEW a \in DOMAIN each, NEW b \in DOMAIN each,
             NEW j \in DOMAIN each[a], NEW k \in DOMAIN each[b], each[a][j] = each[b][k]
      PROVE  a = b
  <2>1. form.items[a] = ItemOf(each[a][j]) /\ form.items[b] = ItemOf(each[b][k])
    BY <1>6, ChosenFromOne
  <2> QED
    BY <1>1, <1>5, <1>7, <2>1 DEF IsInjective
<1>8. IsInjective(chosen)
  BY <1>4, <1>6, <1>7, FlattenDistinct
<1>9. ASSUME NEW n \in DOMAIN chosen
      PROVE  \E item \in ToSet(form.items) : \E base : MadeOf(chosen[n], base, item, form)
  <2>1. PICK i \in DOMAIN each : \E j \in DOMAIN each[i] : chosen[n] = each[i][j]
    BY <1>4, FlattenHas
  <2> QED
    BY <1>3, <1>5, <1>6, <2>1
<1> QED
  BY <1>2, <1>8, <1>9 DEF chosen

-------------------------------------------------------------------------------
(* What the page offers is accepted.                                             *)

\* The greatest of a set of numbers, when there is one.
LEMMA MaxIs ==
    ASSUME NEW numbers \in SUBSET Int, NEW most \in numbers, \A n \in numbers : n <= most
    PROVE  Max(numbers) = most
<1>1. \E x \in numbers : \A y \in numbers : x >= y
  OBVIOUS
<1>2. Max(numbers) \in numbers /\ \A y \in numbers : Max(numbers) >= y
  BY <1>1 DEF Max
<1>3. Max(numbers) \in Int /\ most \in Int /\ Max(numbers) <= most /\ most <= Max(numbers)
  BY <1>2
<1> QED
  BY <1>3

\* The widest file of a rate is one of its files, and no wider than the widest of all.
LEMMA WidestFiles ==
    /\ Max(LaionTiers) = WidestTier /\ WidestTier \in LaionTiers /\ WidestTier \in Nat
    /\ FirstTier \in LaionTiers
    /\ \A rate \in LaionRates :
          /\ Max(LaionWidths(rate)) \in LaionWidths(rate)
          /\ Max(LaionWidths(rate)) <= WidestTier
<1>1. WidestTier \in LaionTiers /\ WidestTier \in Nat
  BY SMT DEF LaionTiers, WidestTier
<1>2. LaionTiers \in SUBSET Nat /\ \A width \in LaionTiers : width <= WidestTier
  BY LaionWidthsAre
<1>3. Max(LaionTiers) = WidestTier
  BY <1>1, <1>2, MaxIs
<1>4. FirstTier \in LaionTiers
  BY <1>1, <1>2, MinIsOne DEF FirstTier
<1>5. ASSUME NEW rate \in LaionRates
      PROVE  \E most \in LaionWidths(rate) : /\ most <= WidestTier
                                            /\ \A w \in LaionWidths(rate) : w <= most
  <2>1. CASE rate = 995
    <3>1. LaionWidths(rate) = {100000, 500000}
      BY <2>1 DEF LaionWidths
    <3> QED
      BY SMT, <3>1 DEF WidestTier
  <2>2. CASE rate = 998
    <3>1. LaionWidths(rate) = {100000, 200000}
      BY <2>2 DEF LaionWidths
    <3> QED
      BY SMT, <3>1 DEF WidestTier
  <2>3. CASE rate = 999
    <3>1. LaionWidths(rate) = {100000}
      BY <2>3 DEF LaionWidths
    <3> QED
      BY SMT, <3>1 DEF WidestTier
  <2>4. CASE rate \notin {995, 998, 999}
    <3>1. LaionWidths(rate) = {100000, WidestTier}
      BY SMT, <2>4 DEF LaionWidths, WidestTier
    <3>2. 100000 <= WidestTier /\ WidestTier <= WidestTier
      BY SMT DEF WidestTier
    <3> QED
      BY <3>1, <3>2
  <2> QED
    BY <2>1, <2>2, <2>3, <2>4
<1>6. ASSUME NEW rate \in LaionRates
      PROVE  /\ Max(LaionWidths(rate)) \in LaionWidths(rate)
             /\ Max(LaionWidths(rate)) <= WidestTier
  <2>1. LaionWidths(rate) \in SUBSET Nat
    BY LaionWidthsAre
  <2>2. PICK most \in LaionWidths(rate) : /\ most <= WidestTier
                                         /\ \A w \in LaionWidths(rate) : w <= most
    BY <1>5
  <2>3. Max(LaionWidths(rate)) = most
    BY <2>1, <2>2, MaxIs
  <2> QED
    BY <2>2, <2>3
<1> QED
  BY <1>1, <1>3, <1>4, <1>6

\* A filter that has files for the dataset, and labels where it asks for them.
FilterFits(data, filter) ==
    /\ groundtruth_file(filter) # {}
    /\ data \in RegisteredParquet \cup Hdf5Data => Unfiltered(filter)
    /\ data.class = "LAION" /\ filter.kind = "NewIntFilter" => filter.rate \in LaionRates
    /\ filter.type = "StrEqual" => with_scalar_labels(data)

\* Every K up to the limit has its files.
FilesFound(data, filter) ==
    LET limit == max_search_k(data, filter)
    IN  \A k \in Nat \ {0} :
            limit = Unbounded \/ k <= limit.bound => resolve_search_files(data, k, filter) # {}

\* The limit of a filter that fits is one up to which its files are found.
LEMMA LimitHasFiles ==
    ASSUME NEW data, NEW filter, FilterFits(data, filter)
    PROVE  FilesFound(data, filter)
<1> DEFINE limit == max_search_k(data, filter)
<1> SUFFICES ASSUME NEW k \in Nat \ {0}, limit = Unbounded \/ k <= limit.bound
             PROVE  resolve_search_files(data, k, filter) # {}
  BY DEF FilesFound
<1>1. k > 0 /\ ~ k <= 0 /\ k \in Int
  OBVIOUS
<1>2. \A width : FilesOf(filter, width) # {}
  BY DEF FilterFits, FilesOf
<1>3. \A b \in Nat : Bound(b).bound = b /\ Bound(b) # Unbounded
  BY DEF Bound, Unbounded, None
<1>4. CASE data \in RegisteredParquet \cup Hdf5Data
  <2>1. limit = Bound(GroundTruthWidth) /\ GroundTruthWidth \in Nat
    BY <1>4 DEF max_search_k, GroundTruthWidth
  <2>2. k <= GroundTruthWidth /\ Unfiltered(filter)
    BY <1>3, <1>4, <2>1 DEF FilterFits
  <2> QED
    BY <1>1, <1>4, <2>2 DEF resolve_search_files
<1>5. CASE data \notin RegisteredParquet \cup Hdf5Data /\ data.class # "LAION"
  <2>1. resolve_search_files(data, k, filter) = FilesOf(filter, None)
    BY <1>1, <1>5 DEF resolve_search_files
  <2> QED
    BY <1>2, <2>1
<1>6. CASE data \notin RegisteredParquet \cup Hdf5Data /\ data.class = "LAION"
  <2>1. resolve_search_files(data, k, filter) = LaionFiles(k, filter)
    BY <1>1, <1>6 DEF resolve_search_files
  <2>2. ASSUME NEW widths, NEW width \in widths, k <= width
        PROVE  Narrowest(k, widths, filter) # {}
    BY <1>2, <2>2 DEF Narrowest
  <2>3. WidestTier \in Nat /\ WidestTier \in LaionTiers /\ Max(LaionTiers) = WidestTier
    BY WidestFiles
  <2>4. CASE filter.kind = "NewIntFilter"
    <3> DEFINE most == Max(LaionWidths(filter.rate))
    <3>1. filter.rate \in LaionRates
      BY <1>6, <2>4 DEF FilterFits
    <3>2. most \in LaionWidths(filter.rate) /\ most <= WidestTier /\ most \in Nat
      BY <3>1, WidestFiles, LaionWidthsAre
    <3>3. limit = Bound(most)
      BY <1>6, <2>4, <3>1 DEF max_search_k
    <3> HIDE DEF most
    <3>4. k <= most
      BY <1>3, <3>2, <3>3
    <3>5. ~ k > Max(LaionTiers)
      BY <1>1, <2>3, <3>2, <3>4
    <3>6. Narrowest(k, LaionWidths(filter.rate), filter) # {}
      BY <2>2, <3>2, <3>4
    <3> QED
      BY <1>2, <2>1, <2>4, <3>1, <3>5, <3>6 DEF LaionFiles
  <2>5. CASE filter.kind # "NewIntFilter" /\ Unfiltered(filter)
    <3>1. limit = Bound(WidestTier)
      BY <1>6, <2>3, <2>5 DEF max_search_k
    <3>2. k <= WidestTier
      BY <1>3, <2>3, <3>1
    <3>3. ~ k > Max(LaionTiers)
      BY <1>1, <2>3, <3>2
    <3>4. Narrowest(k, LaionTiers, filter) # {}
      BY <2>2, <2>3, <3>2
    <3> QED
      BY <2>1, <2>5, <3>3, <3>4 DEF LaionFiles
  <2>6. CASE filter.kind # "NewIntFilter" /\ ~Unfiltered(filter)
    <3>1. FirstTier \in Nat /\ FirstTier <= WidestTier
      BY WidestFiles, LaionWidthsAre
    <3>2. limit = Bound(FirstTier)
      BY <1>6, <2>6 DEF max_search_k
    <3>3. k <= FirstTier
      BY <1>3, <3>1, <3>2
    <3>4. ~ k > Max(LaionTiers)
      BY <1>1, <2>3, <3>1, <3>3
    <3> QED
      BY <1>2, <2>1, <2>6, <3>3, <3>4 DEF LaionFiles
  <2> QED
    BY <2>4, <2>5, <2>6
<1> QED
  BY <1>4, <1>5, <1>6

-------------------------------------------------------------------------------
(* What was chosen on the page is what runs.                                     *)

\* A configuration with the K that was entered.
WithK(config, k) == [config EXCEPT !.k = k]

\* The tasks of a form.
TasksOfForm(form) == generate_tasks(form.dbs, SelectedCases(form), form.batch_size)

\* What is filled in, pending or run of a page is what is made of a form that it offered.
FormInv ==
    /\ outcome # "idle" => request.by \in {"page", "command", "service"}
    /\ outcome = "filled" => request.by = "page"
    /\ request.by = "page" /\ outcome \in {"filled", "pending", "assembled"} =>
          /\ request.form \in Forms /\ IsOffered(request.form) /\ CanBeRead(custom_file)
          /\ CanBeMade(SelectedCases(request.form)) /\ AllValid(TasksOfForm(request.form))
          /\ outcome = "filled" => submitted = TasksOfForm(request.form)
          /\ outcome # "filled" =>
                /\ request.k \in Ks /\ MayEnter(request.k, TasksOfForm(request.form))
                /\ submitted = apply_run_settings(TasksOfForm(request.form), request.k)

\* No step leaves FormInv: a form is written once, when it is filled in, and its tasks
\* are then only given the K.
LEMMA FormInvStep ==
    ASSUME FormInv, [SubmitNext]_submitVars
    PROVE  FormInv'
<1>1. ASSUME NEW entered \in BOOLEAN, outcome = "idle", SaveCustomDataset(entered)
      PROVE  FormInv'
  BY <1>1 DEF SaveCustomDataset, FormInv
<1>2. ASSUME PageCannotOpen PROVE FormInv'
  BY <1>2 DEF PageCannotOpen, Ask, End, FormInv
<1>3. ASSUME NEW form \in Forms, FillForm(form) PROVE FormInv'
  <2> DEFINE configs == SelectedCases(form)
             tasks == TasksOfForm(form)
  <2>1. /\ CanBeRead(custom_file) /\ IsOffered(form) /\ custom_file' = custom_file
        /\ request'.form = form /\ request'.by = "page"
    BY <1>3 DEF FillForm, Ask
  <2>2. \/ outcome' = "filled" /\ CanBeMade(configs) /\ AllValid(tasks) /\ submitted' = tasks
        \/ outcome' \in {"page_raises", "button_disabled"}
    BY <1>3 DEF FillForm, End, TasksOfForm
  <2>3. IsOffered(form)' /\ (CanBeMade(configs)' <=> CanBeMade(configs))
    BY <2>1 DEF IsOffered
  <2> HIDE DEF configs, tasks
  <2> QED
    BY <2>1, <2>2, <2>3 DEF FormInv, configs, tasks
<1>4. ASSUME NEW command \in Commands, GiveCommand(command) PROVE FormInv'
  <2>1. request'.by = "command" /\ outcome' # "filled"
    BY <1>4 DEF GiveCommand, Ask, End
  <2> QED
    BY <2>1 DEF FormInv
<1>5. ASSUME NEW tasks \in Posts, PostTasks(tasks) PROVE FormInv'
  <2>1. request'.by = "service" /\ outcome' # "filled"
    BY <1>5 DEF PostTasks, Ask, End
  <2> QED
    BY <2>1 DEF FormInv
<1>6. ASSUME NEW k \in Ks, PressRun(k) PROVE FormInv'
  <2>1. /\ outcome = "filled" /\ MayEnter(k, submitted) /\ custom_file' = custom_file
        /\ request'.form = request.form /\ request'.k = k /\ request'.by = "page"
        /\ \/ submitted' = apply_run_settings(submitted, k) /\ outcome' = "pending"
           \/ outcome' = "settings_refused"
    BY <1>6 DEF PressRun, End
  <2> QED
    BY <1>6, <2>1 DEF FormInv, IsOffered
<1>7. ASSUME Assemble \/ RefuseCase \/ RefuseFilter PROVE FormInv'
  <2>1. /\ outcome = "pending" /\ outcome' # "filled"
        /\ request' = request /\ submitted' = submitted /\ custom_file' = custom_file
    BY <1>7 DEF Assemble, RefuseCase, RefuseFilter, Conclude
  <2> QED
    BY <2>1 DEF FormInv, IsOffered
<1>8. ASSUME UNCHANGED submitVars PROVE FormInv'
  BY <1>8 DEF submitVars, FormInv, IsOffered
<1> QED
  BY <1>1, <1>2, <1>3, <1>4, <1>5, <1>6, <1>7, <1>8 DEF SubmitNext, Request

\* The places of a database and of a configuration.
Pairs(dbs, configs) == (1..Len(dbs)) \X (1..Len(configs))

\* p tells of which database and configuration each task is: each pair has one task.
PairsUp(p, tasks, dbs, configs, batch_size) ==
    /\ p \in [1..Len(tasks) -> Pairs(dbs, configs)]
    /\ \A q \in Pairs(dbs, configs) : \E n \in 1..Len(tasks) : p[n] = q
    /\ \A m, n \in 1..Len(tasks) : m # n => p[m] # p[n]
    /\ \A n \in 1..Len(tasks) :
          tasks[n] = Submitted(dbs[p[n][1]], configs[p[n][2]], ALL_TASK_STAGES, batch_size)

\* generate_tasks makes one task for each database and each configuration.
LEMMA TasksArePairs ==
    ASSUME NEW dbs \in Seq(Databases), NEW configs \in Seq(CaseConfigs), NEW batch_size \in Nat,
           NEW tasks, tasks = generate_tasks(dbs, configs, batch_size)
    PROVE  \E p : PairsUp(p, tasks, dbs, configs, batch_size)
<1> DEFINE each == [i \in DOMAIN dbs |->
                       [j \in DOMAIN configs |->
                           Submitted(dbs[i], configs[j], ALL_TASK_STAGES, batch_size)]]
<1>1. \A i \in 1..Len(dbs), j \in 1..Len(configs) :
         Submitted(dbs[i], configs[j], ALL_TASK_STAGES, batch_size) \in TaskConfigs
  BY DEF Submitted, TaskConfigs, ALL_TASK_STAGES, Stages
<1>2. /\ DOMAIN dbs = 1..Len(dbs) /\ Len(dbs) \in Nat
      /\ DOMAIN configs = 1..Len(configs) /\ Len(configs) \in Nat
  OBVIOUS
<1>3. each \in Seq(Seq(TaskConfigs))
  <2>1. \A i \in 1..Len(dbs) :
           [j \in 1..Len(configs) |->
              Submitted(dbs[i], configs[j], ALL_TASK_STAGES, batch_size)] \in Seq(TaskConfigs)
    BY <1>1, <1>2
  <2> QED
    BY <1>2, <2>1
<1>4. tasks = FlattenSeq(each)
  BY DEF generate_tasks
<1>5. PlacesIn(each) = Pairs(dbs, configs)
  BY <1>2 DEF PlacesIn, Pairs
<1>6. \A q \in Pairs(dbs, configs) :
         each[q[1]][q[2]] = Submitted(dbs[q[1]], configs[q[2]], ALL_TASK_STAGES, batch_size)
  BY <1>2 DEF Pairs
<1> HIDE DEF each
<1>7. PICK p : Flattens(p, tasks, each)
  BY <1>3, <1>4, FlattenPlaces
<1>8. /\ p \in [1..Len(tasks) -> PlacesIn(each)]
      /\ \A q \in PlacesIn(each) : \E n \in 1..Len(tasks) : p[n] = q
      /\ \A m, n \in 1..Len(tasks) : m # n => p[m] # p[n]
      /\ \A n \in 1..Len(tasks) : tasks[n] = each[p[n][1]][p[n][2]]
  BY <1>7 DEF Flattens
<1>9. \A n \in 1..Len(tasks) :
         tasks[n] = Submitted(dbs[p[n][1]], configs[p[n][2]], ALL_TASK_STAGES, batch_size)
  BY <1>5, <1>6, <1>8
<1>10. PairsUp(p, tasks, dbs, configs, batch_size)
  BY <1>5, <1>8, <1>9 DEF PairsUp
<1> QED
  BY <1>10

\* Which runs are of which database and configuration of a form: each pair has one.
LEMMA RunsArePairs ==
    ASSUME SubmitInv, outcome = "assembled",
           NEW dbs \in Seq(Databases), NEW configs \in Seq(CaseConfigs), NEW batch_size \in Nat,
           NEW k \in Ks,
           submitted = apply_run_settings(generate_tasks(dbs, configs, batch_size), k)
    PROVE  \E q \in [1..Len(case_runners) -> Pairs(dbs, configs)] :
              /\ \A pair \in Pairs(dbs, configs) : \E n \in 1..Len(case_runners) : q[n] = pair
              /\ \A m, n \in 1..Len(case_runners) : m # n => q[m] # q[n]
              /\ \A n \in 1..Len(case_runners) :
                    /\ case_runners[n].db = dbs[q[n][1]]
                    /\ case_runners[n].config = WithK(configs[q[n][2]], k)
<1> DEFINE tasks == generate_tasks(dbs, configs, batch_size)
           pairs == Pairs(dbs, configs)
<1>1. tasks \in Seq(TaskConfigs)
  BY TasksType
<1> HIDE DEF tasks
<1>0. PICK p : PairsUp(p, tasks, dbs, configs, batch_size)
  BY TasksArePairs DEF tasks
<1>2. /\ p \in [1..Len(tasks) -> pairs]
      /\ \A pair \in pairs : \E n \in 1..Len(tasks) : p[n] = pair
      /\ \A m, n \in 1..Len(tasks) : m # n => p[m] # p[n]
      /\ \A n \in 1..Len(tasks) :
            tasks[n] = Submitted(dbs[p[n][1]], configs[p[n][2]], ALL_TASK_STAGES, batch_size)
  BY <1>0 DEF PairsUp
<1> HIDE DEF pairs
<1>3. /\ DOMAIN submitted = 1..Len(tasks)
      /\ \A n \in 1..Len(tasks) : submitted[n] = [tasks[n] EXCEPT !.config.k = k]
  <2>1. submitted = [n \in DOMAIN tasks |-> [tasks[n] EXCEPT !.config.k = k]]
    BY DEF apply_run_settings, tasks
  <2>2. DOMAIN tasks = 1..Len(tasks)
    BY <1>1
  <2> QED
    BY <2>1, <2>2
<1>4. ASSUME NEW n \in 1..Len(tasks)
      PROVE  /\ submitted[n].db = dbs[p[n][1]]
             /\ submitted[n].config = WithK(configs[p[n][2]], k)
  <2>1. /\ tasks[n].db = dbs[p[n][1]] /\ tasks[n].config = configs[p[n][2]]
        /\ tasks[n] = Submitted(dbs[p[n][1]], configs[p[n][2]], ALL_TASK_STAGES, batch_size)
    BY <1>2 DEF Submitted
  <2>2. submitted[n] = [tasks[n] EXCEPT !.config.k = k]
    BY <1>3
  <2> DEFINE db == dbs[p[n][1]]
             config == configs[p[n][2]]
  <2> HIDE DEF db, config
  <2>3. submitted[n] = [Submitted(db, config, ALL_TASK_STAGES, batch_size) EXCEPT !.config.k = k]
    BY <2>1, <2>2 DEF db, config
  <2>4. submitted[n].db = db /\ submitted[n].config = WithK(config, k)
    BY ONLY <2>3 DEF Submitted, WithK
  <2> QED
    BY <2>4 DEF db, config
<1>5. CasesExist /\ case_runners = AssembleAll(Tasks) /\ submitted \in Seq(TaskConfigs)
  BY DEF SubmitInv
<1>6. Tasks \in Seq(TheTasks) /\ Orderable(TheTasks)
  BY <1>5, TasksAreOrderable
<1>7. Lists(case_runners, Tasks, DOMAIN Tasks, RunOrder(Tasks))
  BY <1>5, <1>6, AssemblyIsAnOrder
<1>8. /\ DOMAIN Tasks = 1..Len(tasks)
      /\ \A n \in 1..Len(tasks) : /\ Tasks[n].db = submitted[n].db
                                  /\ Tasks[n].config = submitted[n].config
  BY <1>3 DEF Tasks, TaskOf
<1>9. PICK r \in [1..Len(case_runners) -> DOMAIN Tasks] :
        /\ \A i \in DOMAIN Tasks : \E j \in 1..Len(case_runners) : r[j] = i
        /\ \A j \in 1..Len(case_runners) : case_runners[j] = Tasks[r[j]]
        /\ \A j, l \in 1..Len(case_runners) : j # l => r[j] # r[l]
  BY <1>7 DEF Lists
<1> DEFINE q == [j \in 1..Len(case_runners) |-> p[r[j]]]
<1>10. \A j \in 1..Len(case_runners) : r[j] \in 1..Len(tasks) /\ p[r[j]] \in pairs
  BY <1>2, <1>8, <1>9
<1>11. q \in [1..Len(case_runners) -> pairs] /\ \A j \in 1..Len(case_runners) : q[j] = p[r[j]]
  BY <1>10
<1> HIDE DEF q
<1>12. \A pair \in pairs : \E j \in 1..Len(case_runners) : q[j] = pair
  <2> SUFFICES ASSUME NEW pair \in pairs
               PROVE  \E j \in 1..Len(case_runners) : q[j] = pair
    OBVIOUS
  <2>1. PICK n \in 1..Len(tasks) : p[n] = pair
    BY <1>2
  <2>2. PICK j \in 1..Len(case_runners) : r[j] = n
    BY <1>8, <1>9
  <2> QED
    BY <1>11, <2>1, <2>2
<1>13. \A j, l \in 1..Len(case_runners) : j # l => q[j] # q[l]
  BY <1>2, <1>9, <1>10, <1>11
<1>14. \A j \in 1..Len(case_runners) :
          /\ case_runners[j].db = dbs[q[j][1]]
          /\ case_runners[j].config = WithK(configs[q[j][2]], k)
  <2> SUFFICES ASSUME NEW j \in 1..Len(case_runners)
               PROVE  /\ case_runners[j].db = dbs[q[j][1]]
                      /\ case_runners[j].config = WithK(configs[q[j][2]], k)
    OBVIOUS
  <2>1. case_runners[j] = Tasks[r[j]] /\ r[j] \in 1..Len(tasks) /\ q[j] = p[r[j]]
    BY <1>9, <1>10, <1>11
  <2>2. case_runners[j].db = submitted[r[j]].db /\ case_runners[j].config = submitted[r[j]].config
    BY <1>8, <2>1
  <2> QED
    BY <1>4, <2>1, <2>2
<1> QED
  BY <1>11, <1>12, <1>13, <1>14 DEF pairs

\* Configurations of the same K that differ still do with another.
LEMMA SameButForK ==
    ASSUME NEW c \in CaseConfigs, NEW d \in CaseConfigs, NEW k, c.k = d.k, WithK(c, k) = WithK(d, k)
    PROVE  c = d
<1>1. \A e \in CaseConfigs : WithK(WithK(e, k), e.k) = e
  BY DEF CaseConfigs, WithK
<1> QED
  BY <1>1

\* A form that is assembled runs every case chosen once on every database, with the K
\* entered: the part of RunsWhatWasSubmitted that is about the page.
LEMMA FormRuns ==
    ASSUME SubmitInv, FormInv, outcome = "assembled", request.by = "page"
    PROVE  RunsTheForm(request.form, request.k)
<1> DEFINE form == request.form
           k == request.k
           chosen == SelectedCases(form)
<1>1. /\ form \in Forms /\ IsOffered(form) /\ k \in Ks
      /\ submitted = apply_run_settings(generate_tasks(form.dbs, chosen, form.batch_size), k)
  BY DEF FormInv, TasksOfForm
<1>2. form.dbs \in Seq(Databases) /\ IsInjective(form.dbs) /\ form.batch_size \in Nat
  BY <1>1, FormsAssumption
<1>3. /\ chosen \in Seq(CaseConfigs) /\ IsInjective(chosen)
      /\ \A i \in DOMAIN chosen : chosen[i].k = K_DEFAULT
  BY <1>1, SelectedCasesDiffer DEF IsOffered, MadeOf
<1> HIDE DEF form, k, chosen
<1> DEFINE dbs == form.dbs
           pairs == Pairs(dbs, chosen)
<1>4. PICK q \in [1..Len(case_runners) -> pairs] :
        /\ \A pair \in pairs : \E n \in 1..Len(case_runners) : q[n] = pair
        /\ \A m, n \in 1..Len(case_runners) : m # n => q[m] # q[n]
        /\ \A n \in 1..Len(case_runners) :
              /\ case_runners[n].db = dbs[q[n][1]]
              /\ case_runners[n].config = WithK(chosen[q[n][2]], k)
  BY <1>1, <1>2, <1>3, RunsArePairs
<1>5. /\ DOMAIN dbs = 1..Len(dbs) /\ Len(dbs) \in Nat
      /\ DOMAIN chosen = 1..Len(chosen) /\ Len(chosen) \in Nat
      /\ DOMAIN case_runners = 1..Len(case_runners) /\ Len(case_runners) \in Nat
  <2>1. CasesExist /\ case_runners = AssembleAll(Tasks) /\ submitted \in Seq(TaskConfigs)
    BY DEF SubmitInv
  <2>2. Tasks \in Seq(TheTasks) /\ Orderable(TheTasks)
    BY <2>1, TasksAreOrderable
  <2>3. \E T : case_runners \in Seq(T)
    BY <2>1, <2>2, AssemblyIsAnOrder, RunOfTasks
  <2> QED
    BY <1>2, <1>3, <2>3
<1> HIDE DEF dbs, pairs
<1>6. Len(case_runners) = Len(dbs) * Len(chosen)
  <2>1. \A n \in Nat : IsFiniteSet(1..n) /\ Cardinality(1..n) = n
    BY FS_Interval
  <2>2. Cardinality(pairs) = Len(dbs) * Len(chosen)
    <3> DEFINE rows == 1..Len(dbs)
               columns == 1..Len(chosen)
    <3>1. /\ IsFiniteSet(rows) /\ Cardinality(rows) = Len(dbs)
          /\ IsFiniteSet(columns) /\ Cardinality(columns) = Len(chosen)
          /\ pairs = rows \X columns
      BY <1>5, <2>1 DEF pairs, Pairs
    <3> HIDE DEF rows, columns
    <3>2. Cardinality(rows \X columns) = Cardinality(rows) * Cardinality(columns)
      BY <3>1, FS_Product
    <3> QED
      BY <3>1, <3>2
  <2>3. q \in Bijection(1..Len(case_runners), pairs)
    BY <1>4 DEF Bijection, Injection, Surjection, IsInjective
  <2>4. Cardinality(pairs) = Cardinality(1..Len(case_runners))
    <3>1. ExistsBijection(1..Len(case_runners), pairs)
      BY <2>3 DEF ExistsBijection
    <3> QED
      BY <1>5, <2>1, <3>1, FS_Bijection
  <2> QED
    BY <1>5, <2>1, <2>2, <2>4
<1>7. ASSUME NEW db \in ToSet(dbs), NEW i \in DOMAIN chosen
      PROVE  Runs([chosen[i] EXCEPT !.k = k], db) = 1
  <2>1. PICK a \in DOMAIN dbs : dbs[a] = db
    BY DEF ToSet
  <2>2. <<a, i>> \in pairs
    BY <1>5 DEF pairs, Pairs
  <2>3. PICK n \in 1..Len(case_runners) : q[n] = <<a, i>>
    BY <1>4, <2>2
  <2> DEFINE config == WithK(chosen[i], k)
             these == {j \in DOMAIN case_runners :
                          case_runners[j].db = db /\ case_runners[j].config = config}
  <2>4. n \in these
    BY <1>4, <1>5, <2>1, <2>3
  <2>5. ASSUME NEW j \in these PROVE j = n
    <3>1. /\ q[j] \in pairs /\ dbs[q[j][1]] = dbs[a]
          /\ WithK(chosen[q[j][2]], k) = WithK(chosen[i], k)
      BY <1>4, <1>5, <2>1
    <3>2. q[j][1] \in DOMAIN dbs /\ q[j][2] \in DOMAIN chosen /\ q[j] = <<q[j][1], q[j][2]>>
      BY <1>5, <3>1 DEF pairs, Pairs
    <3>3. q[j][1] = a
      BY <1>2, <3>1, <3>2 DEF IsInjective, dbs
    <3>4. chosen[q[j][2]] = chosen[i]
      <4>1. chosen[q[j][2]] \in CaseConfigs /\ chosen[i] \in CaseConfigs
        BY <1>3, <3>2, ItemOfSeq
      <4> QED
        BY <1>3, <3>1, <3>2, <4>1, SameButForK
    <3>5. q[j][2] = i
      BY <1>3, <3>2, <3>4 DEF IsInjective
    <3>6. q[j] = q[n]
      BY <2>3, <3>2, <3>3, <3>5
    <3> QED
      BY <1>4, <1>5, <3>6
  <2>6. these = {n}
    BY <2>4, <2>5
  <2> HIDE DEF these
  <2>7. Cardinality(these) = 1
    BY <2>6, FS_Singleton
  <2> QED
    BY <2>7 DEF Runs, these, WithK
<1> QED
  BY <1>6, <1>7 DEF RunsTheForm, form, k, chosen, dbs

\* Whoever asks, what runs is what was asked for: a page runs the configurations chosen
\* with the K entered on every database chosen, once each; a command the one case of its
\* options; the service the tasks posted (submitTask.py, cli.py, api/service).
THEOREM RunsAreAsked == SubmitSpec => []RunsWhatWasSubmitted
<1>1. SubmitInit => FormInv
  BY DEF SubmitInit, NoRequest, FormInv
<1>2. FormInv /\ [SubmitNext]_submitVars => FormInv'
  BY FormInvStep
<1>3. SubmitInv /\ FormInv /\ outcome = "assembled" /\ request.by = "page"
         => RunsTheForm(request.form, request.k)
  BY FormRuns
<1>4. ASSUME outcome = "assembled" /\ request.by = "page"
                => RunsTheForm(request.form, request.k),
             outcome = "assembled" /\ request.by = "command" => RunsTheCommand(request.options),
             outcome = "assembled" /\ request.by = "service" => RunsThePost(request.tasks),
             outcome = "assembled" => request.by \in {"page", "command", "service"}
      PROVE  RunsWhatWasSubmitted
  BY <1>4 DEF RunsWhatWasSubmitted
<1>5. FormInv /\ outcome = "assembled" => request.by \in {"page", "command", "service"}
  BY DEF FormInv
<1> QED
  BY <1>1, <1>2, <1>3, <1>4, <1>5, SubmissionInvariant, CommandRunsItsCase, ServiceRunsItsPosts,
     PTL
     DEF SubmitSpec

-------------------------------------------------------------------------------
(* What the page offers is accepted: every configuration it makes is a case.     *)

\* The profiles of what is chosen: those the page shows, or none.
Shown == {"", "ids_only", "vector"}

\* Cases of a label that are there, answer with what is wanted, and find their files.
Answered(cases, label, profile) ==
    /\ cases # {}
    /\ \A case \in cases : /\ case.label = label
                          /\ case.payload \in {"ids_only", profile} \ {""}
                          /\ FilesFound(case.data, case.filter)

\* The cases of the table are such cases when their filter fits their datasets.
LEMMA FittingCases ==
    ASSUME NEW label, NEW datas, datas # {}, NEW filter, \A d \in datas : FilterFits(d, filter),
           NEW profile \in Shown, NEW payload \in {"ids_only", DefaultName(profile, "ids_only")},
           NEW cases, cases = Cases(label, datas, filter, payload)
    PROVE  Answered(cases, label, profile)
<1>1. payload \in {"ids_only", profile} \ {""} /\ payload # "scalar_label"
  BY DEF Shown, DefaultName
<1>2. cases # {}
  <2>1. PICK d \in datas : FilterFits(d, filter)
    OBVIOUS
  <2> DEFINE case == NewCase(label, d, filter, payload, 0)
  <2>2. case.filter = filter /\ case.payload = payload /\ case.data = d
    BY DEF NewCase
  <2> HIDE DEF case
  <2>3. needs_scalar_labels(case) => with_scalar_labels(case.data)
    BY <1>1, <2>1, <2>2 DEF needs_scalar_labels, FilterFits
  <2>4. case \in Cases(label, datas, filter, payload)
    BY <2>3 DEF Cases, check_scalar_labels, case
  <2> QED
    BY <2>4
<1>3. ASSUME NEW case \in cases
      PROVE  /\ case.label = label /\ case.payload = payload
             /\ FilesFound(case.data, case.filter)
  <2>1. /\ case.label = label /\ case.filter = filter /\ case.payload = payload
        /\ case.data \in datas
    BY <1>3, CasesAre
  <2> QED
    BY <2>1, LimitHasFiles
<1> QED
  BY <1>1, <1>2, <1>3 DEF Answered

\* The datasets that can be named are of classes that publish labels; one is of LAION.
LEMMA NamedData ==
    \A name \in DOMAIN DatasetWithSize :
        LET d == DatasetWithSize[name]
        IN  /\ d \notin RegisteredParquet \cup Hdf5Data
            /\ with_scalar_labels(d)
            /\ d.class = "LAION" => name = "LAIONLarge"
            /\ SizeType(name) = {d}
<1>1. \A name \in DOMAIN DatasetWithSize :
         /\ DatasetWithSize[name].class \in {"Cohere", "LAION", "Bioasq", "OpenAI"}
         /\ DatasetWithSize[name].class = "LAION" => name = "LAIONLarge"
  BY SMT DEF DatasetWithSize, Data
<1>2. \A class \in {"Cohere", "LAION", "Bioasq", "OpenAI"} :
         /\ class \in DOMAIN Dataset /\ Dataset[class].with_scalar_labels
         /\ class \notin DOMAIN Vibe /\ class \notin DOMAIN Multimodal
  <2>1. Cohere.with_scalar_labels /\ LAION.with_scalar_labels
        /\ Bioasq.with_scalar_labels /\ OpenAI.with_scalar_labels
    BY SMT DEF Cohere, LAION, Bioasq, OpenAI, Class
  <2>2. \A class \in {"Cohere", "LAION", "Bioasq", "OpenAI"} :
           class \in DOMAIN Dataset /\ Dataset[class].with_scalar_labels
    BY <2>1 DEF Dataset
  <2>3. \A class \in {"Cohere", "LAION", "Bioasq", "OpenAI"} :
           class \notin DOMAIN Vibe /\ class \notin DOMAIN Multimodal
    BY SMT DEF Vibe, Multimodal
  <2> QED
    BY <2>2, <2>3
<1>3. \A d \in RegisteredParquet \cup Hdf5Data :
         d.class \in DOMAIN Vibe \/ d.class \in DOMAIN Multimodal
  BY DEF RegisteredParquet, Hdf5Data, Data
<1> QED
  BY <1>1, <1>2, <1>3 DEF with_scalar_labels, SizeType

\* The datasets of the cases without parameters are published; those with a filter have
\* a file of it.
LEMMA FixedData ==
    /\ \A type \in DOMAIN CapacityCases : CapacityCases[type] # {}
    /\ \A type \in DOMAIN FixedCases : FixedCases[type] # {}
    /\ \A type \in DOMAIN FixedFilterCases :
          /\ FixedFilterCases[type][1] # {} /\ FixedFilterCases[type][2] \in {10, 990}
          /\ \A d \in FixedFilterCases[type][1] : d.class \in {"Cohere", "OpenAI"}
<1>1. \A type \in DOMAIN CapacityCases : CapacityCases[type] # {}
  BY SMT DEF CapacityCases, manager, Dataset, GIST, SIFT, Class
<1>2. /\ Fixed("Cohere", 1000000) # {} /\ Fixed("Cohere", 10000000) # {}
  BY SMT DEF Fixed, manager, Dataset, Cohere, Class
<1>3. /\ Fixed("OpenAI", 50000) # {} /\ Fixed("OpenAI", 500000) # {}
      /\ Fixed("OpenAI", 5000000) # {}
  BY SMT DEF Fixed, manager, Dataset, OpenAI, Class
<1>4. /\ Fixed("Bioasq", 1000000) # {} /\ Fixed("Bioasq", 10000000) # {}
      /\ Fixed("LAION", 100000000) # {}
  BY SMT DEF Fixed, manager, Dataset, Bioasq, LAION, Class
<1>5. \A type \in DOMAIN FixedCases : FixedCases[type] # {}
  BY SMT, <1>2, <1>3, <1>4 DEF FixedCases
<1>6. \A type \in DOMAIN FixedFilterCases :
         FixedFilterCases[type][1] # {} /\ FixedFilterCases[type][2] \in {10, 990}
  BY SMT, <1>2, <1>3, <1>4 DEF FixedFilterCases
<1>7. \A class, size : \A d \in Fixed(class, size) : d.class = class
  BY DEF Fixed, manager, Data
<1>8. \A type \in DOMAIN FixedFilterCases :
         \A d \in FixedFilterCases[type][1] : d.class \in {"Cohere", "OpenAI"}
  BY SMT, <1>7 DEF FixedFilterCases
<1> QED
  BY <1>1, <1>5, <1>6, <1>8

\* Which filters fit which datasets.
LEMMA FittingFilters ==
    /\ \A d : FilterFits(d, NonFilter)
    /\ \A name \in DOMAIN DatasetWithSize : \A part :
          FilterFits(DatasetWithSize[name], LabelFilter(part))
    /\ \A name \in DOMAIN DatasetWithSize : \A rate :
          (name = "LAIONLarge" => rate \in LaionRates)
             => FilterFits(DatasetWithSize[name], NewIntFilter(rate))
    /\ \A type \in DOMAIN FixedFilterCases : \A d \in FixedFilterCases[type][1] :
          FilterFits(d, IntFilter(FixedFilterCases[type][2]))
<1>1. /\ groundtruth_file(NonFilter) # {} /\ Unfiltered(NonFilter)
      /\ NonFilter.kind = "NonFilter" /\ NonFilter.type = "NonFilter"
  BY DEF NonFilter, Filter, groundtruth_file, Unfiltered
<1>2. \A part : /\ groundtruth_file(LabelFilter(part)) # {}
                /\ LabelFilter(part).kind = "LabelFilter"
  BY DEF LabelFilter, Filter, groundtruth_file
<1>3. \A rate : /\ groundtruth_file(NewIntFilter(rate)) # {}
                /\ NewIntFilter(rate).type = "NumGE" /\ NewIntFilter(rate).rate = rate
  BY DEF NewIntFilter, Filter, groundtruth_file
<1>4. \A rate \in {10, 990} : /\ groundtruth_file(IntFilter(rate)) # {}
                              /\ IntFilter(rate).type = "NumGE"
                              /\ IntFilter(rate).kind = "IntFilter"
  BY DEF IntFilter, Filter, groundtruth_file
<1>5. \A d : FilterFits(d, NonFilter)
  BY <1>1 DEF FilterFits
<1>6. \A name \in DOMAIN DatasetWithSize : \A part :
         FilterFits(DatasetWithSize[name], LabelFilter(part))
  BY <1>2, NamedData DEF FilterFits
<1>7. \A name \in DOMAIN DatasetWithSize : \A rate :
          (name = "LAIONLarge" => rate \in LaionRates)
             => FilterFits(DatasetWithSize[name], NewIntFilter(rate))
  BY <1>3, NamedData DEF FilterFits
<1>8. \A d \in RegisteredParquet \cup Hdf5Data : d.class \notin {"Cohere", "OpenAI"}
  <2>1. "Cohere" \notin DOMAIN Vibe /\ "OpenAI" \notin DOMAIN Vibe
        /\ "Cohere" \notin DOMAIN Multimodal /\ "OpenAI" \notin DOMAIN Multimodal
    BY SMT DEF Vibe, Multimodal
  <2> QED
    BY <2>1 DEF RegisteredParquet, Hdf5Data, Data
<1>9. \A type \in DOMAIN FixedFilterCases : \A d \in FixedFilterCases[type][1] :
         FilterFits(d, IntFilter(FixedFilterCases[type][2]))
  BY <1>4, <1>8, FixedData DEF FilterFits
<1> QED
  BY <1>5, <1>6, <1>7, <1>9

\* The parameters of a case with a profile, which is all that is changed.
WithPayload(custom, profile) == [custom EXCEPT !.payload_profile = profile]

\* A profile changes the payload and no other parameter.
LEMMA PayloadIsKept ==
    ASSUME NEW custom \in Parameters, NEW profile, NEW made, made = WithPayload(custom, profile)
    PROVE  /\ made.dataset_with_size_type = custom.dataset_with_size_type
           /\ made.dataset_name = custom.dataset_name
           /\ made.filter_rate = custom.filter_rate
           /\ made.label_percentage = custom.label_percentage
           /\ made.use_filter = custom.use_filter
           /\ made.dataset_config = custom.dataset_config
           /\ Payload(made) = DefaultName(profile, "ids_only")
BY DEF WithPayload, Parameters, Payload

\* Every dataset that can be named has a name.
LEMMA DatasetNames ==
    \A name \in DOMAIN DatasetWithSize \cup DOMAIN Vibe \cup DOMAIN Multimodal
                   \cup DOMAIN FtsDatasetWithSize : name # ""
<1>1. \A name \in DOMAIN DatasetWithSize : name # ""
  <2>1. DOMAIN DatasetWithSize =
          {"CohereSmall", "CohereMedium", "CohereLarge", "LAIONLarge", "BioasqMedium",
           "BioasqLarge", "OpenAISmall", "OpenAIMedium", "OpenAILarge"}
    BY SMT DEF DatasetWithSize
  <2> QED
    BY Zenon, <2>1
<1>2. \A name \in DOMAIN Vibe : name # ""
  <2>1. DOMAIN Vibe =
          {"agnews_mxbai_1024_euclidean", "arxiv_nomic_768_normalized",
           "dpr_jina_768_normalized", "glove_200_cosine",
           "gooaq_distilroberta_768_normalized", "imagenet_clip_512_normalized",
           "inaturalist_resnet_2048_cosine", "landmark_dino_768_cosine",
           "landmark_nomic_768_normalized", "msmarco_qwen_1024_normalized",
           "yahoo_minilm_384_normalized", "hotpotqa_harrier_640_normalized",
           "imagenet_align_640_normalized", "laion_clip_512_normalized",
           "yandex_200_cosine", "cqadupstack_lemur_2048_ip", "cqadupstack_muvera_5120_ip",
           "yi_128_ip", "llama_128_ip", "ccnews_nomic_768_normalized",
           "celeba_resnet_2048_cosine", "coco_nomic_768_normalized",
           "codesearchnet_jina_768_cosine", "simplewiki_openai_3072_normalized"}
    BY SMT DEF Vibe
  <2> QED
    BY Zenon, <2>1
<1>3. \A name \in DOMAIN Multimodal : name # ""
  <2>1. DOMAIN Multimodal =
          {"multimodal_embedding_1m", "multimodal_embedding_10m",
           "multimodal_embedding_100m"}
    BY SMT DEF Multimodal
  <2> QED
    BY Zenon, <2>1
<1>4. \A name \in DOMAIN FtsDatasetWithSize : name # ""
  <2>1. DOMAIN FtsDatasetWithSize =
          {"MSMarcoSmall", "HotpotQASmall", "MSMarcoMedium", "HotpotQAMedium",
           "MSMarcoLarge", "HotpotQALarge"}
    BY SMT DEF FtsDatasetWithSize
  <2> QED
    BY Zenon, <2>1
<1> QED
  BY <1>1, <1>2, <1>3, <1>4

\* A case type without parameters makes its case.
LEMMA NormalAnswered ==
    ASSUME NEW type \in OfferedTypes, NEW profile \in Shown, NEW custom,
           custom.filter_rate = None, Payload(custom) = DefaultName(profile, "ids_only")
    PROVE  \E label \in Labels \ {"FullTextSearch"} :
              Answered(case_cls(type, custom), label, profile)
<1>1. CASE type \in DOMAIN CapacityCases
  <2>1. case_cls(type, custom) = Cases("Load", CapacityCases[type], NonFilter, "ids_only")
    BY <1>1, TableByType
  <2>2. CapacityCases[type] # {} /\ \A d \in CapacityCases[type] : FilterFits(d, NonFilter)
    BY <1>1, FixedData, FittingFilters
  <2>3. Answered(case_cls(type, custom), "Load", profile)
    BY <2>1, <2>2, FittingCases
  <2> QED
    BY <2>3 DEF Labels
<1>2. CASE type \in DOMAIN FixedCases
  <2>1. case_cls(type, custom)
           = Cases("Performance", FixedCases[type], NonFilter, Payload(custom))
    BY <1>2, TableByType
  <2>2. Answered(case_cls(type, custom), "Performance", profile)
    BY <1>2, <2>1, FixedData, FittingFilters, FittingCases
  <2> QED
    BY <2>2 DEF Labels
<1>3. CASE type \in DOMAIN FixedFilterCases
  <2> DEFINE rate == FixedFilterCases[type][2]
             datas == FixedFilterCases[type][1]
  <2>1. DefaultNumber(custom.filter_rate, rate) = rate
    BY DEF DefaultNumber
  <2>2. case_cls(type, custom) = Cases("Performance", datas, IntFilter(rate), Payload(custom))
    BY <1>3, <2>1, TableByType
  <2>3. datas # {} /\ \A d \in datas : FilterFits(d, IntFilter(rate))
    BY <1>3, FixedData, FittingFilters
  <2> HIDE DEF rate, datas
  <2>4. Answered(case_cls(type, custom), "Performance", profile)
    BY <2>2, <2>3, FittingCases
  <2> QED
    BY <2>4 DEF Labels
<1> QED
  BY <1>1, <1>2, <1>3 DEF OfferedTypes

\* A case with a filter of ids or of labels makes its case, on a dataset that is named.
LEMMA FilterAnswered ==
    ASSUME NEW custom, NEW profile \in Shown,
           Payload(custom) = DefaultName(profile, "ids_only"),
           NEW name \in DOMAIN DatasetWithSize, custom.dataset_with_size_type = name
    PROVE  /\ custom.filter_rate # None
                /\ (name = "LAIONLarge" => custom.filter_rate \in LaionRates)
              => Answered(case_cls("NewIntFilterPerformanceCase", custom), "Performance", profile)
           /\ custom.label_percentage # None
              => Answered(case_cls("LabelFilterPerformanceCase", custom), "Performance", profile)
<1>1. SizeType(name) = {DatasetWithSize[name]}
  BY NamedData
<1>2. ASSUME custom.filter_rate # None, name = "LAIONLarge" => custom.filter_rate \in LaionRates
      PROVE  Answered(case_cls("NewIntFilterPerformanceCase", custom), "Performance", profile)
  <2> DEFINE filter == NewIntFilter(custom.filter_rate)
  <2>1. case_cls("NewIntFilterPerformanceCase", custom)
           = Cases("Performance", {DatasetWithSize[name]}, filter, Payload(custom))
    BY <1>1, <1>2, TableOfParameters DEF NewIntFilterPerformanceCase
  <2>2. FilterFits(DatasetWithSize[name], filter)
    BY <1>2, FittingFilters
  <2> HIDE DEF filter
  <2> QED
    BY <2>1, <2>2, FittingCases
<1>3. ASSUME custom.label_percentage # None
      PROVE  Answered(case_cls("LabelFilterPerformanceCase", custom), "Performance", profile)
  <2> DEFINE filter == LabelFilter(custom.label_percentage)
  <2>1. case_cls("LabelFilterPerformanceCase", custom)
           = Cases("Performance", {DatasetWithSize[name]}, filter, Payload(custom))
    BY <1>1, <1>3, TableOfParameters DEF LabelFilterPerformanceCase
  <2>2. FilterFits(DatasetWithSize[name], filter)
    BY FittingFilters
  <2> HIDE DEF filter
  <2> QED
    BY <2>1, <2>2, FittingCases
<1> QED
  BY <1>2, <1>3

\* A registered dataset makes its case, and its K is within the width of the files.
LEMMA RegisteredAnswered ==
    ASSUME NEW custom, NEW profile \in Shown,
           Payload(custom) = DefaultName(profile, "ids_only"),
           NEW name \in DOMAIN Vibe \cup DOMAIN Multimodal, custom.dataset_name = name,
           custom.filter_rate = None, custom.label_percentage = None
    PROVE  LET cases == case_cls("Performance", custom)
           IN  /\ Answered(cases, "Performance", profile)
               /\ \A case \in cases : max_search_k(case.data, case.filter) = Bound(GroundTruthWidth)
<1> DEFINE cases == case_cls("Performance", custom)
           datas == get_dataset_manager(name)
<1>1. DOMAIN DatasetWithSize \cap (DOMAIN Vibe \cup DOMAIN Multimodal) = {} /\ name # ""
  <2>1. DOMAIN DatasetWithSize \cap (DOMAIN Vibe \cup DOMAIN Multimodal) = {}
    BY SMT DEF DatasetWithSize, Vibe, Multimodal
  <2> QED
    BY <2>1, DatasetNames
<1>2. datas # {} /\ datas \subseteq RegisteredParquet \cup Hdf5Data
  BY <1>1 DEF get_dataset_manager, RegisteredParquet, Hdf5Data
<1>3. DefaultName(custom.dataset_name, "CohereMedium") = name
  BY <1>1 DEF DefaultName
<1>4. cases = Cases("Performance", datas, NonFilter, Payload(custom))
  BY <1>3, TableOfParameters DEF Performance
<1> HIDE DEF datas, cases
<1>5. Answered(cases, "Performance", profile)
  BY <1>2, <1>4, FittingFilters, FittingCases
<1>6. \A case \in cases : case.data \in datas
  BY <1>4, CasesAre
<1>7. \A case \in cases : max_search_k(case.data, case.filter) = Bound(GroundTruthWidth)
  BY <1>2, <1>6 DEF max_search_k
<1> QED
  BY <1>5, <1>7 DEF cases

\* A dataset of texts makes its case.
LEMMA TextAnswered ==
    ASSUME NEW custom, NEW profile \in Shown,
           Payload(custom) = DefaultName(profile, "ids_only"),
           NEW name \in DOMAIN FtsDatasetWithSize, custom.dataset_with_size_type = name,
           custom.filter_rate = None, custom.label_percentage = None
    PROVE  Answered(case_cls("FTSBm25Performance", custom), "FullTextSearch", profile)
<1>1. name # ""
  BY DatasetNames
<1>2. DefaultName(custom.dataset_with_size_type, "MSMarcoSmall") = name
  BY <1>1 DEF DefaultName
<1>3. CloudFilter(custom) = NonFilter
  BY DEF CloudFilter
<1>4. case_cls("FTSBm25Performance", custom)
         = Cases("FullTextSearch", {FtsDatasetWithSize[name]}, NonFilter, Payload(custom))
  BY <1>2, <1>3, TableOfParameters DEF FTSBm25Performance
<1> QED
  BY <1>4, FittingFilters, FittingCases

\* A streaming case makes its case, on the dataset that is named or on the user's own.
LEMMA StreamingAnswered ==
    ASSUME NEW custom, NEW profile \in Shown
    PROVE  /\ custom.dataset_with_size_type \in DOMAIN DatasetWithSize
              => Answered(case_cls("StreamingPerformanceCase", custom), "Streaming", profile)
           /\ custom.dataset_config
              => Answered(case_cls("StreamingCustomDataset", custom), "Streaming", profile)
           /\ custom.dataset_config /\ ~custom.use_filter
              => Answered(case_cls("PerformanceCustomDataset", custom), "Performance", profile)
<1>1. ASSUME custom.dataset_with_size_type \in DOMAIN DatasetWithSize
      PROVE  Answered(case_cls("StreamingPerformanceCase", custom), "Streaming", profile)
  <2> DEFINE name == custom.dataset_with_size_type
  <2>1. \A n \in DOMAIN DatasetWithSize : DefaultName(n, "CohereSmall") = n
    BY DatasetNames DEF DefaultName
  <2>2. case_cls("StreamingPerformanceCase", custom)
           = Cases("Streaming", SizeType(name), NonFilter, "ids_only")
    BY <1>1, <2>1, TableOfParameters DEF StreamingPerformanceCase
  <2>3. SizeType(name) # {}
    BY <1>1, NamedData
  <2> QED
    BY <2>2, <2>3, FittingFilters, FittingCases
<1>2. ASSUME custom.dataset_config
      PROVE  Answered(case_cls("StreamingCustomDataset", custom), "Streaming", profile)
  <2>1. case_cls("StreamingCustomDataset", custom)
           = Cases("Streaming", {CustomData}, NonFilter, "ids_only")
    BY <1>2, TableOfParameters DEF StreamingCustomDataset
  <2> QED
    BY <2>1, FittingFilters, FittingCases
<1>3. ASSUME custom.dataset_config, ~custom.use_filter
      PROVE  Answered(case_cls("PerformanceCustomDataset", custom), "Performance", profile)
  <2>1. case_cls("PerformanceCustomDataset", custom)
           = Cases("Performance", {CustomData}, NonFilter, "ids_only")
    BY <1>3, TableOfParameters DEF PerformanceCustomDataset
  <2> QED
    BY <2>1, FittingFilters, FittingCases
<1> QED
  BY <1>1, <1>2, <1>3

\* A configuration that is valid and makes a case, unless its item is that of the labels
\* of the user's own data; a text search is chosen only for databases that have one.
Accepted(config, item) ==
    /\ CaseConfigIsValid(config)
    /\ \/ \E label \in Labels :
             /\ Answered(case_of(config), label, config.payload_profile)
             /\ label = "FullTextSearch" => item.takes = FTS_SUPPORTED_DBS
       \/ case_of(config) = {} /\ item.configs[1].custom_case.use_filter

\* What is offered has no profile among its parameters.
LEMMA OfferedParameters ==
    ASSUME NEW item, NEW base, Offers(item, base)
    PROVE  base.custom_case.payload_profile = ""
<1>1. \A type, custom : CaseOf(type, custom).custom_case = custom
  BY DEF CaseOf, CaseConfig
<1>2. /\ NoParameters.payload_profile = "" /\ DatasetConfig.payload_profile = ""
      /\ LabelledConfig.payload_profile = ""
      /\ \A name : SizeTypeParameter(name).payload_profile = ""
  BY DEF NoParameters, DatasetConfig, LabelledConfig, SizeTypeParameter
<1>3. ASSUME OfNormal(item, base) \/ OfStreaming(item, base) \/ OfCustom(item, base)
                \/ OfCustomStreaming(item, base)
      PROVE  base.custom_case.payload_profile = ""
  <2>1. base.custom_case \in {NoParameters, DatasetConfig, LabelledConfig}
    BY <1>1, <1>3 DEF OfNormal, OfStreaming, OfCustom, OfCustomStreaming
  <2> QED
    BY <1>2, <2>1
<1>4. ASSUME OfIntFilter(item, base) PROVE base.custom_case.payload_profile = ""
  <2>1. PICK name, rate : base = IntFilterConfig(name, rate)
    BY <1>4 DEF OfIntFilter
  <2>2. base.custom_case = [SizeTypeParameter(name) EXCEPT !.filter_rate = rate]
    BY <1>1, <2>1 DEF IntFilterConfig
  <2> QED
    BY <2>2 DEF SizeTypeParameter, NoParameters
<1>5. ASSUME OfLabelFilter(item, base) PROVE base.custom_case.payload_profile = ""
  <2>1. PICK name, part : base = LabelFilterConfig(name, part)
    BY <1>5 DEF OfLabelFilter
  <2>2. base.custom_case = [SizeTypeParameter(name) EXCEPT !.label_percentage = part]
    BY <1>1, <2>1 DEF LabelFilterConfig
  <2> QED
    BY <2>2 DEF SizeTypeParameter, NoParameters
<1>6. ASSUME OfRegistered(item, base) PROVE base.custom_case.payload_profile = ""
  <2>1. PICK name : base = CaseOf("Performance", [NoParameters EXCEPT !.dataset_name = name])
    BY <1>6 DEF OfRegistered
  <2>2. base.custom_case = [NoParameters EXCEPT !.dataset_name = name]
    BY <1>1, <2>1
  <2> QED
    BY <2>2 DEF NoParameters
<1>7. ASSUME OfText(item, base) PROVE base.custom_case.payload_profile = ""
  <2>1. PICK name : base = CaseOf("FTSBm25Performance", SizeTypeParameter(name))
    BY <1>7 DEF OfText, generate_fts_case
  <2>2. base.custom_case = SizeTypeParameter(name)
    BY <1>1, <2>1
  <2> QED
    BY <1>2, <2>2
<1> QED
  BY <1>3, <1>4, <1>5, <1>6, <1>7 DEF Offers

\* So the case of a chosen configuration is that of its parameters with its profile.
LEMMA MadeParameters ==
    ASSUME NEW form \in Forms, NEW item, NEW base, NEW config \in CaseConfigs,
           MadeOf(config, base, item, form)
    PROVE  /\ config.custom_case.payload_profile = "" /\ config.custom_case \in Parameters
           /\ case_of(config) = case_cls(config.case_id,
                                         WithPayload(config.custom_case, config.payload_profile))
<1>1. config.custom_case \in Parameters /\ base.custom_case \in Parameters
  BY DEF CaseConfigs, MadeOf
<1>2. config.custom_case.payload_profile = ""
  <2>1. base.custom_case.payload_profile = ""
    BY OfferedParameters DEF MadeOf
  <2>2. FilledCustom(base, form).payload_profile = ""
    BY <1>1, <2>1 DEF FilledCustom, Parameters
  <2> QED
    BY <2>1, <2>2 DEF MadeOf
<1>3. DefaultName(config.payload_profile, config.custom_case.payload_profile)
         = config.payload_profile
  BY <1>2 DEF DefaultName
<1> QED
  BY <1>1, <1>2, <1>3 DEF case_of, WithPayload

\* A configuration made of one that an item offers is one the constructors accept.
LEMMA MadeIsAccepted ==
    ASSUME NEW form \in Forms, NEW item, NEW base, NEW config \in CaseConfigs,
           MadeOf(config, base, item, form), config.payload_profile \in Shown
    PROVE  Accepted(config, item)
<1> DEFINE type == config.case_id
           profile == config.payload_profile
           given == config.custom_case
           custom == WithPayload(given, profile)
<1>1. /\ Offers(item, base) /\ type = base.case_id /\ config.k = K_DEFAULT
      /\ given = IF item.inputs THEN FilledCustom(base, form) ELSE base.custom_case
      /\ profile # "" => type \in PerformanceTypes
      /\ base \in CaseConfigs
  BY DEF MadeOf
<1>2. /\ given.payload_profile = "" /\ given \in Parameters
      /\ case_of(config) = case_cls(type, custom)
  BY MadeParameters
<1>3. PayloadIsValid(config) /\ config.k = 100 /\ config.k > 0
  <2>1. PayloadIsValid(config)
    BY Zenon, <1>1, <1>2 DEF PayloadIsValid
  <2>2. config.k = 100
    BY <1>1 DEF K_DEFAULT
  <2> QED
    BY <2>1, <2>2
<1>4. \A t, c : CaseOf(t, c).case_id = t /\ CaseOf(t, c).custom_case = c
  BY DEF CaseOf, CaseConfig
<1>5. \A configs, takes, inputs : Item(configs, takes, inputs).inputs = inputs
  BY DEF Item
<1>takes. \A configs, takes, inputs : Item(configs, takes, inputs).takes = takes
  BY DEF Item
<1>configs. \A configs, takes, inputs : Item(configs, takes, inputs).configs = configs
  BY DEF Item
<1>6. /\ custom.dataset_with_size_type = given.dataset_with_size_type
      /\ custom.dataset_name = given.dataset_name
      /\ custom.filter_rate = given.filter_rate
      /\ custom.label_percentage = given.label_percentage
      /\ custom.use_filter = given.use_filter /\ custom.dataset_config = given.dataset_config
      /\ Payload(custom) = DefaultName(profile, "ids_only")
  <2>1. custom = WithPayload(given, profile) /\ given \in Parameters
    BY <1>2
  <2> HIDE DEF custom, given, profile
  <2> QED
    BY <2>1, PayloadIsKept
<1>7. profile \in Shown
  OBVIOUS
<1> HIDE DEF type, profile, given, custom
<1>8. ASSUME type # "Performance", NEW label \in Labels \ {"FullTextSearch"},
             Answered(case_cls(type, custom), label, profile)
      PROVE  Accepted(config, item)
  <2>1. CaseKIsValid(config)
    BY <1>8 DEF CaseKIsValid, type
  <2>2. CaseConfigIsValid(config)
    BY <1>3, <2>1 DEF CaseConfigIsValid
  <2>3. Answered(case_of(config), label, config.payload_profile)
    BY <1>2, <1>8 DEF profile
  <2>4. label \in Labels /\ label # "FullTextSearch"
    BY <1>8
  <2> QED
    BY ONLY <2>2, <2>3, <2>4 DEF Accepted
<1>9. "Performance" \in Labels \ {"FullTextSearch"} /\ "Streaming" \in Labels \ {"FullTextSearch"}
  BY DEF Labels
<1>10. CASE OfNormal(item, base)
  <2>1. PICK t \in OfferedTypes : /\ base = CaseOf(t, NoParameters)
                                 /\ item = generate_normal_cases(t)
    BY <1>10 DEF OfNormal
  <2>2. item.inputs = FALSE
    BY <1>5, <2>1 DEF generate_normal_cases
  <2>3. type = t /\ given = NoParameters
    BY <1>1, <1>4, <2>1, <2>2
  <2>4. custom.filter_rate = None
    BY <1>6, <2>3 DEF NoParameters
  <2>5. type # "Performance"
    BY <2>3, TypesDiffer DEF OfferedTypes, ParameterCases
  <2>6. PICK label \in Labels \ {"FullTextSearch"} :
           Answered(case_cls(type, custom), label, profile)
    BY <1>6, <1>7, <2>3, <2>4, NormalAnswered
  <2> QED
    BY <1>8, <2>5, <2>6
<1>11. CASE OfIntFilter(item, base)
  <2>1. PICK name, rates :
           /\ IntRatesOffered(name, rates) /\ item = generate_int_filter_cases(name, rates)
           /\ \E rate \in rates : base = IntFilterConfig(name, rate)
    BY <1>11 DEF OfIntFilter
  <2>2. PICK rate \in rates : base = IntFilterConfig(name, rate)
    BY <2>1
  <2>3. item.inputs = FALSE
    BY <1>5, <2>1 DEF generate_int_filter_cases
  <2>4. /\ type = "NewIntFilterPerformanceCase"
        /\ given = [SizeTypeParameter(name) EXCEPT !.filter_rate = rate]
    BY <1>1, <1>4, <2>2, <2>3 DEF IntFilterConfig
  <2>5. custom.dataset_with_size_type = name /\ custom.filter_rate = rate
    BY <1>6, <2>4 DEF SizeTypeParameter, NoParameters
  <2>6. /\ name \in DOMAIN DatasetWithSize /\ rate \in Nat
        /\ name = "LAIONLarge" => rate \in LaionRates
    <3>1. rates = IntRates \/ rates \in SUBSET LaionRates
      BY <2>1 DEF IntRatesOffered
    <3>2. "LAIONLarge" \in DOMAIN DatasetWithSize
      BY SMT DEF DatasetWithSize
    <3> QED
      BY <2>1, <2>2, <3>1, <3>2, RatesAre DEF IntRatesOffered
  <2>7. rate # None
    BY <2>6 DEF None
  <2>8. Answered(case_cls(type, custom), "Performance", profile)
    <3>1. custom.filter_rate # None /\ (name = "LAIONLarge" => custom.filter_rate \in LaionRates)
      BY <2>5, <2>6, <2>7
    <3>2. Answered(case_cls("NewIntFilterPerformanceCase", custom), "Performance", profile)
      BY <1>6, <1>7, <2>5, <2>6, <3>1, FilterAnswered
    <3> QED
      BY <2>4, <3>2
  <2> QED
    BY <1>8, <1>9, <2>4, <2>8
<1>12. CASE OfLabelFilter(item, base)
  <2>1. PICK name \in DOMAIN DatasetWithSize, part \in LabelPercentages :
           base = LabelFilterConfig(name, part) /\ item = generate_label_filter_cases(name)
    BY <1>12 DEF OfLabelFilter
  <2>2. item.inputs = FALSE
    BY <1>5, <2>1 DEF generate_label_filter_cases
  <2>3. /\ type = "LabelFilterPerformanceCase"
        /\ given = [SizeTypeParameter(name) EXCEPT !.label_percentage = part]
    BY <1>1, <1>4, <2>1, <2>2 DEF LabelFilterConfig
  <2>4. custom.dataset_with_size_type = name /\ custom.label_percentage = part
    BY <1>6, <2>3 DEF SizeTypeParameter, NoParameters
  <2>5. part # None
    BY RatesAre DEF None
  <2>6. Answered(case_cls(type, custom), "Performance", profile)
    BY <1>6, <1>7, <2>3, <2>4, <2>5, FilterAnswered
  <2> QED
    BY <1>8, <1>9, <2>3, <2>6
<1>13. CASE OfRegistered(item, base)
  <2>1. PICK name \in DOMAIN Vibe \cup DOMAIN Multimodal :
           /\ base = CaseOf("Performance", [NoParameters EXCEPT !.dataset_name = name])
           /\ item = RegisteredItem(name)
    BY <1>13 DEF OfRegistered
  <2>2. item.inputs = FALSE
    BY <1>5, <2>1 DEF RegisteredItem
  <2>3. type = "Performance" /\ given = [NoParameters EXCEPT !.dataset_name = name]
    BY <1>1, <1>4, <2>1, <2>2
  <2>4. /\ given.dataset_name = name /\ given.filter_rate = None
        /\ given.label_percentage = None
    BY <2>3 DEF NoParameters
  <2>5. Answered(case_cls(type, custom), "Performance", profile)
    BY <1>6, <1>7, <2>3, <2>4, RegisteredAnswered
  <2>6. Payload(given) = DefaultName("", "ids_only") /\ "" \in Shown
    BY <1>2 DEF Payload, Shown
  <2> DEFINE plain == case_cls("Performance", given)
  <2>7. /\ Answered(plain, "Performance", "")
        /\ \A case \in plain : max_search_k(case.data, case.filter) = Bound(GroundTruthWidth)
    BY <2>4, <2>6, RegisteredAnswered
  <2>8. CaseKIsValid(config)
    <3>1. PICK case \in plain : max_search_k(case.data, case.filter) = Bound(GroundTruthWidth)
      BY <2>7 DEF Answered
    <3>2. config.k <= Bound(GroundTruthWidth).bound
      BY <1>3 DEF Bound, GroundTruthWidth
    <3> QED
      BY <3>1, <3>2 DEF CaseKIsValid, given
  <2> QED
    <3>1. CaseConfigIsValid(config)
      BY <1>3, <2>8 DEF CaseConfigIsValid
    <3>2. Answered(case_of(config), "Performance", config.payload_profile)
      BY <1>2, <2>5 DEF profile
    <3> QED
      BY <1>9, <3>1, <3>2 DEF Accepted
<1>14. CASE OfText(item, base)
  <2>1. PICK name \in DOMAIN FtsDatasetWithSize :
           base = generate_fts_case(name) /\ item = get_fts_case_item(name)
    BY <1>14 DEF OfText
  <2>2. item.inputs = FALSE /\ item.takes = FTS_SUPPORTED_DBS
    BY <1>5, <1>takes, <2>1 DEF get_fts_case_item
  <2>3. type = "FTSBm25Performance" /\ given = SizeTypeParameter(name)
    BY <1>1, <1>4, <2>1, <2>2 DEF generate_fts_case
  <2>4. /\ custom.dataset_with_size_type = name /\ custom.filter_rate = None
        /\ custom.label_percentage = None
    BY <1>6, <2>3 DEF SizeTypeParameter, NoParameters
  <2>5. Answered(case_cls(type, custom), "FullTextSearch", profile)
    BY <1>6, <1>7, <2>3, <2>4, TextAnswered
  <2>6. CaseKIsValid(config) /\ "FullTextSearch" \in Labels
    BY <2>3 DEF CaseKIsValid, Labels, type
  <2> QED
    BY <1>2, <1>3, <2>2, <2>5, <2>6 DEF Accepted, CaseConfigIsValid, type, profile
<1>15. CASE OfStreaming(item, base)
  <2>1. base = CaseOf("StreamingPerformanceCase", NoParameters) /\ item = CustomStreamingItem
    BY <1>15 DEF OfStreaming
  <2>2. item.inputs = TRUE
    BY <1>5, <2>1 DEF CustomStreamingItem
  <2>3. type = "StreamingPerformanceCase" /\ given = FilledCustom(base, form)
    BY <1>1, <1>4, <2>1, <2>2
  <2>4. given.dataset_with_size_type = form.size_type
    BY <1>1, <1>4, <2>1, <2>3 DEF FilledCustom, CaseConfigs, Parameters
  <2>5. custom.dataset_with_size_type \in DOMAIN DatasetWithSize
    BY <1>6, <2>4, FormsAssumption
  <2>6. Answered(case_cls(type, custom), "Streaming", profile)
    BY <1>7, <2>3, <2>5, StreamingAnswered
  <2> QED
    BY <1>8, <1>9, <2>3, <2>6
<1>16. CASE OfCustom(item, base)
  <2>1. PICK c \in {DatasetConfig, LabelledConfig} :
           /\ base = CaseOf("PerformanceCustomDataset", c)
           /\ item = Item(<<base>>, AnyDb, FALSE)
    BY <1>16 DEF OfCustom
  <2>2. type = "PerformanceCustomDataset" /\ given = c
    BY <1>1, <1>4, <1>5, <2>1
  <2>3. CaseKIsValid(config)
    BY <2>2 DEF CaseKIsValid, type
  <2>4. CASE c = DatasetConfig
    <3>1. given.dataset_config = TRUE /\ given.use_filter = FALSE
      BY <2>2, <2>4 DEF DatasetConfig, NoParameters
    <3>2. Answered(case_cls(type, custom), "Performance", profile)
      BY <1>6, <1>7, <2>2, <3>1, StreamingAnswered
    <3> QED
      BY <1>8, <1>9, <2>2, <3>2
  <2>5. CASE c = LabelledConfig
    <3>1. item.configs[1] = base
      <4>1. item.configs = <<base>>
        BY <1>configs, <2>1
      <4> QED
        BY <4>1
    <3>2. item.configs[1].custom_case = LabelledConfig
      BY <1>4, <2>1, <2>5, <3>1
    <3>3. LabelledConfig.use_filter
      BY DEF LabelledConfig, DatasetConfig, NoParameters
    <3>4. case_of(config) = {}
      <4>1. custom.use_filter = TRUE /\ custom.label_percentage = None
        BY <1>6, <2>2, <2>5 DEF LabelledConfig, LabelOfText, DatasetConfig, NoParameters
      <4>2. case_cls(type, custom) = PerformanceCustomDataset(custom)
        BY <2>2, TableOfParameters
      <4> QED
        BY <1>2, <4>1, <4>2 DEF PerformanceCustomDataset
    <3> QED
      BY <1>3, <2>3, <3>2, <3>3, <3>4 DEF Accepted, CaseConfigIsValid
  <2> QED
    BY <2>1, <2>4, <2>5
<1>17. CASE OfCustomStreaming(item, base)
  <2>1. /\ base = CaseOf("StreamingCustomDataset", DatasetConfig)
        /\ item = Item(<<base>>, AnyDb, TRUE)
    BY <1>17 DEF OfCustomStreaming
  <2>2. type = "StreamingCustomDataset" /\ given = FilledCustom(base, form)
    BY <1>1, <1>4, <1>5, <2>1
  <2>3. given.dataset_config = TRUE
    <3>1. base.custom_case = DatasetConfig /\ base.custom_case \in Parameters
      BY <1>1, <1>4, <2>1 DEF CaseConfigs
    <3>2. FilledCustom(base, form).dataset_config = base.custom_case.dataset_config
      BY <3>1 DEF FilledCustom, Parameters
    <3>3. DatasetConfig.dataset_config = TRUE
      BY DEF DatasetConfig, NoParameters
    <3> QED
      BY <2>2, <3>1, <3>2, <3>3
  <2>4. Answered(case_cls(type, custom), "Streaming", profile)
    BY <1>6, <1>7, <2>2, <2>3, StreamingAnswered
  <2> QED
    BY <1>8, <1>9, <2>2, <2>4
<1> QED
  BY <1>1, <1>10, <1>11, <1>12, <1>13, <1>14, <1>15, <1>16, <1>17 DEF Offers

-------------------------------------------------------------------------------
(* So no form that the page offers is refused.                                   *)

\* Every configuration that is chosen is accepted, for the item it is chosen from.
LEMMA ChosenAreAccepted ==
    ASSUME NEW form \in Forms, IsOffered(form)
    PROVE  LET chosen == SelectedCases(form)
           IN  /\ chosen \in Seq(CaseConfigs)
               /\ \A i \in DOMAIN chosen : \E item \in ToSet(form.items) :
                     /\ Accepted(chosen[i], item)
                     /\ chosen[i].payload_profile \in {""} \cup ToSet(form.profiles)
                     /\ item.takes # AnyDb => ToSet(form.dbs) \subseteq item.takes
<1> DEFINE chosen == SelectedCases(form)
<1>1. /\ \A item \in ToSet(form.items) : IsSelectable(item, custom_file, form.dbs)
      /\ ToSet(form.profiles) \subseteq {"ids_only", "vector"}
  BY DEF IsOffered, get_payload_profile_options
<1>2. /\ chosen \in Seq(CaseConfigs)
      /\ \A i \in DOMAIN chosen : \E item \in ToSet(form.items) : \E base :
            MadeOf(chosen[i], base, item, form)
  BY <1>1, SelectedCasesDiffer
<1> HIDE DEF chosen
<1>3. ASSUME NEW i \in DOMAIN chosen
      PROVE  \E item \in ToSet(form.items) :
                /\ Accepted(chosen[i], item)
                /\ chosen[i].payload_profile \in {""} \cup ToSet(form.profiles)
                /\ item.takes # AnyDb => ToSet(form.dbs) \subseteq item.takes
  <2>0. PICK item \in ToSet(form.items) : \E base : MadeOf(chosen[i], base, item, form)
    BY <1>2
  <2>1. PICK base : MadeOf(chosen[i], base, item, form)
    BY <2>0
  <2>2. chosen[i].payload_profile \in {""} \cup ToSet(form.profiles)
    BY <2>1 DEF MadeOf
  <2>3. chosen[i].payload_profile \in Shown
    BY <1>1, <2>2 DEF Shown
  <2>4. chosen[i] \in CaseConfigs
    BY <1>2, ItemOfSeq
  <2>5. Accepted(chosen[i], item)
    BY <2>1, <2>3, <2>4, MadeIsAccepted
  <2> QED
    BY <1>1, <2>2, <2>5 DEF IsSelectable
<1> QED
  BY <1>2, <1>3 DEF chosen

\* Only a label filter of the user's own data makes no case.
LEMMA LabelsAreChosen ==
    ASSUME NEW form \in Forms, IsOffered(form), ~CanBeMade(SelectedCases(form))
    PROVE  \E i \in DOMAIN form.items, j \in 1..1 :
              form.items[i].configs[j].custom_case.use_filter
<1>1. PICK i \in DOMAIN SelectedCases(form) : case_of(SelectedCases(form)[i]) = {}
  BY DEF CanBeMade
<1>2. PICK item \in ToSet(form.items) : Accepted(SelectedCases(form)[i], item)
  BY ChosenAreAccepted
<1>3. item.configs[1].custom_case.use_filter
  BY <1>1, <1>2 DEF Accepted, Answered
<1>4. PICK n \in DOMAIN form.items : form.items[n] = item
  BY DEF ToSet
<1> QED
  BY <1>3, <1>4

\* The tasks of a form: of one of its databases and of a configuration chosen.
LEMMA TasksAreChosen ==
    ASSUME NEW form \in Forms, IsOffered(form), NEW n \in DOMAIN TasksOfForm(form)
    PROVE  \E db \in ToSet(form.dbs), i \in DOMAIN SelectedCases(form) :
              TasksOfForm(form)[n]
                 = Submitted(db, SelectedCases(form)[i], ALL_TASK_STAGES, form.batch_size)
<1> DEFINE chosen == SelectedCases(form)
           tasks == TasksOfForm(form)
<1>1. form.dbs \in Seq(Databases) /\ form.batch_size \in Nat
  BY FormsAssumption
<1>2. chosen \in Seq(CaseConfigs)
  BY ChosenAreAccepted
<1>3. tasks = generate_tasks(form.dbs, chosen, form.batch_size)
  BY DEF TasksOfForm
<1>4. n \in 1..Len(tasks)
  <2>1. tasks \in Seq(TaskConfigs)
    <3> HIDE DEF chosen, tasks
    <3> QED
      BY <1>1, <1>2, <1>3, TasksType
  <2> QED
    BY <2>1
<1> HIDE DEF chosen, tasks
<1>0. PICK p : PairsUp(p, tasks, form.dbs, chosen, form.batch_size)
  BY <1>1, <1>2, <1>3, TasksArePairs
<1>5. /\ p \in [1..Len(tasks) -> Pairs(form.dbs, chosen)]
      /\ \A m \in 1..Len(tasks) :
           tasks[m] = Submitted(form.dbs[p[m][1]], chosen[p[m][2]], ALL_TASK_STAGES,
                                form.batch_size)
  BY <1>0 DEF PairsUp
<1>6. p[n][1] \in DOMAIN form.dbs /\ p[n][2] \in DOMAIN chosen
  BY <1>1, <1>2, <1>4, <1>5 DEF Pairs
<1>7. form.dbs[p[n][1]] \in ToSet(form.dbs)
  BY <1>6 DEF ToSet
<1> QED
  BY <1>4, <1>5, <1>6, <1>7 DEF chosen, tasks

\* What the check of the page lets through, the task configurations accept.
LEMMA FormIsValid ==
    ASSUME NEW form \in Forms, IsOffered(form),
           validate_streaming_insert_rates(SelectedCases(form), form.batch_size)
    PROVE  AllValid(TasksOfForm(form))
<1> DEFINE chosen == SelectedCases(form)
           tasks == TasksOfForm(form)
<1> SUFFICES ASSUME NEW n \in DOMAIN tasks PROVE TaskIsValid(tasks[n])
  BY DEF AllValid
<1>1. PICK db \in ToSet(form.dbs), i \in DOMAIN chosen :
         tasks[n] = Submitted(db, chosen[i], ALL_TASK_STAGES, form.batch_size)
  BY TasksAreChosen
<1> HIDE DEF tasks
<1>2. tasks[n].config = chosen[i] /\ tasks[n].batch_size = form.batch_size
  BY <1>1 DEF Submitted
<1>3. CaseConfigIsValid(chosen[i])
  BY ChosenAreAccepted DEF Accepted
<1>4. StreamingRateIsValid(chosen[i], form.batch_size)
  <2> DEFINE config == chosen[i]
             rate == DefaultNumber(config.custom_case.insert_rate, DefaultInsertRate)
  <2>1. config.case_id \in StreamingTypes => ~(rate < form.batch_size) /\ rate % form.batch_size = 0
    BY DEF validate_streaming_insert_rates
  <2>2. rate \in Int /\ form.batch_size \in Int
    <3>1. chosen \in Seq(CaseConfigs)
      BY ChosenAreAccepted
    <3> HIDE DEF chosen
    <3>2. config.custom_case.insert_rate \in Int
      <4>1. config \in CaseConfigs
        BY <3>1, ItemOfSeq
      <4>2. config.custom_case \in Parameters
        BY <4>1 DEF CaseConfigs
      <4> QED
        BY <4>2 DEF Parameters
    <3> QED
      BY <3>2, FormsAssumption DEF DefaultNumber, DefaultInsertRate
  <2> HIDE DEF config, rate
  <2>3. config.case_id \in StreamingTypes => rate >= form.batch_size /\ rate % form.batch_size = 0
    BY <2>1, <2>2
  <2> QED
    BY <2>3 DEF StreamingRateIsValid, config, rate
<1> QED
  BY <1>2, <1>3, <1>4 DEF TaskIsValid

\* The limit of every case of a task is among those the field is held to.
LEMMA LimitOfCase ==
    ASSUME NEW tasks, NEW n \in DOMAIN tasks, NEW case \in case_of(tasks[n].config),
           ~IsText(case.data), max_search_k(case.data, case.filter) # Unbounded
    PROVE  max_search_k(case.data, case.filter) \in LimitsOf(tasks)
<1> DEFINE limit == max_search_k(case.data, case.filter)
<1>1. limit \in LimitsOfTask(tasks[n])
  BY DEF LimitsOfTask
<1> HIDE DEF limit
<1>2. LimitsOfTask(tasks[n]) \in {LimitsOfTask(tasks[i]) : i \in DOMAIN tasks}
  OBVIOUS
<1>3. limit \in UNION {LimitsOfTask(tasks[i]) : i \in DOMAIN tasks}
  BY <1>1, <1>2
<1>4. limit # Unbounded
  BY DEF limit
<1>5. limit \in LimitsOf(tasks)
  BY <1>3, <1>4 DEF LimitsOf
<1> QED
  BY <1>5 DEF limit

\* A K that the field lets through has its files.
LEMMA FilesAreFound ==
    ASSUME NEW form \in Forms, IsOffered(form), CanBeMade(SelectedCases(form)),
           NEW k \in Ks, MayEnter(k, TasksOfForm(form))
    PROVE  FilesResolve(TasksOfForm(form), k)
<1> DEFINE chosen == SelectedCases(form)
           tasks == TasksOfForm(form)
<1> SUFFICES ASSUME NEW n \in DOMAIN tasks, NEW case \in case_of(tasks[n].config),
                    ~IsText(case.data)
             PROVE  resolve_search_files(case.data, k, case.filter) # {}
  BY DEF FilesResolve
<1>1. PICK db \in ToSet(form.dbs), i \in DOMAIN chosen :
         tasks[n] = Submitted(db, chosen[i], ALL_TASK_STAGES, form.batch_size)
  BY TasksAreChosen
<1> HIDE DEF tasks
<1>2. tasks[n].config = chosen[i]
  BY <1>1 DEF Submitted
<1>3. FilesFound(case.data, case.filter)
  <2>1. PICK item \in ToSet(form.items) : Accepted(chosen[i], item)
    BY ChosenAreAccepted
  <2> QED
    BY <1>2, <2>1 DEF Accepted, Answered
<1> DEFINE limit == max_search_k(case.data, case.filter)
<1>4. limit # Unbounded => k <= limit.bound
  <2>1. limit # Unbounded => limit \in LimitsOf(tasks)
    BY LimitOfCase
  <2> HIDE DEF limit
  <2> QED
    BY <2>1 DEF MayEnter, tasks
<1>5. k \in Nat \ {0}
  BY KsAssumption
<1> QED
  BY <1>3, <1>4, <1>5 DEF FilesFound

\* The K of a configuration is no part of its case.
LEMMA CaseWithoutK ==
    ASSUME NEW c \in CaseConfigs, NEW k
    PROVE  /\ case_of(WithK(c, k)) = case_of(c)
           /\ WithK(c, k).payload_profile = c.payload_profile
BY DEF CaseConfigs, WithK, case_of

\* What is pending of a form: tasks of its databases and of the configurations chosen.
LEMMA PendingIsChosen ==
    ASSUME FormInv, request.by = "page", outcome \in {"pending", "assembled"},
           NEW n \in DOMAIN submitted
    PROVE  LET form == request.form
           IN  /\ form \in Forms /\ IsOffered(form) /\ CanBeMade(SelectedCases(form))
               /\ \E db \in ToSet(form.dbs), i \in DOMAIN SelectedCases(form) :
                     LET config == SelectedCases(form)[i]
                     IN  /\ submitted[n].db = db /\ config \in CaseConfigs
                         /\ case_of(submitted[n].config) = case_of(config)
<1> DEFINE form == request.form
           chosen == SelectedCases(form)
           tasks == TasksOfForm(form)
<1>1. /\ form \in Forms /\ IsOffered(form) /\ CanBeMade(chosen)
      /\ submitted = apply_run_settings(tasks, request.k)
  BY DEF FormInv
<1> HIDE DEF form, chosen, tasks
<1>2. n \in DOMAIN tasks /\ submitted[n] = [tasks[n] EXCEPT !.config.k = request.k]
  BY <1>1 DEF apply_run_settings
<1>3. PICK db \in ToSet(form.dbs), i \in DOMAIN chosen :
         tasks[n] = Submitted(db, chosen[i], ALL_TASK_STAGES, form.batch_size)
  BY <1>1, <1>2, TasksAreChosen DEF tasks, chosen
<1>4. submitted[n].db = db /\ submitted[n].config = WithK(chosen[i], request.k)
  BY <1>2, <1>3 DEF Submitted, WithK
<1>5. chosen[i] \in CaseConfigs
  <2>1. chosen \in Seq(CaseConfigs)
    BY <1>1, ChosenAreAccepted DEF chosen
  <2> QED
    BY <2>1, ItemOfSeq
<1>6. case_of(submitted[n].config) = case_of(chosen[i])
  BY <1>4, <1>5, CaseWithoutK
<1> QED
  BY <1>1, <1>4, <1>5, <1>6 DEF form, chosen

\* The cases of what is pending of a form exist, and are answered by its databases.
LEMMA PendingIsAnswered ==
    ASSUME FormInv, request.by = "page", outcome \in {"pending", "assembled"},
           NEW n \in DOMAIN submitted
    PROVE  /\ case_of(submitted[n].config) # {}
           /\ \A case \in case_of(submitted[n].config) :
                 /\ case.label = "FullTextSearch" => submitted[n].db \in FTS_SUPPORTED_DBS
                 /\ supports_payload_profile(submitted[n].db, case.payload)
<1> DEFINE form == request.form
           chosen == SelectedCases(form)
<1>1. form \in Forms /\ IsOffered(form) /\ CanBeMade(chosen)
  BY PendingIsChosen
<1>2. PICK db \in ToSet(form.dbs), i \in DOMAIN chosen :
         submitted[n].db = db /\ case_of(submitted[n].config) = case_of(chosen[i])
  BY PendingIsChosen
<1>3. PICK item \in ToSet(form.items) :
         /\ Accepted(chosen[i], item)
         /\ chosen[i].payload_profile \in {""} \cup ToSet(form.profiles)
         /\ item.takes # AnyDb => ToSet(form.dbs) \subseteq item.takes
  BY <1>1, ChosenAreAccepted
<1> HIDE DEF form
<1>4. case_of(chosen[i]) # {}
  BY <1>1 DEF CanBeMade
<1> HIDE DEF chosen
<1>5. PICK label \in Labels :
         /\ Answered(case_of(chosen[i]), label, chosen[i].payload_profile)
         /\ label = "FullTextSearch" => item.takes = FTS_SUPPORTED_DBS
  BY <1>3, <1>4 DEF Accepted
<1>6. ASSUME NEW case \in case_of(chosen[i])
      PROVE  /\ case.label = "FullTextSearch" => db \in FTS_SUPPORTED_DBS
             /\ supports_payload_profile(db, case.payload)
  <2>1. /\ case.label = label
        /\ case.payload \in {"ids_only", chosen[i].payload_profile} \ {""}
    BY <1>5 DEF Answered
  <2>2. FTS_SUPPORTED_DBS # AnyDb
    BY DEF FTS_SUPPORTED_DBS, AnyDb
  <2>3. case.label = "FullTextSearch" => db \in FTS_SUPPORTED_DBS
    BY <1>3, <1>5, <2>1, <2>2
  <2>4. case.payload = "ids_only" \/ case.payload \in get_payload_profile_options(form.dbs)
    BY <1>1, <1>3, <2>1 DEF IsOffered
  <2>5. \/ case.payload = "ids_only"
        \/ case.payload = "vector" /\ db \in VECTOR_PAYLOAD_SUPPORTED_DBS
    BY <2>4 DEF get_payload_profile_options
  <2>6. supports_payload_profile(db, case.payload)
    BY <2>5 DEF supports_payload_profile, VECTOR_PAYLOAD_SUPPORTED_DBS
  <2> QED
    BY <2>3, <2>6
<1> QED
  BY <1>2, <1>4, <1>6

\* So it is never refused for a constructor or a missing text search.
LEMMA PendingIsMade ==
    ASSUME FormInv, request.by = "page", outcome = "pending"
    PROVE  CasesExist /\ TextSearchSupported(Tasks)
<1>1. CasesExist
  BY PendingIsAnswered DEF CasesExist
<1>2. ASSUME NEW n \in DOMAIN Tasks, Tasks[n].label \in {"FullTextSearch"}
      PROVE  Tasks[n].supported
  <2> DEFINE case == TheCase(submitted[n])
  <2>1. n \in DOMAIN submitted /\ Tasks[n] = TaskOf(submitted[n], case)
    BY <1>2 DEF Tasks
  <2>2. case \in case_of(submitted[n].config)
    BY <1>1, <2>1 DEF CasesExist, TheCase
  <2> HIDE DEF case
  <2>3. case.label = "FullTextSearch"
    BY <1>2, <2>1 DEF TaskOf
  <2>4. submitted[n].db \in FTS_SUPPORTED_DBS
    BY <2>1, <2>2, <2>3, PendingIsAnswered
  <2>5. supports_full_text_search(submitted[n].db)
    BY <2>4 DEF supports_full_text_search
  <2> QED
    BY <2>1, <2>3, <2>5 DEF TaskOf
<1> QED
  BY <1>1, <1>2 DEF TextSearchSupported, AllSupported

\* A page is never refused, and stops working only over the file of custom datasets.
PageInv ==
    request.by = "page" =>
        /\ outcome \notin {"settings_refused", "ValueError"}
        /\ outcome = "page_raises" => custom_file = "numbers" \/ CustomLabelsAreChosen

\* No step leaves PageInv: what FormInv says of the form excludes every refusal.
LEMMA PageInvStep ==
    ASSUME FormInv, PageInv, [SubmitNext]_submitVars
    PROVE  PageInv'
<1>1. ASSUME NEW entered \in BOOLEAN, outcome = "idle", SaveCustomDataset(entered)
      PROVE  PageInv'
  BY <1>1 DEF SaveCustomDataset, PageInv
<1>2. ASSUME PageCannotOpen PROVE PageInv'
  BY <1>2 DEF PageCannotOpen, CanBeRead, Ask, End, PageInv
<1>3. ASSUME NEW form \in Forms, FillForm(form) PROVE PageInv'
  <2> DEFINE configs == SelectedCases(form)
             tasks == TasksOfForm(form)
  <2>1. /\ IsOffered(form) /\ request' = [by |-> "page", form |-> form]
        /\ outcome' \in {"page_raises", "button_disabled", "filled"}
        /\ outcome' = "page_raises" =>
              \/ ~CanBeMade(configs)
              \/ /\ validate_streaming_insert_rates(configs, form.batch_size)
                 /\ ~AllValid(tasks)
    BY <1>3 DEF FillForm, Ask, End, TasksOfForm
  <2>2. ~CanBeMade(configs) => CustomLabelsAreChosen'
    <3>1. request'.form = form /\ "form" \in DOMAIN request'
      BY <2>1
    <3>2. ~CanBeMade(configs) => \E i \in DOMAIN form.items, j \in 1..1 :
                                   form.items[i].configs[j].custom_case.use_filter
      BY <2>1, LabelsAreChosen
    <3> QED
      BY <3>1, <3>2 DEF CustomLabelsAreChosen
  <2>3. validate_streaming_insert_rates(configs, form.batch_size) => AllValid(tasks)
    BY <2>1, FormIsValid
  <2> HIDE DEF configs, tasks
  <2> QED
    BY <2>1, <2>2, <2>3 DEF PageInv
<1>4. ASSUME NEW command \in Commands, GiveCommand(command) PROVE PageInv'
  <2>1. request'.by = "command"
    BY <1>4 DEF GiveCommand, Ask
  <2> QED
    BY <2>1 DEF PageInv
<1>5. ASSUME NEW tasks \in Posts, PostTasks(tasks) PROVE PageInv'
  <2>1. request'.by = "service"
    BY <1>5 DEF PostTasks, Ask
  <2> QED
    BY <2>1 DEF PageInv
<1>6. ASSUME NEW k \in Ks, PressRun(k) PROVE PageInv'
  <2>1. outcome = "filled" /\ MayEnter(k, submitted)
    BY <1>6 DEF PressRun
  <2>2. FilesResolve(submitted, k)
    BY <2>1, FilesAreFound DEF FormInv
  <2>3. outcome' = "pending"
    BY <1>6, <2>2 DEF PressRun
  <2> QED
    BY <2>3 DEF PageInv
<1>7. ASSUME Assemble PROVE PageInv'
  BY <1>7 DEF Assemble, Conclude, PageInv
<1>8. ASSUME RefuseCase PROVE PageInv'
  <2>1. request.by # "page" /\ request' = request
    BY <1>8, PendingIsMade DEF RefuseCase, Conclude
  <2> QED
    BY <2>1 DEF PageInv
<1>9. ASSUME RefuseFilter PROVE PageInv'
  BY <1>9 DEF RefuseFilter, Conclude, PageInv
<1>10. ASSUME UNCHANGED submitVars PROVE PageInv'
  BY <1>10 DEF submitVars, PageInv, CustomLabelsAreChosen
<1> QED
  BY <1>1, <1>2, <1>3, <1>4, <1>5, <1>6, <1>7, <1>8, <1>9, <1>10 DEF SubmitNext, Request

\* What the page offers is accepted: no form that the page lets through, with a K that its
\* field lets through, is refused by the settings or by a constructor; what then runs is
\* answered by databases that can; and the page stops working only over the file of
\* custom datasets (dbCaseConfigs.py, submitTask.py, cases.py).
THEOREM OffersAreAccepted == SubmitSpec => []OfferedIsAccepted
<1>1. SubmitInit => FormInv /\ PageInv
  BY DEF SubmitInit, NoRequest, FormInv, PageInv
<1>2. FormInv /\ [SubmitNext]_submitVars => FormInv'
  BY FormInvStep
<1>3. FormInv /\ PageInv /\ [SubmitNext]_submitVars => PageInv'
  BY PageInvStep
<1>4. ASSUME SubmitInv, FormInv, PageInv PROVE OfferedIsAccepted
  <2>1. ASSUME request.by = "page", outcome = "assembled", NEW j \in DOMAIN case_runners
        PROVE  supports_payload_profile(case_runners[j].db, case_runners[j].case.payload)
    <3>1. PICK n \in DOMAIN submitted :
             /\ case_runners[j].db = submitted[n].db
             /\ case_runners[j].case \in case_of(submitted[n].config)
      BY <1>4, <2>1, RunnersAreTasks
    <3> QED
      BY <1>4, <2>1, <3>1, PendingIsAnswered
  <2> QED
    BY <1>4, <2>1 DEF PageInv, OfferedIsAccepted
<1> QED
  BY <1>1, <1>2, <1>3, <1>4, SubmissionInvariant, PTL DEF SubmitSpec
===============================================================================
