------------------------ MODULE StreamingCaseProofs ------------------------
(***************************************************************************)
(* Proofs about StreamingCase: for any dataset, rate, list of stages and   *)
(* bound on the insertions under way, with failing batches and searches.   *)
(***************************************************************************)
EXTENDS StreamingCase, FiniteSetTheorems, TLAPS

USE VolumeAssumption, PendingAssumption, FlagsAssumption

-----------------------------------------------------------------------------
(* The inductive invariant                                                 *)

\* Where the inserter has not failed, and where the searcher still counts.
Healthy == ins \in {"init", "submit", "check", "drain", "ended"}
Counting == searcher \in {"wait", "search"}

\* What is submitted is under way or inserted, and at the end all of it.
InsertInv ==
    /\ ins \in {"drain", "ended"} => submitted = Volume
    /\ ins = "ended" => executing = {}
    /\ Healthy => \A b \in 1..submitted : b \in executing \/ b \in inserted

\* Only the last signal is one of an end, and nothing follows it.
QueueInv ==
    /\ \A i \in 1..Len(q) : q[i] = "False" \/ i = Len(q)
    /\ \A i \in 1..Len(q) :
           /\ q[i] = None => ins \in {"stopping", "raised"}
           /\ q[i] = "True" => ins \in {"drain", "ended"} /\ executing = {}

\* The signals of progress in the queue.
Progress == IF q # <<>> /\ q[Len(q)] # "False" THEN Len(q) - 1 ELSE Len(q)

CountInv ==
    /\ Counting /\ Healthy
           => (start + Len(q)) * Rate + sigIdx = submitted - Cardinality(executing)
    /\ Counting => (start + Progress) * Rate <= Cardinality(inserted)

StageInv ==
    /\ searcher = "search" => stage <= Len(Stages) /\ start = TargetBatch(stage)
    /\ AtStage => start <= TargetBatch(stage)
    /\ searcher # "gaveup" => /\ Len(result) = stage - 1
                              /\ \A i \in 1..Len(result) : result[i] = Perc(i)
    /\ searcher = "ended" => stage = Len(Stages) + 1
    /\ searcher = "gaveup" => ins \in {"stopping", "raised"} \/ WaitsForTheEnd

MainInv ==
    /\ main \in {"stream", "end", "optimize", "after"} => ins = "ended"
    /\ main \in {"end", "optimize", "after"} => searcher \in {"ended", "gaveup"}
    /\ main # "returned" => report = <<>>
    /\ EndMark \in Searched => searcher \in {"ended", "gaveup"}
    /\ AllStagesSearched

StreamInv == TypeOK /\ InsertInv /\ QueueInv /\ CountInv /\ StageInv /\ MainInv
-----------------------------------------------------------------------------
(* Arithmetic                                                              *)

LEMMA ProductsKeepOrder ==
    ASSUME NEW a \in Nat, NEW b \in Nat, NEW m \in Nat, a <= b
    PROVE  m * a <= m * b /\ a * m <= b * m /\ m * a \in Nat /\ a * m \in Nat
OBVIOUS

\* A number of whole rounds, and what is left of one.
LEMMA WholeRounds ==
    ASSUME NEW n \in Nat, NEW m \in Nat \ {0}
    PROVE  \E k \in Nat, r \in 0..(m - 1) : k = n \div m /\ r = n % m /\ n = k * m + r
<1>1. n \div m \in Nat /\ n % m \in 0..(m - 1)
  OBVIOUS
<1>2. PICK k \in Nat, r \in 0..(m - 1) : k = n \div m /\ r = n % m
  BY <1>1
<1>3. n = k * m + r
  BY <1>2
<1>4. QED
  BY <1>2, <1>3

LEMMA RoundsOf ==
    ASSUME NEW n \in Nat, NEW m \in Nat \ {0}, NEW k \in Nat, NEW r \in 0..(m - 1),
           k * m + r = n
    PROVE  n \div m = k
<1> DEFINE d == n \div m
<1>1. PICK x \in 0..(m - 1) : d \in Nat /\ n = d * m + x
  BY WholeRounds
<1> HIDE DEF d
<1>2. d \in Nat
  BY <1>1
<1>3. PICK a \in Nat, b \in Nat : a = k * m /\ b = d * m
  BY <1>2, ProductsKeepOrder
<1>4. a + r = b + x
  BY <1>1, <1>3
<1>5. ~(d >= k + 1)
  <2>1. (k + 1) * m = a + m
    BY <1>3
  <2>2. d >= k + 1 => (k + 1) * m <= b
    BY <1>1, <1>3, ProductsKeepOrder
  <2>3. d >= k + 1 => a + m <= b
    BY <2>1, <2>2
  <2>4. QED
    BY <1>4, <2>3
<1>6. ~(k >= d + 1)
  <2>1. (d + 1) * m = b + m
    BY <1>1, <1>3
  <2>2. k >= d + 1 => (d + 1) * m <= a
    BY <1>1, <1>3, ProductsKeepOrder
  <2>3. k >= d + 1 => b + m <= a
    BY <2>1, <2>2
  <2>4. QED
    BY <1>4, <2>3
<1>7. d = k
  BY <1>1, <1>5, <1>6
<1>8. QED
  BY <1>7 DEF d

LEMMA ElementsOf ==
    ASSUME NEW S, NEW s \in Seq(S)
    PROVE  Len(s) \in Nat /\ DOMAIN s = 1..Len(s) /\ \A i \in 1..Len(s) : s[i] \in S
OBVIOUS

\* The stages are percentages, in order.
LEMMA StageType ==
    /\ Len(Stages) \in Nat /\ DOMAIN Stages = 1..Len(Stages)
    /\ \A i \in 1..Len(Stages) : Stages[i] \in 0..99
    /\ \A i, j \in 1..Len(Stages) : i <= j => Stages[i] <= Stages[j]
<1>1. Stages \in Seq(0..99)
  BY StagesAssumption
<1>2. Len(Stages) \in Nat /\ DOMAIN Stages = 1..Len(Stages)
      /\ \A i \in 1..Len(Stages) : Stages[i] \in 0..99
  BY <1>1, ElementsOf, Zenon
<1>3. \A i, j \in DOMAIN Stages : i <= j => Stages[i] <= Stages[j]
  BY StagesAssumption
<1>4. QED
  BY <1>2, <1>3

LEMMA TotalType == TotalBatch \in Nat
BY WholeRounds DEF TotalBatch

\* A share rounded down is one less than a whole share that is not nothing.
LEMMA RoundedType ==
    ASSUME NEW n \in Nat, NEW p \in 0..99, <<n, p>> \in RoundedDown
    PROVE  n * p > 0 /\ (n * p) % 100 = 0
<1>1. \A r \in RoundedDown : r[1] * r[2] > 0 /\ (r[1] * r[2]) % 100 = 0
  BY RoundingAssumption
<1>2. <<n, p>>[1] = n /\ <<n, p>>[2] = p
  OBVIOUS
<1>3. QED
  BY <1>1, <1>2

\* A share is one of the numbers up to the whole, and less than it when it counts.
LEMMA ShareType ==
    ASSUME NEW n \in Nat, NEW p \in 0..99
    PROVE  Share(n, p) \in 0..n /\ (n > 0 => Share(n, p) < n)
<1>1. PICK x \in Nat : x = n * p
  OBVIOUS
<1>2. p + 1 \in Nat /\ p + 1 <= 100 /\ p \in Nat /\ 100 \in Nat
  OBVIOUS
<1>3. n * (p + 1) <= n * 100 /\ n * (p + 1) = x + n
  BY <1>1, <1>2, ProductsKeepOrder
<1>4. x + n <= 100 * n
  BY <1>3
<1>5. PICK k \in Nat, r \in 0..99 : k = x \div 100 /\ r = x % 100 /\ x = k * 100 + r
  BY WholeRounds
<1>6. k \in 0..n /\ (n > 0 => k < n)
  BY <1>4, <1>5
<1>7. <<n, p>> \in RoundedDown => k > 0
  <2>1. <<n, p>> \in RoundedDown => x > 0 /\ x % 100 = 0
    BY <1>1, RoundedType
  <2>2. QED
    BY <1>5, <2>1
<1>8. Share(n, p) = k - (IF <<n, p>> \in RoundedDown THEN 1 ELSE 0)
  BY <1>1, <1>5 DEF Share
<1>9. CASE <<n, p>> \in RoundedDown
  <2>1. Share(n, p) = k - 1 /\ k > 0
    BY <1>7, <1>8, <1>9
  <2>2. QED
    BY <1>6, <2>1
<1>10. CASE <<n, p>> \notin RoundedDown
  <2>1. Share(n, p) = k
    BY <1>6, <1>8, <1>10
  <2>2. QED
    BY <1>6, <2>1
<1>11. QED
  BY <1>9, <1>10

\* A larger stage has no smaller share, rounded down or not.
LEMMA ShareOrder ==
    ASSUME NEW n \in Nat, NEW p1 \in 0..99, NEW p2 \in 0..99, p1 <= p2
    PROVE  Share(n, p1) <= Share(n, p2)
<1>1. PICK x \in Nat, y \in Nat : x = n * p1 /\ y = n * p2
  OBVIOUS
<1>2. x <= y
  BY <1>1, ProductsKeepOrder
<1>3. PICK k \in Nat, r \in 0..99 : k = x \div 100 /\ r = x % 100 /\ x = k * 100 + r
  BY WholeRounds
<1>4. PICK l \in Nat, s \in 0..99 : l = y \div 100 /\ s = y % 100 /\ y = l * 100 + s
  BY WholeRounds
<1>5. k <= l
  BY <1>2, <1>3, <1>4
<1>6. Share(n, p1) <= k
  <2>1. Share(n, p1) = k - (IF <<n, p1>> \in RoundedDown THEN 1 ELSE 0)
    BY <1>1, <1>3 DEF Share
  <2>2. QED
    BY <2>1
<1>7. CASE <<n, p2>> \notin RoundedDown
  <2>1. Share(n, p2) = l
    BY <1>1, <1>4, <1>7 DEF Share
  <2>2. Share(n, p1) \in 0..n
    BY ONLY n \in Nat, p1 \in 0..99, ShareType
  <2>3. QED
    BY <1>5, <1>6, <2>1, <2>2
<1>8. CASE <<n, p2>> \in RoundedDown
  <2>1. Share(n, p2) = l - 1
    BY <1>1, <1>4, <1>8 DEF Share
  <2>2. s = 0 /\ y > 0
    BY <1>1, <1>4, <1>8, RoundedType
  <2>3. CASE p1 = p2
    BY <2>1, <2>3
  <2>4. CASE p1 < p2
    <3>1. n > 0
      BY <1>1, <2>2
    <3>2. p1 + 1 \in Nat /\ p1 + 1 <= p2
      BY <2>4
    <3>3. n * (p1 + 1) <= y /\ n * (p1 + 1) = x + n
      BY <1>1, <3>2, ProductsKeepOrder
    <3>4. k <= l - 1
      BY <1>3, <1>4, <2>2, <3>1, <3>3
    <3>5. Share(n, p1) \in 0..n
      BY ONLY n \in Nat, p1 \in 0..99, ShareType
    <3>6. QED
      BY <1>6, <2>1, <3>4, <3>5
  <2>5. QED
    BY <2>3, <2>4
<1>9. QED
  BY <1>7, <1>8

\* The rounds of a stage are among those of the dataset, and no fewer for a later one.
LEMMA TargetType ==
    /\ \A i \in 1..Len(Stages) : TargetBatch(i) \in 0..TotalBatch
    /\ \A i, j \in 1..Len(Stages) : i <= j => TargetBatch(i) <= TargetBatch(j)
<1>1. ASSUME NEW i \in 1..Len(Stages) PROVE TargetBatch(i) \in 0..TotalBatch
  BY StageType, TotalType, ShareType DEF TargetBatch
<1>2. ASSUME NEW i \in 1..Len(Stages), NEW j \in 1..Len(Stages), i <= j
      PROVE  TargetBatch(i) <= TargetBatch(j)
  <2>1. PICK x \in 0..99, y \in 0..99 : x = Stages[i] /\ y = Stages[j] /\ x <= y
    BY <1>2, StageType
  <2>2. Share(TotalBatch, x) <= Share(TotalBatch, y)
    BY <2>1, TotalType, ShareOrder
  <2>3. QED
    BY <2>1, <2>2 DEF TargetBatch
<1>3. QED
  BY <1>1, <1>2

\* What a stage is recorded as.
LEMMA PercType == \A i \in 1..Len(Stages) : Perc(i) \in 0..99
<1> TAKE i \in 1..Len(Stages)
<1>1. PICK x \in 0..99 : x = Stages[i]
  BY StageType
<1>2. 100 \in Nat /\ 100 > 0
  OBVIOUS
<1>3. Share(100, x) \in 0..100 /\ Share(100, x) < 100
  BY <1>2, ShareType
<1>4. QED
  BY <1>1, <1>3 DEF Perc

LEMMA MinOfTwo ==
    ASSUME NEW a \in Int, NEW b \in Int
    PROVE  Min({a, b}) = IF a <= b THEN a ELSE b
BY DEF Min

-----------------------------------------------------------------------------
(* Types                                                                   *)

LEMMA SignalsType ==
    ASSUME NEW n \in Nat, NEW last \in BOOLEAN
    PROVE  SignalsFor(n, last) \in Seq(Signals) /\ Len(SignalsFor(n, last)) = n
BY DEF SignalsFor, Signals

\* The batches under way are some of those submitted.
LEMMA ExecutingType ==
    ASSUME TypeOK
    PROVE  /\ IsFiniteSet(executing) /\ Cardinality(executing) \in 0..submitted
           /\ IsFiniteSet(inserted) /\ Cardinality(inserted) \in Nat
<1>1. IsFiniteSet(1..submitted) /\ Cardinality(1..submitted) = submitted
  <2>1. submitted \in Nat /\ 1 \in Int
    BY DEF TypeOK
  <2>2. QED
    BY <2>1, FS_Interval
<1>2. executing \subseteq 1..submitted /\ inserted \subseteq 1..submitted
  BY DEF TypeOK
<1>3. IsFiniteSet(executing) /\ Cardinality(executing) <= submitted /\ IsFiniteSet(inserted)
  BY <1>1, <1>2, FS_Subset
<1>4. QED
  BY <1>3, FS_CardinalityType DEF TypeOK

\* What the inserter submits in a round comes after what it has, within the dataset.
LEMMA SubmitType ==
    ASSUME TypeOK, NEW n \in 0..(Volume - submitted), Submits(n)
    PROVE  /\ submitted' \in 0..Volume /\ submitted <= submitted'
           /\ executing' \subseteq 1..submitted'
           /\ inserted' \subseteq 1..submitted'
           /\ broken' \subseteq (1..submitted') \ inserted'
BY DEF Submits, TypeOK
-----------------------------------------------------------------------------
(* Counting                                                                *)

\* The rest of what is submitted is inserted: so many batches at least.
LEMMA CountInserted ==
    ASSUME NEW n \in Nat, NEW E \in SUBSET (1..n), NEW I \in SUBSET (1..n),
           \A b \in 1..n : b \in E \/ b \in I
    PROVE  n - Cardinality(E) <= Cardinality(I)
<1>1. IsFiniteSet(1..n) /\ Cardinality(1..n) = n
  BY FS_Interval
<1>2. IsFiniteSet(E) /\ IsFiniteSet(I)
  BY <1>1, FS_Subset
<1>3. Cardinality(E \cup I) = Cardinality(E) + Cardinality(I) - Cardinality(E \cap I)
  BY <1>2, FS_Union
<1>4. E \cup I = 1..n
  OBVIOUS
<1>5. IsFiniteSet(E \cap I)
  BY <1>2, FS_Subset
<1>6. Cardinality(E) \in Nat /\ Cardinality(I) \in Nat /\ Cardinality(E \cap I) \in Nat
  BY <1>2, <1>5, FS_CardinalityType
<1>7. n = Cardinality(E) + Cardinality(I) - Cardinality(E \cap I)
  BY <1>1, <1>3, <1>4
<1>8. QED
  BY <1>6, <1>7

\* Batches that come after those under way are that many more.
LEMMA CountMore ==
    ASSUME NEW s \in Nat, NEW n \in Nat, NEW E \in SUBSET (1..s)
    PROVE  Cardinality(E \cup (s + 1 .. s + n)) = Cardinality(E) + n
<1>1. /\ IsFiniteSet(1..s)
      /\ IsFiniteSet(s + 1 .. s + n) /\ Cardinality(s + 1 .. s + n) = n
  <2>1. 1 \in Int /\ s \in Int /\ s + 1 \in Int /\ s + n \in Int
    OBVIOUS
  <2>2. QED
    BY <2>1, FS_Interval
<1>2. IsFiniteSet(E)
  BY <1>1, FS_Subset
<1>3. E \cap (s + 1 .. s + n) = {}
  OBVIOUS
<1>4. Cardinality({}) = 0 /\ Cardinality(E) \in Nat
  BY <1>2, FS_EmptySet, FS_CardinalityType
<1> DEFINE M == s + 1 .. s + n
<1>5. Cardinality(E \cup M) = Cardinality(E) + Cardinality(M) - Cardinality(E \cap M)
  BY <1>1, <1>2, FS_Union
<1>6. Cardinality(E \cap M) = 0 /\ Cardinality(M) = n
  BY <1>1, <1>3, <1>4
<1> HIDE DEF M
<1>7. Cardinality(E \cup M) = Cardinality(E) + n
  BY <1>4, <1>5, <1>6
<1>8. QED
  BY <1>7 DEF M

\* Those that are forgotten are that many fewer.
LEMMA CountFewer ==
    ASSUME NEW E, IsFiniteSet(E), NEW D \in SUBSET E
    PROVE  /\ Cardinality(E \ D) = Cardinality(E) - Cardinality(D)
           /\ Cardinality(D) \in Nat /\ Cardinality(E) \in Nat
<1>1. IsFiniteSet(D) /\ IsFiniteSet(E \ D)
  BY FS_Subset
<1>2. Cardinality(E) \in Nat /\ Cardinality(D) \in Nat /\ Cardinality(E \ D) \in Nat
  BY <1>1, FS_CardinalityType
<1>3. (E \ D) \cup D = E /\ (E \ D) \cap D = {} /\ Cardinality({}) = 0
  BY FS_EmptySet
<1>4. Cardinality((E \ D) \cup D) = Cardinality(E \ D) + Cardinality(D) - Cardinality((E \ D) \cap D)
  BY <1>1, FS_Union
<1>5. Cardinality(E) = Cardinality(E \ D) + Cardinality(D) - 0
  BY <1>3, <1>4
<1>6. QED
  BY <1>2, <1>5

-----------------------------------------------------------------------------
(* The inserter                                                            *)

\* The inserter leaves the searcher and the main process as they are.
LEMMA OthersKept ==
    ASSUME StageInv, MainInv, UNCHANGED <<searching, main, report>>, ins # "ended",
           ins \in {"stopping", "raised"} => ins' \in {"stopping", "raised"}
    PROVE  StageInv' /\ MainInv'
<1>1. UNCHANGED <<searcher, stage, start, result, main, report>>
  BY DEF searching
<1>2. StageInv'
  BY <1>1 DEF StageInv, AtStage, WaitsForTheEnd
<1>3. MainInv'
  BY <1>1 DEF MainInv, AllStagesSearched, Searched, WaitsForTheEnd
<1>4. QED
  BY <1>2, <1>3

\* A step of the inserter that only goes on.
LEMMA GoOnStep ==
    ASSUME StreamInv, Open \/ OpenFails \/ Stop \/ EndInsert
    PROVE  StreamInv'
<1> USE DEF StreamInv
<1>1. UNCHANGED <<submitted, executing, sigIdx, inserted, broken, q, searching, main, report>>
  BY DEF Open, OpenFails, Stop, EndInsert
<1>2. UNCHANGED <<searcher, stage, start, result, main, report>>
  BY <1>1 DEF searching
<1>3. /\ ins' \in Inserters /\ ins \in {"init", "stopping", "aborting", "drain"}
      /\ ins = "init" => ins' \in {"submit", "aborted"}
      /\ ins = "stopping" => ins' = "raised"
      /\ ins = "aborting" => ins' = "aborted"
      /\ ins = "drain" => ins' = "ended" /\ executing = {}
  BY DEF Open, OpenFails, Stop, EndInsert, Inserters
<1>4. TypeOK'
  BY <1>1, <1>2, <1>3 DEF TypeOK
<1>5. InsertInv'
  BY <1>1, <1>3 DEF InsertInv, Healthy
<1>6. QueueInv'
  BY <1>1, <1>3 DEF QueueInv
<1>7. CountInv'
  BY <1>1, <1>2, <1>3 DEF CountInv, Healthy, Counting, Progress
<1>8. StageInv' /\ MainInv'
  BY <1>1, <1>3, OthersKept
<1>9. QED
  BY <1>4, <1>5, <1>6, <1>7, <1>8

\* A round of submissions, whole, of what is left, skipped, or broken off.
LEMMA SubmitStep ==
    ASSUME StreamInv, Submit \/ SkipRound \/ EndOfDataset \/ ReadFails
    PROVE  StreamInv'
<1> USE DEF StreamInv
<1>1. PICK n \in 0..(Volume - submitted) :
          /\ Submits(n)
          /\ ins = "submit" /\ ins' \in {"check", "drain", "aborting"}
          /\ ins' = "drain" => submitted + n = Volume
  <2>1. submitted \in Nat /\ submitted <= Volume
    BY DEF TypeOK
  <2>2. CASE Submit
    <3>1. Min({Rate, Volume - submitted}) \in 0..(Volume - submitted)
      BY <2>1, MinOfTwo
    <3>2. QED
      BY <2>2, <3>1 DEF Submit
  <2>3. CASE SkipRound \/ EndOfDataset
    BY <2>1, <2>3 DEF SkipRound, EndOfDataset
  <2>4. CASE ReadFails
    <3>1. Min({Rate - 1, Volume - submitted}) \in 0..(Volume - submitted)
      BY <2>1, MinOfTwo
    <3>2. PICK n \in 0 .. Min({Rate - 1, Volume - submitted}) : Submits(n)
      BY <2>4 DEF ReadFails
    <3>3. n \in 0..(Volume - submitted)
      BY <2>1, <3>1, <3>2
    <3>4. QED
      BY <2>4, <3>2, <3>3 DEF ReadFails
  <2>5. QED
    BY <2>2, <2>3, <2>4
<1>2. /\ submitted \in Nat /\ submitted' = submitted + n /\ n \in Nat
      /\ executing' = executing \cup (submitted + 1 .. submitted + n)
      /\ UNCHANGED <<sigIdx, inserted, broken, q, searching, main, report>>
  BY <1>1 DEF Submits, TypeOK
<1>3. UNCHANGED <<searcher, stage, start, result>>
  BY <1>2 DEF searching
<1>4. TypeOK'
  BY <1>1, <1>2, <1>3, SubmitType DEF TypeOK, Inserters
<1>5. InsertInv'
  BY <1>1, <1>2 DEF InsertInv, Healthy
<1>6. QueueInv'
  BY <1>1, <1>2 DEF QueueInv
<1>7. CountInv'
  <2>1. Cardinality(executing') = Cardinality(executing) + n
    BY <1>2, CountMore DEF TypeOK
  <2>2. submitted' - Cardinality(executing') = submitted - Cardinality(executing)
    BY <1>2, <2>1, ExecutingType
  <2>3. QED
    BY <1>1, <1>2, <1>3, <2>2 DEF CountInv, Healthy, Counting, Progress
<1>8. StageInv' /\ MainInv'
  BY <1>1, <1>2, OthersKept
<1>9. QED
  BY <1>4, <1>5, <1>6, <1>7, <1>8

LEMMA InsertStep ==
    ASSUME StreamInv, NEW b \in Batches, Insert(b)
    PROVE  StreamInv'
<1> USE DEF StreamInv
<1>1. UNCHANGED <<ins, submitted, executing, sigIdx, q, searcher, stage, start, result,
                  main, report>>
  BY DEF Insert, inserter, searching
<1>2. /\ b \in executing /\ b \in 1..submitted /\ b \notin inserted /\ b \notin broken
      /\ \/ inserted' = inserted \cup {b} /\ broken' = broken
         \/ broken' = broken \cup {b} /\ inserted' = inserted
  BY DEF Insert, Settled, TypeOK
<1>3. TypeOK'
  <2>1. inserted' \subseteq 1..submitted /\ broken' \subseteq (1..submitted) \ inserted'
    BY <1>2 DEF TypeOK
  <2>2. QED
    BY <1>1, <2>1 DEF TypeOK
<1>4. InsertInv'
  BY <1>1, <1>2 DEF InsertInv, Healthy
<1>5. QueueInv'
  BY <1>1 DEF QueueInv
<1>6. CountInv'
  <2>1. Cardinality(inserted') \in Nat /\ Cardinality(inserted) <= Cardinality(inserted')
    <3>1. IsFiniteSet(inserted) /\ Cardinality(inserted) \in Nat
      BY ExecutingType
    <3>2. CASE inserted' = inserted \cup {b}
      <4>1. Cardinality(inserted \cup {b}) = Cardinality(inserted) + 1
        BY <1>2, <3>1, FS_AddElement
      <4>2. QED
        BY <3>1, <3>2, <4>1
    <3>3. CASE inserted' = inserted
      BY <3>1, <3>3
    <3>4. QED
      BY <1>2, <3>2, <3>3
  <2>2. Counting => (start + Progress) * Rate <= Cardinality(inserted')
    <3>1. Progress \in Nat /\ start \in Nat
      <4>1. Len(q) \in Nat /\ (q # <<>> => Len(q) >= 1)
        BY DEF TypeOK
      <4>2. QED
        BY <4>1, TotalType DEF Progress, TypeOK
    <3>2. PICK x \in Nat : x = (start + Progress) * Rate
      BY <3>1
    <3>3. Counting => x <= Cardinality(inserted)
      BY <3>2 DEF CountInv
    <3>4. QED
      BY <2>1, <3>2, <3>3, ExecutingType
  <2>3. QED
    BY <1>1, <2>2 DEF CountInv, Healthy, Counting, Progress
<1>7. StageInv' /\ MainInv'
  BY <1>1 DEF StageInv, MainInv, AtStage, AllStagesSearched, Searched, WaitsForTheEnd
<1>8. QED
  BY <1>3, <1>4, <1>5, <1>6, <1>7
LEMMA ProgressType ==
    ASSUME NEW s \in Seq(Signals),
           NEW n, n = IF s # <<>> /\ s[Len(s)] # "False" THEN Len(s) - 1 ELSE Len(s)
    PROVE  n \in Nat /\ n <= Len(s)
<1>1. Len(s) \in Nat /\ (s # <<>> => Len(s) >= 1)
  OBVIOUS
<1>2. QED
  BY <1>1

\* Before the last look at the futures the queue has signals of progress only.
LEMMA OnlyProgress ==
    ASSUME StreamInv, Looking
    PROVE  /\ \A i \in 1..Len(q) : q[i] = "False"
           /\ Progress = Len(q) /\ Len(q) \in Nat
<1> USE DEF StreamInv
<1>1. q \in Seq(Signals) /\ Len(q) \in Nat
  BY DEF TypeOK
<1>2. \A i \in 1..Len(q) : q[i] \in Signals
  BY <1>1
<1>3. ins \in {"check", "drain"} /\ (ins = "drain" => executing # {})
  BY DEF Looking
<1>4. \A i \in 1..Len(q) : q[i] = "False"
  BY <1>2, <1>3 DEF QueueInv, Signals
<1>5. q # <<>> => Len(q) \in 1..Len(q)
  BY <1>1
<1>6. QED
  BY <1>1, <1>4, <1>5 DEF Progress

\* The futures that are done are told of, a signal for each Rate of them.
LEMMA TellStep ==
    ASSUME StreamInv, CheckAndSendSignal
    PROVE  StreamInv'
<1> USE DEF StreamInv
<1> DEFINE done == executing \cap Settled
           told == sigIdx + Cardinality(done)
           last == ins = "drain" /\ executing \subseteq done
<1>1. /\ Looking /\ ins \in {"check", "drain"}
      /\ ins' = IF ins = "check" THEN "submit" ELSE ins
      /\ executing' = executing \ done /\ done \subseteq inserted
      /\ UNCHANGED <<submitted, inserted, broken, searching, main, report>>
      /\ sigIdx' = told % Rate
      /\ q' = q \o SignalsFor(told \div Rate, last)
  BY DEF CheckAndSendSignal, Tell, Looking, Resumes, Settled
<1>2. UNCHANGED <<searcher, stage, start, result>>
  BY <1>1 DEF searching
<1>3. /\ Cardinality(executing') = Cardinality(executing) - Cardinality(done)
      /\ Cardinality(done) \in Nat /\ Cardinality(executing) \in Nat
  BY <1>1, ExecutingType, CountFewer
<1>4. told \in Nat
  BY <1>3 DEF TypeOK
<1>5. PICK k \in Nat, r \in 0..(Rate - 1) :
          k = told \div Rate /\ r = told % Rate /\ told = k * Rate + r
  <2> HIDE DEF told
  <2>1. QED
    BY <1>4, WholeRounds
<1>6. q' = q \o SignalsFor(k, last) /\ sigIdx' = r
  BY <1>1, <1>5
<1>7. last \in BOOLEAN
  OBVIOUS
<1>8. SignalsFor(k, last) \in Seq(Signals) /\ Len(SignalsFor(k, last)) = k
  BY <1>7, SignalsType
<1>9. q \in Seq(Signals) /\ Len(q) \in Nat
  BY DEF TypeOK
<1>10. /\ q' \in Seq(Signals) /\ Len(q') = Len(q) + k
       /\ \A i \in 1..Len(q) : q'[i] = q[i]
       /\ \A i \in Len(q) + 1 .. Len(q) + k : q'[i] = SignalsFor(k, last)[i - Len(q)]
  <2> DEFINE s == SignalsFor(k, last)
  <2> HIDE DEF s, last
  <2>1. s \in Seq(Signals) /\ Len(s) = k
    BY <1>8 DEF s
  <2>2. q' = q \o s
    BY <1>6 DEF s
  <2>3. q' \in Seq(Signals) /\ Len(q') = Len(q) + k
    BY <1>9, <2>1, <2>2
  <2>4. /\ \A i \in 1..Len(q) : q'[i] = q[i]
        /\ \A i \in Len(q) + 1 .. Len(q) + k : q'[i] = s[i - Len(q)]
    BY <1>9, <2>1, <2>2
  <2>5. QED
    BY <2>3, <2>4 DEF s
<1>11. ASSUME NEW i \in 1..Len(q')
       PROVE  q'[i] = "False" \/ (q'[i] = "True" /\ i = Len(q') /\ last)
  <2>1. CASE i \in 1..Len(q)
    BY <1>1, <1>10, <2>1, OnlyProgress
  <2>2. CASE i \in Len(q) + 1 .. Len(q) + k
    <3>1. i - Len(q) \in 1..k /\ q'[i] = SignalsFor(k, last)[i - Len(q)]
      BY <1>9, <1>10, <2>2
    <3>2. q'[i] = IF last /\ i - Len(q) = k THEN "True" ELSE "False"
      BY <3>1 DEF SignalsFor
    <3>3. i - Len(q) = k => i = Len(q')
      BY <1>9, <1>10, <2>2
    <3>4. QED
      BY <3>2, <3>3
  <2>3. QED
    BY <1>9, <1>10, <2>1, <2>2
<1>12. TypeOK'
  <2>1. executing' \subseteq 1..submitted /\ sigIdx' \in 0..(Rate - 1)
    BY <1>1, <1>6 DEF TypeOK
  <2>2. ins' \in Inserters
    BY <1>1 DEF Inserters
  <2> HIDE DEF done, told, last
  <2>3. QED
    BY <1>1, <1>2, <1>10, <2>1, <2>2 DEF TypeOK
<1>13. InsertInv'
  <2>1. ins' \in {"submit", "drain"} /\ (ins' = "drain" => ins = "drain")
    BY <1>1
  <2>2. \A b \in 1..submitted : b \in executing' \/ b \in inserted
    BY <1>1 DEF InsertInv, Healthy
  <2> HIDE DEF done, told, last
  <2>3. QED
    BY <1>1, <2>1, <2>2 DEF InsertInv
<1>14. QueueInv'
  <2>1. last => ins' = "drain" /\ executing' = {}
    BY <1>1
  <2> HIDE DEF done, told, last
  <2>2. QED
    BY <1>11, <2>1 DEF QueueInv, None
<1>15. CountInv'
  <2>1. start \in Nat /\ sigIdx \in Nat /\ submitted \in Nat
    BY TotalType DEF TypeOK
  <2>2. PICK x \in Nat, y \in Nat : x = (start + Len(q)) * Rate /\ y = k * Rate
    BY <1>9, <2>1
  <2>3. (start + Len(q')) * Rate = x + y
    <3>1. start + Len(q') = (start + Len(q)) + k
      BY <1>9, <1>10, <2>1
    <3>2. ((start + Len(q)) + k) * Rate = (start + Len(q)) * Rate + k * Rate
      BY <1>9, <2>1
    <3>3. QED
      BY <2>2, <3>1, <3>2
  <2>4. Counting => x + sigIdx = submitted - Cardinality(executing)
    BY <1>1, <2>2 DEF CountInv, Healthy
  <2>5. sigIdx + Cardinality(done) = y + r
    BY <1>5, <2>2
  <2> HIDE DEF done, told, last
  <2>6. Counting => (x + y) + sigIdx' = submitted - Cardinality(executing')
    <3> SUFFICES ASSUME Counting
                 PROVE  (x + y) + sigIdx' = submitted - Cardinality(executing')
      OBVIOUS
    <3>1. PICK a \in Nat, b \in Nat : a = Cardinality(executing) /\ b = Cardinality(done)
      BY <1>3
    <3>2. Cardinality(executing') = a - b
      BY <1>3, <3>1
    <3>3. x + sigIdx = submitted - a
      BY <2>4, <3>1
    <3>4. sigIdx + b = y + r
      BY <2>5, <3>1
    <3>5. sigIdx' = r
      BY <1>6
    <3>6. QED
      BY <2>1, <3>2, <3>3, <3>4, <3>5
  <2>7. submitted - Cardinality(executing') <= Cardinality(inserted)
    <3>1. executing' \in SUBSET (1..submitted) /\ inserted \in SUBSET (1..submitted)
      BY <1>1 DEF TypeOK
    <3>2. \A b \in 1..submitted : b \in executing' \/ b \in inserted
      BY <1>1 DEF InsertInv, Healthy
    <3>3. QED
      BY <2>1, <3>1, <3>2, CountInserted
  <2>8. Counting => x + y <= Cardinality(inserted)
    BY <1>3, <1>6, <2>1, <2>6, <2>7, ExecutingType
  <2>9. PICK w \in Nat, m \in Nat : w = Progress' /\ m = Len(q') /\ w <= m
    <3>1. Progress' \in Nat /\ Progress' <= Len(q')
      BY <1>10, ProgressType DEF Progress
    <3>2. Len(q') \in Nat
      BY <1>10
    <3>3. QED
      BY <3>1, <3>2
  <2>10. Counting => (start + Progress') * Rate <= Cardinality(inserted)
    <3>1. PICK a \in Nat, b \in Nat : a = start + w /\ b = start + m /\ a <= b
      <4>0. w <= m
        BY <2>9, Zenon
      <4>1. start + w \in Nat /\ start + m \in Nat /\ start + w <= start + m
        BY <2>1, <4>0
      <4>2. QED
        BY <4>1
    <3>2. a * Rate <= b * Rate /\ a * Rate \in Nat
      BY <3>1, ProductsKeepOrder
    <3>3. b * Rate = x + y
      BY <2>3, <2>9, <3>1
    <3>4. Counting => a * Rate <= Cardinality(inserted)
      BY <2>8, <3>2, <3>3, ExecutingType
    <3>5. QED
      BY <2>9, <3>1, <3>4
  <2>11. Counting' = Counting
    BY <1>2 DEF Counting
  <2>12. Counting' => (start' + Len(q')) * Rate + sigIdx' = submitted' - Cardinality(executing')
    BY <1>1, <1>2, <2>3, <2>6, <2>11
  <2>13. Counting' => (start' + Progress') * Rate <= Cardinality(inserted')
    BY <1>1, <1>2, <2>10, <2>11
  <2>14. QED
    BY <2>12, <2>13 DEF CountInv
<1>16. StageInv' /\ MainInv'
  BY <1>1, OthersKept
<1>17. QED
  BY <1>12, <1>13, <1>14, <1>15, <1>16

\* A failed insertion is signalled; nothing is told of after it.
LEMMA FailStep ==
    ASSUME StreamInv, CheckFails
    PROVE  StreamInv'
<1> USE DEF StreamInv
<1>1. /\ Looking /\ ins \in {"check", "drain"} /\ ins' = "stopping"
      /\ q' = Append(q, None) /\ executing' \subseteq executing
      /\ UNCHANGED <<submitted, sigIdx, inserted, broken, searching, main, report>>
  BY DEF CheckFails, Cancels, Looking
<1>2. UNCHANGED <<searcher, stage, start, result>>
  BY <1>1 DEF searching
<1>3. /\ q \in Seq(Signals) /\ q' \in Seq(Signals) /\ Len(q) \in Nat /\ Len(q') = Len(q) + 1
      /\ \A i \in 1..Len(q) : q'[i] = q[i]
      /\ q'[Len(q')] = None /\ q' # <<>>
  <2>1. q \in Seq(Signals) /\ Len(q) \in Nat /\ None \in Signals
    BY DEF TypeOK, Signals
  <2>2. QED
    BY <1>1, <2>1
<1>4. \A i \in 1..Len(q) : q[i] = "False"
  BY <1>1, OnlyProgress
<1>5. \A i \in 1..Len(q') : i \in 1..Len(q) \/ i = Len(q')
  BY <1>3
<1>6. TypeOK'
  BY <1>1, <1>2, <1>3 DEF TypeOK, Inserters
<1>7. InsertInv'
  BY <1>1 DEF InsertInv, Healthy
<1>8. QueueInv'
  <2>1. \A i \in 1..Len(q') : q'[i] = "False" \/ (i = Len(q') /\ q'[i] = None)
    BY <1>3, <1>4, <1>5
  <2>2. QED
    BY <1>1, <2>1 DEF QueueInv, None
<1>9. CountInv'
  <2>1. Progress' = Progress
    <3>1. Progress' = Len(q') - 1
      BY <1>3 DEF Progress, None
    <3>2. QED
      BY <1>1, <1>3, <3>1, OnlyProgress
  <2>2. QED
    BY <1>1, <1>2, <2>1 DEF CountInv, Counting, Healthy
<1>10. StageInv' /\ MainInv'
  BY <1>1, OthersKept
<1>11. QED
  BY <1>6, <1>7, <1>8, <1>9, <1>10
-----------------------------------------------------------------------------
(* The searcher                                                            *)

\* What is left of a queue.
LEMMA TailOf ==
    ASSUME NEW s \in Seq(Signals), s # <<>>
    PROVE  /\ Tail(s) \in Seq(Signals) /\ Len(s) \in Nat /\ Len(Tail(s)) = Len(s) - 1
           /\ Len(s) >= 1 /\ Head(s) = s[1] /\ Head(s) \in Signals
           /\ \A i \in 1..Len(Tail(s)) : Tail(s)[i] = s[i + 1]
OBVIOUS

\* A signal of progress opens another round to the searcher.
LEMMA CountSignalStep ==
    ASSUME StreamInv, GetSignal, Head(q) = "False"
    PROVE  StreamInv'
<1> USE DEF StreamInv
<1>1. /\ AtStage /\ start < TargetBatch(stage) /\ q # <<>> /\ q' = Tail(q)
      /\ start' = start + 1
      /\ UNCHANGED <<searcher, stage, result, inserter, inserted, broken, main, report>>
  BY DEF GetSignal
<1>2. UNCHANGED <<ins, submitted, executing, sigIdx>>
  BY <1>1 DEF inserter
<1>3. /\ q' \in Seq(Signals) /\ Len(q) \in Nat /\ Len(q') = Len(q) - 1 /\ Len(q) >= 1
      /\ q[1] = "False"
      /\ \A i \in 1..Len(q') : q'[i] = q[i + 1]
  BY <1>1, TailOf DEF TypeOK
<1>4. /\ start \in Nat /\ stage \in 1..Len(Stages) /\ TargetBatch(stage) \in 0..TotalBatch
      /\ TotalBatch \in Nat
  <2>1. start \in 0..TotalBatch /\ stage \in 1..(Len(Stages) + 1) /\ stage <= Len(Stages)
    BY <1>1 DEF TypeOK, AtStage
  <2>2. stage \in 1..Len(Stages) /\ start \in Nat
    BY <2>1, StageType, TotalType
  <2>3. QED
    BY <2>2, TargetType, TotalType
<1>5. start' \in 0..TotalBatch /\ start' <= TargetBatch(stage)
  BY <1>1, <1>4
<1>6. TypeOK'
  BY <1>1, <1>2, <1>3, <1>5 DEF TypeOK
<1>7. InsertInv'
  BY <1>1, <1>2 DEF InsertInv, Healthy
<1>8. QueueInv'
  <2>1. \A i \in 1..Len(q') : i + 1 \in 1..Len(q) /\ (i + 1 = Len(q) => i = Len(q'))
    BY <1>3
  <2>2. \A i \in 1..Len(q') : q'[i] = "False" \/ i = Len(q')
    BY <1>3, <2>1 DEF QueueInv
  <2>3. \A i \in 1..Len(q') :
            /\ q'[i] = None => ins \in {"stopping", "raised"}
            /\ q'[i] = "True" => ins \in {"drain", "ended"} /\ executing = {}
    BY <1>3, <2>1 DEF QueueInv
  <2>4. QED
    BY <1>2, <2>2, <2>3 DEF QueueInv
<1>9. CountInv'
  <2>1. Counting' /\ Counting
    BY <1>1 DEF Counting, AtStage
  <2>2. start' + Len(q') = start + Len(q)
    BY <1>1, <1>3, <1>4
  <2>3. start' + Progress' = start + Progress
    <3>1. CASE Len(q) = 1
      <4>1. q' = <<>>
        BY <1>1, <1>3, <3>1
      <4>2. Progress = 1 /\ Progress' = 0
        BY <1>1, <1>3, <3>1, <4>1 DEF Progress
      <4>3. QED
        BY <1>1, <1>4, <4>2
    <3>2. CASE Len(q) # 1
      <4>1. /\ Len(q') \in 1..Len(q') /\ q' # <<>> /\ q'[Len(q')] = q[Len(q)]
        <5>1. Len(q') \in 1..Len(q') /\ Len(q') + 1 = Len(q) /\ Len(q') # 0
          BY <1>3, <3>2
        <5>2. QED
          BY <1>3, <5>1
      <4>2. CASE q[Len(q)] = "False"
        <5>1. Progress = Len(q) /\ Progress' = Len(q')
          BY <4>1, <4>2 DEF Progress
        <5>2. QED
          BY <2>2, <5>1
      <4>3. CASE q[Len(q)] # "False"
        <5>1. Progress = Len(q) - 1 /\ Progress' = Len(q') - 1
          BY <1>1, <4>1, <4>3 DEF Progress
        <5>2. QED
          BY <1>1, <1>3, <1>4, <5>1
      <4>4. QED
        BY <4>2, <4>3
    <3>3. QED
      BY <3>1, <3>2
  <2>4. Healthy' = Healthy
    BY <1>2 DEF Healthy
  <2>5. Healthy' => (start' + Len(q')) * Rate + sigIdx' = submitted' - Cardinality(executing')
    BY <1>2, <2>1, <2>2, <2>4 DEF CountInv
  <2>6. (start' + Progress') * Rate <= Cardinality(inserted')
    BY <1>1, <2>1, <2>3 DEF CountInv
  <2>7. QED
    BY <2>5, <2>6 DEF CountInv
<1>10. StageInv'
  BY <1>1, <1>5 DEF StageInv, AtStage
<1>11. MainInv'
  BY <1>1, <1>2 DEF MainInv, AllStagesSearched, Searched, WaitsForTheEnd
<1>12. QED
  BY <1>6, <1>7, <1>8, <1>9, <1>10, <1>11

\* The end makes the searcher give up: after a failure, or when the stage waits for
\* the last whole round.
LEMMA GiveUpStep ==
    ASSUME StreamInv, GetSignal, Head(q) # "False"
    PROVE  StreamInv'
<1> USE DEF StreamInv
<1>1. /\ searcher = "wait" /\ stage <= Len(Stages) /\ start < TargetBatch(stage)
      /\ q # <<>> /\ q' = Tail(q)
      /\ searcher' = "gaveup" /\ result' = <<>>
      /\ UNCHANGED <<stage, start, inserter, inserted, broken, main, report>>
  BY DEF GetSignal, AtStage
<1>2. UNCHANGED <<ins, submitted, executing, sigIdx>>
  BY <1>1 DEF inserter
<1>3. /\ q' \in Seq(Signals) /\ Len(q) \in Nat /\ Len(q') = Len(q) - 1 /\ Len(q) >= 1
      /\ q[1] \in {None, "True"}
  BY <1>1, TailOf DEF TypeOK, Signals
<1>4. Len(q) = 1 /\ 1 \in 1..Len(q) /\ Len(q') = 0
  BY <1>3 DEF QueueInv, None
<1>5. TypeOK'
  BY <1>1, <1>2, <1>3 DEF TypeOK, Searchers
<1>6. InsertInv'
  BY <1>1, <1>2 DEF InsertInv, Healthy
<1>7. QueueInv'
  BY <1>4 DEF QueueInv
<1>8. CountInv'
  BY <1>1 DEF CountInv, Counting
<1>9. ins \in {"stopping", "raised"} \/ WaitsForTheEnd
  <2>1. CASE q[1] = None
    BY <1>4, <2>1 DEF QueueInv
  <2>2. CASE q[1] = "True"
    <3>1. ins \in {"drain", "ended"} /\ executing = {} /\ submitted = Volume
      BY <1>4, <2>2 DEF QueueInv, InsertInv
    <3>2. (start + 1) * Rate + sigIdx = Volume
      <4>1. (start + 1) * Rate + sigIdx = submitted - Cardinality(executing)
        BY <1>1, <1>4, <3>1 DEF CountInv, Counting, Healthy
      <4>2. Cardinality(executing) = 0
        BY <3>1, FS_EmptySet
      <4>3. QED
        BY <3>1, <4>1, <4>2
    <3>3. start \in Nat /\ sigIdx \in 0..(Rate - 1)
      BY TotalType DEF TypeOK
    <3>4. start + 1 \in Nat
      BY <3>3
    <3>5. Volume \div Rate = start + 1
      BY <3>2, <3>3, <3>4, RoundsOf
    <3>6. stage \in 1..Len(Stages)
      BY <1>1, StageType DEF TypeOK
    <3>7. TargetBatch(stage) \in Nat
      BY <3>6, TargetType, TotalType
    <3>8. TargetBatch(stage) > 0 /\ TargetBatch(stage) >= Volume \div Rate
      BY <1>1, <3>3, <3>5, <3>7
    <3>9. QED
      BY <1>1, <3>8 DEF WaitsForTheEnd
  <2>3. QED
    BY <1>3, <2>1, <2>2
<1>10. StageInv'
  <2>1. searcher' = "gaveup" /\ ins' = ins /\ ~AtStage'
    BY <1>1, <1>2 DEF AtStage
  <2>2. QED
    BY <1>1, <1>9, <2>1 DEF StageInv, WaitsForTheEnd
<1>11. MainInv'
  BY <1>1, <1>2 DEF MainInv, AllStagesSearched, Searched, WaitsForTheEnd
<1>12. QED
  BY <1>5, <1>6, <1>7, <1>8, <1>10, <1>11

LEMMA SearchStep ==
    ASSUME StreamInv, BeginSearch \/ EndSearch \/ ReturnResult
    PROVE  StreamInv'
<1> USE DEF StreamInv
<1>1. UNCHANGED <<inserter, inserted, broken, main, report>>
  BY DEF BeginSearch, EndSearch, ReturnResult
<1>2. UNCHANGED <<ins, submitted, executing, sigIdx>>
  BY <1>1 DEF inserter
<1>3. Len(Stages) \in Nat /\ stage \in 1..(Len(Stages) + 1) /\ start \in Nat
  BY StageType, TotalType DEF TypeOK
<1>4. InsertInv'
  BY <1>1, <1>2 DEF InsertInv, Healthy
<1>5. searcher \notin {"ended", "gaveup"}
  BY DEF BeginSearch, EndSearch, ReturnResult, AtStage
<1>6. MainInv'
  BY <1>1, <1>2, <1>5 DEF MainInv, AllStagesSearched, Searched, WaitsForTheEnd
<1>7. CASE BeginSearch
  <2>1. /\ searcher = "wait" /\ searcher' = "search" /\ stage <= Len(Stages)
        /\ start >= TargetBatch(stage) /\ start <= TargetBatch(stage)
        /\ UNCHANGED <<stage, start, result, q>>
    BY <1>7 DEF BeginSearch, AtStage, StageInv
  <2>2. TypeOK'
    BY <1>1, <1>2, <2>1 DEF TypeOK, Searchers
  <2>3. QueueInv'
    BY <1>2, <2>1 DEF QueueInv
  <2>4. CountInv'
    BY <1>1, <1>2, <2>1 DEF CountInv, Counting, Healthy, Progress
  <2>5. start = TargetBatch(stage)
    <3>1. stage \in 1..Len(Stages)
      BY <1>3, <2>1
    <3>2. TargetBatch(stage) \in Nat
      BY <3>1, TargetType, TotalType
    <3>3. QED
      BY <1>3, <2>1, <3>2
  <2>6. StageInv'
    BY <1>2, <2>1, <2>5 DEF StageInv, AtStage
  <2>7. QED
    BY <1>4, <1>6, <2>2, <2>3, <2>4, <2>6
<1>8. CASE EndSearch
  <2>1. /\ searcher = "search" /\ searcher' = "wait" /\ stage <= Len(Stages)
        /\ start = TargetBatch(stage) /\ start' = start
        /\ stage' = stage + 1 /\ result' = Append(result, Perc(stage))
        /\ UNCHANGED q
    BY <1>8 DEF EndSearch, StageInv
  <2>2. stage \in 1..Len(Stages) /\ stage' \in 1..(Len(Stages) + 1)
    BY <1>3, <2>1
  <2>3. /\ result' \in Seq(0..99) /\ Len(result') = Len(result) + 1
        /\ \A i \in 1..Len(result) : result'[i] = result[i]
        /\ result'[Len(result) + 1] = Perc(stage) /\ Len(result) \in Nat
    <3>1. Perc(stage) \in 0..99
      BY <2>2, PercType
    <3>2. result \in Seq(0..99)
      BY DEF TypeOK
    <3>3. QED
      BY <2>1, <3>1, <3>2
  <2>4. TypeOK'
    BY <1>1, <1>2, <2>1, <2>2, <2>3 DEF TypeOK, Searchers
  <2>5. QueueInv'
    BY <1>2, <2>1 DEF QueueInv
  <2>6. CountInv'
    BY <1>1, <1>2, <2>1 DEF CountInv, Counting, Healthy, Progress
  <2>7. AtStage' => start' <= TargetBatch(stage')
    <3> SUFFICES ASSUME stage' <= Len(Stages) PROVE start' <= TargetBatch(stage')
      BY DEF AtStage
    <3>1. stage' \in 1..Len(Stages) /\ stage <= stage'
      BY <1>3, <2>1, <2>2
    <3>2. TargetBatch(stage) <= TargetBatch(stage')
      BY <2>2, <3>1, TargetType
    <3>3. QED
      BY <2>1, <3>2
  <2>8. Len(result) = stage - 1 /\ \A i \in 1..Len(result) : result[i] = Perc(i)
    BY <2>1 DEF StageInv
  <2>9. Len(result') = stage' - 1 /\ \A i \in 1..Len(result') : result'[i] = Perc(i)
    <3>1. Len(result') = stage' - 1 /\ Len(result) + 1 = stage
      BY <1>3, <2>1, <2>3, <2>8
    <3>2. \A i \in 1..Len(result') : i \in 1..Len(result) \/ i = Len(result) + 1
      BY <2>3
    <3>3. QED
      BY <2>3, <2>8, <3>1, <3>2
  <2>10. StageInv'
    BY <2>1, <2>7, <2>9 DEF StageInv
  <2>11. QED
    BY <1>4, <1>6, <2>4, <2>5, <2>6, <2>10
<1>9. CASE ReturnResult
  <2>1. /\ searcher = "wait" /\ searcher' = "ended" /\ stage > Len(Stages) /\ q' = <<>>
        /\ UNCHANGED <<stage, start, result>>
    BY <1>9 DEF ReturnResult
  <2>2. TypeOK'
    BY <1>1, <1>2, <2>1 DEF TypeOK, Searchers
  <2>3. QueueInv'
    BY <2>1 DEF QueueInv
  <2>4. CountInv'
    BY <2>1 DEF CountInv, Counting
  <2>5. stage = Len(Stages) + 1
    BY <1>3, <2>1
  <2>6. StageInv'
    BY <2>1, <2>5 DEF StageInv, AtStage
  <2>7. QED
    BY <1>4, <1>6, <2>2, <2>3, <2>4, <2>6
<1>10. QED
  BY <1>7, <1>8, <1>9
-----------------------------------------------------------------------------
(* The main process                                                        *)

\* A sequence of one kind of values followed by one of another.
LEMMA Prefix ==
    ASSUME NEW S, NEW T, S \subseteq T, NEW r \in Seq(S), NEW m \in Seq(T)
    PROVE  /\ r \o m \in Seq(T) /\ Len(r) \in Nat
           /\ DOMAIN (r \o m) = 1..Len(r \o m) /\ Len(r \o m) >= Len(r)
           /\ \A i \in 1..Len(r) : (r \o m)[i] = r[i]
<1>1. r \in Seq(T)
  OBVIOUS
<1>2. r \o m \in Seq(T) /\ Len(r \o m) = Len(r) + Len(m)
  BY <1>1
<1>3. Len(r) \in Nat /\ Len(m) \in Nat /\ DOMAIN (r \o m) = 1..Len(r \o m)
  BY <1>1, <1>2, ElementsOf
<1>4. \A i \in 1..Len(r) : (r \o m)[i] = r[i]
  BY <1>1, <1>3
<1>5. Len(r \o m) >= Len(r)
  BY <1>2, <1>3
<1>6. QED
  BY <1>2, <1>3, <1>4, <1>5

LEMMA Marks ==
    ASSUME NEW S, NEW a \in S, NEW b \in S
    PROVE  <<a>> \in Seq(S) /\ <<a, b>> \in Seq(S)
OBVIOUS

\* A report that starts with the searcher's result names all it searched.
LEMMA ReportStep ==
    ASSUME StreamInv, searcher \in {"ended", "gaveup"}, ins = "ended",
           NEW marks \in {<<EndMark>>, <<EndMark, OptimizedMark>>},
           report' = result \o marks, UNCHANGED <<searcher, stage>>
    PROVE  report' \in Seq(0..OptimizedMark) /\ AllStagesSearched'
<1> USE DEF StreamInv
<1>1. /\ EndMark \in 0..OptimizedMark /\ OptimizedMark \in 0..OptimizedMark
      /\ 0..99 \subseteq 0..OptimizedMark
  BY DEF EndMark, OptimizedMark
<1>2. marks \in Seq(0..OptimizedMark)
  <2>1. <<EndMark>> \in Seq(0..OptimizedMark) /\ <<EndMark, OptimizedMark>> \in Seq(0..OptimizedMark)
    BY <1>1, Marks, Zenon
  <2> QED
    BY <2>1, Zenon
<1>3. /\ report' \in Seq(0..OptimizedMark) /\ Len(result) \in Nat
      /\ DOMAIN report' = 1..Len(report') /\ Len(report') >= Len(result)
      /\ \A i \in 1..Len(result) : report'[i] = result[i]
  <2>1. result \in Seq(0..99)
    BY DEF TypeOK
  <2>2. /\ result \o marks \in Seq(0..OptimizedMark) /\ Len(result) \in Nat
        /\ DOMAIN (result \o marks) = 1..Len(result \o marks)
        /\ Len(result \o marks) >= Len(result)
        /\ \A i \in 1..Len(result) : (result \o marks)[i] = result[i]
    <3> DEFINE S == 0..99
               T == 0..OptimizedMark
    <3>1. S \subseteq T /\ result \in Seq(S) /\ marks \in Seq(T)
      BY <1>1, <1>2, <2>1
    <3> HIDE DEF S, T
    <3>2. /\ result \o marks \in Seq(T) /\ Len(result) \in Nat
          /\ DOMAIN (result \o marks) = 1..Len(result \o marks)
          /\ Len(result \o marks) >= Len(result)
          /\ \A i \in 1..Len(result) : (result \o marks)[i] = result[i]
      BY <3>1, Prefix
    <3>3. QED
      BY <3>2 DEF T
  <2>3. QED
    BY <2>2, Zenon
<1>4. Len(report') \in Nat
  BY <1>3, ElementsOf
<1>5. \A i \in 1..Len(result) : i \in DOMAIN report'
  BY <1>3, <1>4
<1>6. CASE searcher = "ended"
  <2>1. Len(result) = Len(Stages) /\ \A i \in 1..Len(result) : result[i] = Perc(i)
    BY <1>6, StageType DEF StageInv
  <2>2. ASSUME NEW i \in DOMAIN Stages PROVE Perc(i) \in Searched'
    <3>1. i \in 1..Len(result)
      BY <2>1, StageType
    <3>2. report'[i] = Perc(i) /\ i \in DOMAIN report'
      BY <1>3, <1>5, <2>1, <3>1
    <3>3. QED
      BY <3>2 DEF Searched
  <2>3. QED
    BY <1>3, <2>2 DEF AllStagesSearched
<1>7. CASE searcher = "gaveup"
  <2>1. WaitsForTheEnd /\ searcher' = "gaveup"
    BY <1>7 DEF StageInv
  <2>2. WaitsForTheEnd'
    BY <2>1 DEF WaitsForTheEnd
  <2>3. QED
    BY <1>3, <2>1, <2>2 DEF AllStagesSearched
<1>8. QED
  BY <1>6, <1>7

LEMMA MainStep ==
    ASSUME StreamInv, Main
    PROVE  StreamInv'
<1> USE DEF StreamInv
<1>1. UNCHANGED <<inserter, inserted, broken, q, searching>>
  BY DEF Main, InsertDone, InsertRaised, StreamDone, EndSearchDone, OptimizeDone,
         OptimizedSearchDone, MainRaises, ShutDown, MainTo
<1>2. UNCHANGED <<ins, submitted, executing, sigIdx, searcher, stage, start, result>>
  BY <1>1 DEF inserter, searching
<1>3. InsertInv' /\ QueueInv'
  BY <1>1, <1>2 DEF InsertInv, QueueInv, Healthy
<1>4. CountInv'
  BY <1>1, <1>2 DEF CountInv, Counting, Healthy, Progress
<1>5. StageInv'
  BY <1>2 DEF StageInv, AtStage, WaitsForTheEnd
<1>6. main' \in Mains /\ report' \in Seq(0..OptimizedMark) /\ MainInv'
  <2>1. CASE /\ report' = report
             /\ main # "returned"
             /\ main' \in Mains
             /\ main' \in {"stream", "end", "optimize", "after"} => ins = "ended"
             /\ main' \in {"end", "optimize", "after"} => searcher \in {"ended", "gaveup"}
    BY <1>2, <2>1 DEF MainInv, TypeOK, AllStagesSearched, Searched, WaitsForTheEnd
  <2>2. CASE main \in {"end", "after"} /\ main' = "returned"
             /\ \E marks \in {<<EndMark>>, <<EndMark, OptimizedMark>>} : report' = result \o marks
    <3>1. ins = "ended" /\ searcher \in {"ended", "gaveup"}
      BY <2>2 DEF MainInv
    <3>2. report' \in Seq(0..OptimizedMark) /\ AllStagesSearched'
      BY <1>2, <2>2, <3>1, ReportStep
    <3>3. QED
      BY <1>2, <2>2, <3>1, <3>2 DEF MainInv, Mains
  <2>3. CASE EndSearchDone /\ ~Optimizes
    <3>1. report' = Append(result, EndMark) /\ result \in Seq(0..99)
      BY <2>3 DEF EndSearchDone, TypeOK
    <3>2. report' = result \o <<EndMark>>
      BY <3>1
    <3>3. QED
      BY <2>2, <2>3, <3>2 DEF EndSearchDone, MainTo
  <2>4. CASE OptimizedSearchDone
    BY <2>2, <2>4 DEF OptimizedSearchDone, MainTo
  <2>5. CASE InsertDone \/ InsertRaised \/ StreamDone
    BY <2>1, <2>5 DEF InsertDone, InsertRaised, StreamDone, MainTo, Mains, MainInv
  <2>6. CASE (EndSearchDone /\ Optimizes) \/ OptimizeDone \/ MainRaises \/ ShutDown
    BY <2>1, <2>6 DEF EndSearchDone, OptimizeDone, MainRaises, ShutDown, MainTo, Mains, MainInv
  <2>7. QED
    BY <2>3, <2>4, <2>5, <2>6 DEF Main
<1>7. TypeOK'
  BY <1>1, <1>2, <1>6 DEF TypeOK
<1>8. QED
  BY <1>3, <1>4, <1>5, <1>6, <1>7

-----------------------------------------------------------------------------
(* The theorems                                                            *)

LEMMA InitStream ==
    ASSUME Init
    PROVE  StreamInv
<1> USE DEF Init
<1>1. Cardinality({}) = 0
  BY FS_EmptySet
<1>2. TypeOK
  <2>1. 1 \in 1..(Len(Stages) + 1) /\ 0 \in 0..TotalBatch
    BY StageType, TotalType
  <2>2. q \in Seq(Signals) /\ result \in Seq(0..99) /\ report \in Seq(0..OptimizedMark)
    BY DEF OptimizedMark
  <2>3. ins \in Inserters /\ searcher \in Searchers /\ main \in Mains
    BY DEF Inserters, Searchers, Mains
  <2>4. submitted \in 0..Volume /\ sigIdx \in 0..(Rate - 1)
    OBVIOUS
  <2>5. QED
    BY <2>1, <2>2, <2>3, <2>4 DEF TypeOK
<1>3. InsertInv /\ QueueInv
  BY DEF InsertInv, QueueInv, Healthy
<1>4. CountInv
  <2>1. Progress = 0 /\ Len(q) = 0
    BY DEF Progress
  <2>2. start + Progress = 0 /\ start + Len(q) = 0 /\ 0 * Rate = 0
    BY <2>1
  <2>3. QED
    BY <1>1, <2>2 DEF CountInv
<1>5. StageInv
  <2>1. AtStage => start <= TargetBatch(stage)
    <3> SUFFICES ASSUME AtStage PROVE 0 <= TargetBatch(1)
      OBVIOUS
    <3>1. 1 \in 1..Len(Stages)
      BY StageType DEF AtStage
    <3>2. QED
      BY <3>1, TargetType, TotalType
  <2>2. QED
    BY <2>1 DEF StageInv
<1>6. MainInv
  BY DEF MainInv, AllStagesSearched, Searched, WaitsForTheEnd
<1>7. QED
  BY <1>2, <1>3, <1>4, <1>5, <1>6 DEF StreamInv

LEMMA StreamStep ==
    ASSUME StreamInv, [Next]_vars
    PROVE  StreamInv'
<1>1. CASE Inserter
  BY <1>1, GoOnStep, SubmitStep, TellStep, FailStep DEF Inserter
<1>2. CASE \E b \in Batches : Insert(b)
  BY <1>2, InsertStep
<1>3. CASE Searcher
  BY <1>3, CountSignalStep, GiveUpStep, SearchStep DEF Searcher
<1>4. CASE Main
  BY <1>4, MainStep
<1>5. CASE UNCHANGED vars
  BY <1>5 DEF StreamInv, TypeOK, InsertInv, QueueInv, CountInv, StageInv, MainInv, Healthy,
              Counting, Progress, AtStage, AllStagesSearched, Searched, WaitsForTheEnd,
              vars, inserter, searching
<1>6. QED
  BY <1>1, <1>2, <1>3, <1>4, <1>5 DEF Next

(***************************************************************************)
(* What is submitted, under way, inserted, told of and searched agree at   *)
(* every moment of a streaming case.                                       *)
(***************************************************************************)
THEOREM StreamInvariant == Spec => []StreamInv
<1>1. Init => StreamInv
  BY InitStream
<1>2. StreamInv /\ [Next]_vars => StreamInv'
  BY StreamStep
<1>3. QED
  BY <1>1, <1>2, PTL DEF Spec

\* The streaming case keeps its types.
THEOREM TypeCorrect == Spec => []TypeOK
<1>1. StreamInv => TypeOK
  BY DEF StreamInv
<1>2. QED
  BY <1>1, StreamInvariant, PTL

(***************************************************************************)
(* A stage is searched when its share of the dataset is in the database,   *)
(* never before; and the signals count the batches exactly                 *)
(* (rate_runner.py 60-128, read_write_runner.py 206-262).                  *)
(***************************************************************************)
THEOREM StagesAfterData == Spec => []StagesFollowData
<1>1. StreamInv => SignalsCountBatches
  BY DEF StreamInv, CountInv, SignalsCountBatches, Counting, Healthy, AtStage
<1>2. StreamInv => NoStageBeforeItsData
  <2> SUFFICES ASSUME StreamInv, searcher = "search"
               PROVE  Cardinality(inserted) >= TargetBatch(stage) * Rate
    BY DEF NoStageBeforeItsData
  <2> USE DEF StreamInv
  <2>1. start = TargetBatch(stage) /\ start \in Nat
    BY TotalType DEF StageInv, TypeOK
  <2>2. Progress \in Nat
    BY ProgressType DEF TypeOK, Progress
  <2>3. start * Rate <= (start + Progress) * Rate
    BY <2>1, <2>2, ProductsKeepOrder
  <2>4. (start + Progress) * Rate <= Cardinality(inserted)
    BY DEF CountInv, Counting
  <2>5. PICK a \in Nat, b \in Nat : a = start * Rate /\ b = (start + Progress) * Rate
    <3>1. start + Progress \in Nat
      BY <2>1, <2>2
    <3>2. QED
      BY <2>1, <3>1, ProductsKeepOrder
  <2>6. PICK c \in Nat : c = Cardinality(inserted)
    BY ExecutingType
  <2>7. a <= c
    BY <2>3, <2>4, <2>5, <2>6
  <2>8. QED
    BY <2>1, <2>5, <2>6, <2>7
<1>3. StreamInv => StagesFollowData
  BY <1>1, <1>2 DEF StagesFollowData
<1>4. QED
  BY <1>3, StreamInvariant, PTL

(***************************************************************************)
(* The searches at the end see the whole dataset, and a metric that has    *)
(* them has every stage, unless one waits for the last whole round         *)
(* (read_write_runner.py 156-262).                                         *)
(***************************************************************************)
THEOREM CompleteMetric == Spec => []MetricIsComplete
<1>1. StreamInv => EndSearchSeesAll
  <2> SUFFICES ASSUME StreamInv, main \in {"end", "optimize", "after"}
               PROVE  inserted = Batches
    BY DEF EndSearchSeesAll
  <2>1. ins = "ended"
    BY DEF StreamInv, MainInv
  <2>2. submitted = Volume /\ executing = {} /\ \A b \in 1..submitted : b \in inserted
    BY <2>1 DEF StreamInv, InsertInv, Healthy
  <2>3. QED
    BY <2>2 DEF StreamInv, TypeOK, Batches
<1>2. StreamInv => MetricIsComplete
  BY <1>1 DEF StreamInv, MainInv, MetricIsComplete
<1>3. QED
  BY <1>2, StreamInvariant, PTL
=============================================================================
