------------------------------ MODULE SearchProofs ------------------------------
(***************************************************************************)
(* Proofs about the search: SearchBarrier, for any list of concurrency     *)
(* levels, with and without the slot timeout and with or without dying     *)
(* processes; and ClientSearch, for any rows, queries and clients.         *)
(***************************************************************************)
EXTENDS SearchBarrier, ClientSearch, FiniteSetTheorems, TLAPS

-----------------------------------------------------------------------------
(* The answers: ClientSearch.                                              *)

\* A case that is being run has a filter its client declares and an index of its metric;
\* its rows are stored as the client wants them, and its answer is of the rows it stored.
AnswerInv ==
  /\ db \in Databases /\ metric \in Metrics /\ filter \in FilterOp /\ bound \in Nat
  /\ phase \in {"init_db", "load", "search", "answered"} => filter \in client.filter.declares
  /\ phase \in {"load", "search", "answered"} => indexBy = IndexMetric /\ indexBy # "none"
  /\ phase \in {"search", "answered"} =>
       dataset \in [Ids -> Vectors] /\ stored = [id \in Ids |-> AsSent(dataset[id])]
  /\ phase = "answered" =>
       /\ query \in Vectors /\ rankBy = SearchMetric /\ rankBy # "none"
       /\ answer \in Nearest(rankBy, AsSent(query), stored, LetThrough)

\* The vectors are pairs of integers, of one length but for their factor.
LEMMA VectorType ==
  ASSUME NEW v \in Vectors
  PROVE  /\ v.dir[1] \in Int /\ v.dir[2] \in Int
         /\ v.dir[1] * v.dir[1] + v.dir[2] * v.dir[2] = 25
         /\ Normalised(v).dir = v.dir /\ Normalised(v).times = 1
<1>1. v \in [dir : {d \in (0 .. 5) \X (0 .. 5) : d[1] * d[1] + d[2] * d[2] = 25}, times : Nat \ {0}]
  BY ClientSearchAssumption
<1>2. v.dir \in {d \in (0 .. 5) \X (0 .. 5) : d[1] * d[1] + d[2] * d[2] = 25}
  BY <1>1
<1>3. /\ v.dir[1] \in Int /\ v.dir[2] \in Int
      /\ v.dir[1] * v.dir[1] + v.dir[2] * v.dir[2] = 25
  BY <1>2
<1>4. Normalised(v).dir = v.dir /\ Normalised(v).times = 1
  BY <1>1 DEF Normalised
<1> QED
  BY <1>3, <1>4

\* The cosine of an angle does not change when a vector is normalised.
LEMMA CosineIsOfDirections ==
  ASSUME NEW q \in Vectors, NEW v \in Vectors, NEW w \in Vectors
  PROVE  Closer("COSINE", Normalised(q), Normalised(v), Normalised(w)) <=> Closer("COSINE", q, v, w)
BY VectorType DEF Closer

\* Vectors of one length are ranked alike by all three metrics.
LEMMA UnitVectorsRankAlike ==
  ASSUME NEW m \in Metrics, NEW q \in Vectors, NEW v \in Vectors, NEW w \in Vectors
  PROVE  Closer(m, Normalised(q), Normalised(v), Normalised(w))
           <=> Closer("COSINE", Normalised(q), Normalised(v), Normalised(w))
<1> DEFINE a == Normalised(q)
           b == Normalised(v)
           c == Normalised(w)
           q1 == q.dir[1]  q2 == q.dir[2]
           v1 == v.dir[1]  v2 == v.dir[2]
           w1 == w.dir[1]  w2 == w.dir[2]
<1>1. /\ q1 \in Int /\ q2 \in Int /\ v1 \in Int /\ v2 \in Int /\ w1 \in Int /\ w2 \in Int
      /\ q1 * q1 + q2 * q2 = 25 /\ v1 * v1 + v2 * v2 = 25 /\ w1 * w1 + w2 * w2 = 25
  BY VectorType
<1>2. /\ a.dir = q.dir /\ a.times = 1 /\ b.dir = v.dir /\ b.times = 1
      /\ c.dir = w.dir /\ c.times = 1
  BY VectorType
<1> HIDE DEF a, b, c, q1, q2, v1, v2, w1, w2
<1>3. Long(a) = <<q1, q2>> /\ Long(b) = <<v1, v2>> /\ Long(c) = <<w1, w2>>
  BY <1>1, <1>2 DEF Long, Times, q1, q2, v1, v2, w1, w2
<1>4. Closer("COSINE", a, b, c) <=> q1 * v1 + q2 * v2 > q1 * w1 + q2 * w2
  BY <1>2 DEF Closer, Dot, q1, q2, v1, v2, w1, w2
<1>5. Closer("IP", a, b, c) <=> q1 * v1 + q2 * v2 > q1 * w1 + q2 * w2
  BY <1>3 DEF Closer, Dot
<1>6. Closer("L2", a, b, c) <=> q1 * v1 + q2 * v2 > q1 * w1 + q2 * w2
  <2> DEFINE Square(x1, x2) == (q1 - x1) * (q1 - x1) + (q2 - x2) * (q2 - x2)
  <2>1. Closer("L2", a, b, c) <=> Square(v1, v2) < Square(w1, w2)
    BY <1>3 DEF Closer, Dot, Minus
  <2>2. ASSUME NEW x1 \in Int, NEW x2 \in Int, x1 * x1 + x2 * x2 = 25
        PROVE  Square(x1, x2) = 50 - 2 * (q1 * x1 + q2 * x2)
    <3>1. Square(x1, x2) = (q1 * q1 + q2 * q2) + (x1 * x1 + x2 * x2) - 2 * (q1 * x1 + q2 * x2)
      BY <1>1
    <3> QED
      BY <1>1, <2>2, <3>1
  <2>3. Square(v1, v2) = 50 - 2 * (q1 * v1 + q2 * v2)
    BY <1>1, <2>2
  <2>4. Square(w1, w2) = 50 - 2 * (q1 * w1 + q2 * w2)
    BY <1>1, <2>2
  <2>5. q1 * v1 + q2 * v2 \in Int /\ q1 * w1 + q2 * w2 \in Int
    BY <1>1
  <2> HIDE DEF Square
  <2> QED
    BY <2>1, <2>3, <2>4, <2>5
<1> QED
  BY <1>4, <1>5, <1>6 DEF Metrics, a, b, c

\* Two rankings that agree on every two rows have the same nearest rows.
LEMMA SameNearest ==
  ASSUME NEW m, NEW n, NEW p, NEW q, NEW v, NEW w, NEW among,
         \A r, s \in among : Closer(m, p, v[s], v[r]) <=> Closer(n, q, w[s], w[r])
  PROVE  Nearest(m, p, v, among) = Nearest(n, q, w, among)
<1>1. ASSUME NEW best \in SUBSET among
      PROVE  (\A r \in best, s \in among \ best : ~Closer(m, p, v[s], v[r]))
               <=> (\A r \in best, s \in among \ best : ~Closer(n, q, w[s], w[r]))
  OBVIOUS
<1> QED
  BY <1>1 DEF Nearest

\* The metrics of a case whose user names the metric of its dataset are those of the tables.
LEMMA MetricsOfTables ==
  ASSUME AnswerInv, phase = "answered", NamedRight
  PROVE  /\ indexBy = IndexOf(db, metric) /\ rankBy = RankOf(db, metric)
         /\ Answers(db, metric) /\ indexBy \in Metrics /\ rankBy \in Metrics
<1>1. /\ db \in Databases /\ metric \in Metrics /\ rankBy = SearchMetric /\ rankBy # "none"
      /\ indexBy = IndexMetric /\ indexBy # "none" /\ named = metric
  BY DEF AnswerInv, NamedRight
<1>2. indexBy = IndexOf(db, metric)
  BY <1>1 DEF IndexMetric, IndexOf, client
<1>3. rankBy = RankOf(db, metric)
  BY <1>1, <1>2 DEF SearchMetric, RankOf, client
<1>4. Profile[db] \in ClientProfiles
  BY <1>1, ClientSearchAssumption
<1>5. Profile[db].metric \in IndexMetrics /\ Profile[db].search \in Searches
  BY <1>4 DEF ClientProfiles
<1>6. indexBy \in Metrics
  BY <1>1, <1>2, <1>5 DEF IndexOf, IndexMetrics, Metrics
<1>7. rankBy \in Metrics
  BY <1>1, <1>2, <1>3, <1>5, <1>6 DEF RankOf, Searches, Metrics
<1> QED
  BY <1>1, <1>2, <1>3, <1>6, <1>7 DEF Answers

\* The rows that are stored, one by one.
LEMMA StoredRows ==
  ASSUME AnswerInv, phase = "answered"
  PROVE  /\ query \in Vectors
         /\ \A id \in Ids : dataset[id] \in Vectors /\ stored[id] = AsSent(dataset[id])
BY DEF AnswerInv

\* When the tables agree the answer is nearest to the query among the rows that were asked for.
LEMMA TruthIsAnswered ==
  ASSUME AnswerInv PROVE AnswerIsTruth
<1> SUFFICES ASSUME phase = "answered", NamedRight, <<db, metric>> \notin Misranks,
                    <<db, filter>> \notin Misfilters
             PROVE  answer \in Nearest(metric, query, dataset, Asked)
  BY DEF AnswerIsTruth
<1>1. LetThrough = Asked
  <2>1. /\ db \in Databases /\ filter \in FilterOp /\ filter \in Profile[db].filter.declares
        /\ bound \in Nat
    BY DEF AnswerInv, client
  <2>2. filter = "NumGE" => client.filter.atLeast
    BY <2>1, MisfiltersAssumption DEF client
  <2>3. \A id \in Ids : id >= bound <=> (id > bound \/ id = bound)
    BY <2>1, ClientSearchAssumption DEF Ids
  <2> QED
    BY <2>2, <2>3 DEF LetThrough, Asked
<1>2. RankOf(db, metric) = metric \/ OnUnitVectors(db, metric)
  BY MetricsOfTables, MisranksAssumption DEF AnswerInv
<1>3. ASSUME NEW r \in Asked, NEW s \in Asked
      PROVE  Closer(rankBy, AsSent(query), stored[s], stored[r])
               <=> Closer(metric, query, dataset[s], dataset[r])
  <2>1. /\ query \in Vectors /\ dataset[r] \in Vectors /\ dataset[s] \in Vectors
        /\ stored[r] = AsSent(dataset[r]) /\ stored[s] = AsSent(dataset[s])
    BY StoredRows DEF Asked
  <2>2. CASE normalize
    <3>1. metric = "COSINE" /\ rankBy \in Metrics
      BY <2>2, MetricsOfTables DEF normalize
    <3>2. AsSent(query) = Normalised(query) /\ stored[r] = Normalised(dataset[r])
          /\ stored[s] = Normalised(dataset[s])
      BY <2>1, <2>2 DEF AsSent
    <3> QED
      BY <2>1, <3>1, <3>2, UnitVectorsRankAlike, CosineIsOfDirections
  <2>3. CASE ~normalize
    <3>1. rankBy = metric
      BY <1>2, <2>3, MetricsOfTables DEF normalize, OnUnitVectors, client
    <3> QED
      BY <2>1, <2>3, <3>1 DEF AsSent
  <2> QED
    BY <2>2, <2>3
<1>4. Nearest(rankBy, AsSent(query), stored, Asked) = Nearest(metric, query, dataset, Asked)
  BY <1>3, SameNearest
<1> QED
  BY <1>1, <1>4 DEF AnswerInv

\* And then the index ranks the stored rows as the query does.
LEMMA IndexIsUsed ==
  ASSUME AnswerInv PROVE IndexServesQuery
<1> SUFFICES ASSUME phase = "answered", NamedRight, <<db, metric>> \notin Unserved
             PROVE  Nearest(rankBy, AsSent(query), stored, Ids)
                      = Nearest(indexBy, AsSent(query), stored, Ids)
  BY DEF IndexServesQuery
<1>1. RankOf(db, metric) = IndexOf(db, metric) \/ OnUnitVectors(db, metric)
  BY MetricsOfTables, UnservedAssumption DEF AnswerInv
<1>2. ASSUME NEW r \in Ids, NEW s \in Ids
      PROVE  Closer(rankBy, AsSent(query), stored[s], stored[r])
               <=> Closer(indexBy, AsSent(query), stored[s], stored[r])
  <2>1. /\ query \in Vectors /\ dataset[r] \in Vectors /\ dataset[s] \in Vectors
        /\ stored[r] = AsSent(dataset[r]) /\ stored[s] = AsSent(dataset[s])
    BY StoredRows
  <2>2. CASE normalize
    <3>1. rankBy \in Metrics /\ indexBy \in Metrics
      BY MetricsOfTables
    <3>2. AsSent(query) = Normalised(query) /\ stored[r] = Normalised(dataset[r])
          /\ stored[s] = Normalised(dataset[s])
      BY <2>1, <2>2 DEF AsSent
    <3> QED
      BY <2>1, <3>1, <3>2, UnitVectorsRankAlike
  <2>3. CASE ~normalize
    BY <1>1, <2>3, MetricsOfTables DEF normalize, OnUnitVectors, client
  <2> QED
    BY <2>2, <2>3
<1> QED
  BY <1>2, SameNearest

\* A case begins with nothing loaded.
LEMMA AnswerBegins == SearchInit => AnswerInv
<1> SUFFICES ASSUME SearchInit PROVE AnswerInv
  OBVIOUS
<1>1. NumRows \in Nat
  BY ClientSearchAssumption
<1>2. bound \in Nat
  BY <1>1 DEF SearchInit
<1> QED
  BY <1>2 DEF SearchInit, AnswerInv

\* What is said of a case depends on its choice and its state alone.
LEMMA AnswerStep == AnswerInv /\ [SearchNext]_searchVars => AnswerInv'
<1> SUFFICES ASSUME AnswerInv, [SearchNext]_searchVars PROVE AnswerInv'
  OBVIOUS
<1>1. UNCHANGED choice
  BY DEF SearchNext, Assemble, CreateIndex, Load, SearchEmbedding, Ended, searchVars
<1>2. UNCHANGED <<db, metric, filter, bound, named>>
  BY <1>1 DEF choice
<1>3. /\ client' = client /\ IndexMetric' = IndexMetric /\ LetThrough' = LetThrough
      /\ normalize' = normalize /\ \A v : AsSent(v)' = AsSent(v)
  BY <1>2 DEF client, IndexMetric, LetThrough, normalize, AsSent
<1> USE DEF AnswerInv
<1>4. CASE Assemble
  BY <1>2, <1>3, <1>4 DEF Assemble, client
<1>5. CASE CreateIndex
  BY <1>2, <1>3, <1>5 DEF CreateIndex
<1>6. CASE Load
  BY <1>2, <1>3, <1>6 DEF Load
<1>7. CASE SearchEmbedding
  <2>1. /\ phase = "search" /\ UNCHANGED <<dataset, stored, indexBy>> /\ rankBy' = SearchMetric
        /\ query' \in Vectors
        /\ \/ phase' = "failed"
           \/ /\ phase' = "answered" /\ SearchMetric # "none"
              /\ answer' \in Nearest(SearchMetric, AsSent(query'), stored, LetThrough)
    BY <1>7 DEF SearchEmbedding
  <2>2. SearchMetric' = SearchMetric
    BY <1>2, <1>3, <2>1 DEF SearchMetric
  <2>3. AsSent(query)' = AsSent(query')
    BY <1>3 DEF AsSent
  <2>4. Nearest(rankBy, AsSent(query), stored, LetThrough)'
          = Nearest(SearchMetric, AsSent(query'), stored, LetThrough)
    BY <1>3, <2>1, <2>3 DEF Nearest
  <2> QED
    BY <1>2, <1>3, <2>1, <2>2, <2>4
<1>8. CASE UNCHANGED searchVars
  <2>1. UNCHANGED <<phase, dataset, stored, indexBy, rankBy, query, answer>>
    BY <1>8 DEF searchVars
  <2>2. SearchMetric' = SearchMetric /\ AsSent(query)' = AsSent(query)
    BY <1>2, <1>3, <2>1 DEF SearchMetric, AsSent
  <2>3. Nearest(rankBy, AsSent(query), stored, LetThrough)'
          = Nearest(rankBy, AsSent(query), stored, LetThrough)
    BY <1>3, <2>1, <2>2 DEF Nearest
  <2> QED
    BY <1>2, <1>3, <2>1, <2>2, <2>3
<1> QED
  BY <1>4, <1>5, <1>6, <1>7, <1>8 DEF SearchNext, Ended

\* The invariant holds of every case.
THEOREM AnswerInvariant == SearchSpec => []AnswerInv
<1> QED
  BY AnswerBegins, AnswerStep, PTL DEF SearchSpec

\* An answer is the published truth, for any rows and queries, any number of neighbours and
\* any clients, but those whose tables rank by another metric or filter otherwise.
THEOREM AnswersAreTruth == SearchSpec => []AnswerIsTruth
<1>1. AnswerInv => AnswerIsTruth
  BY TruthIsAnswered
<1> QED
  BY AnswerInvariant, <1>1, PTL

\* The index a load builds ranks as the queries do, with the exceptions of the tables.
THEOREM IndexesServe == SearchSpec => []IndexServesQuery
<1>1. AnswerInv => IndexServesQuery
  BY IndexIsUsed
<1> QED
  BY AnswerInvariant, <1>1, PTL

-----------------------------------------------------------------------------
(* The barrier: SearchBarrier.  The inductive invariant                    *)

USE ConcurrenciesAssumption, HasTimeoutAssumption, CanCrashAssumption
\* Those that came up, or died trying.
Came == {p \in Processes : pc[p] # "boot"}

Searched == {"search", "found", "nothing", "failed"}

\* A token was put by a process that came; the main process goes on when all did,
\* and no one searches before it goes on.
BarrierInv ==
    /\ tokens <= Cardinality(Came)
    /\ main \in {"notify", "collect"} => \A p \in Processes : pc[p] # "boot"
    /\ main \in {"fill", "notify"} => \A p \in Processes : pc[p] \notin Searched

\* A result was added for every level but the one at work, which has its own once it
\* is over without an error.
ResultsInv ==
    /\ error => main \in {"exit", "ended"}
    /\ Len(results) = IF main \in {"exit", "ended"} /\ ~error THEN level ELSE level - 1
    /\ (outcome # "none") => main = "ended"

SearchInv == TypeOK /\ BarrierInv /\ ResultsInv /\ NobodyStartsEarly /\ LevelsAreWhole

-----------------------------------------------------------------------------
(* Lemmas                                                                  *)

\* A level has a positive number of processes.
LEMMA ConcType ==
    ASSUME NEW l \in 1..Len(Concurrencies)
    PROVE  Concurrencies[l] \in Nat \ {0}
OBVIOUS

\* The processes that satisfy a condition are finitely many, not more than all.
LEMMA CountSome ==
    ASSUME NEW n \in Nat, NEW S \in SUBSET (1..n)
    PROVE  /\ IsFiniteSet(S) /\ Cardinality(S) \in 0..n
           /\ Cardinality(S) = n => S = 1..n
<1>1. IsFiniteSet(1..n) /\ Cardinality(1..n) = n
  BY FS_Interval
<1>2. /\ IsFiniteSet(S) /\ Cardinality(S) <= Cardinality(1..n)
      /\ Cardinality(S) = Cardinality(1..n) => S = 1..n
  BY <1>1, FS_Subset
<1>3. Cardinality(S) \in Nat
  BY <1>2, FS_CardinalityType
<1>4. QED
  BY <1>1, <1>2, <1>3

\* What came is no more than the level has, and all of it if it is as many.
LEMMA CameType ==
    ASSUME TypeOK
    PROVE  /\ Conc \in Nat \ {0}
           /\ IsFiniteSet(Came) /\ Cardinality(Came) \in 0..Conc
           /\ Cardinality(Came) = Conc => Came = Processes
<1>1. Conc \in Nat \ {0}
  BY ConcType DEF TypeOK, Conc
<1>2. Came \in SUBSET (1..Conc)
  BY DEF Came, Processes
<1>3. QED
  BY <1>1, <1>2, CountSome DEF Processes

\* The number recorded is one.
LEMMA CountedType == TypeOK => Counted \in Nat
<1> SUFFICES ASSUME TypeOK PROVE Counted \in Nat
  OBVIOUS
<1>1. Conc \in Nat
  BY CameType
<1>2. {p \in Processes : pc[p] = "found"} \in SUBSET (1..Conc)
  BY DEF Processes
<1>3. QED
  BY <1>1, <1>2, CountSome DEF Counted

\* Where a process other than one that comes up moves, those that came stay the same.
LEMMA CameUnchanged ==
    ASSUME TypeOK, NEW p \in Processes, NEW place \in PCs \ {"boot"},
           pc[p] # "boot", Goto(p, place), UNCHANGED level
    PROVE  Came' = Came /\ pc' \in [Processes -> PCs] /\ Processes' = Processes
BY DEF TypeOK, Goto, Came, Processes, Conc

\* Initially no process has come.
LEMMA InitSearch == Init => SearchInv
<1> SUFFICES ASSUME Init PROVE SearchInv
  OBVIOUS
<1>1. level \in 1..Len(Concurrencies) /\ Conc \in Nat \ {0}
  BY ConcType DEF Init, Conc
<1>2. pc = [p \in Processes |-> "boot"]
  BY DEF Init, Pool, Processes, Conc
<1>3. TypeOK
  <2>1. results \in Seq(Nat) /\ Len(results) = 0
    BY DEF Init
  <2>2. pc \in [Processes -> PCs]
    BY <1>2 DEF PCs
  <2>3. tokens \in 0..Conc /\ Len(Concurrencies) \in Nat
    BY <1>1 DEF Init
  <2>4. QED
    <3>1. Len(results) <= Len(Concurrencies)
      BY <2>1, <2>3
    <3>2. /\ level \in 1..Len(Concurrencies) /\ main \in Mains /\ error \in BOOLEAN
          /\ outcome \in {"none", "returned", "raised"}
      BY <1>1 DEF Init, Mains
    <3>3. QED
      BY <2>1, <2>2, <2>3, <3>1, <3>2 DEF TypeOK
<1>4. BarrierInv
  BY <1>2, <1>3, CameType DEF Init, BarrierInv, Searched
<1>5. ResultsInv
  BY DEF Init, ResultsInv
<1>6. NobodyStartsEarly
  BY <1>2 DEF NobodyStartsEarly
<1>7. LevelsAreWhole
  BY DEF Init, LevelsAreWhole, LevelCountsEveryProcess, ReturnsAPrefix
<1>8. QED
  BY <1>3, <1>4, <1>5, <1>6, <1>7 DEF SearchInv

-----------------------------------------------------------------------------
(* One lemma per step                                                      *)

\* A process puts its token.
LEMMA PutStep ==
    ASSUME SearchInv, NEW p \in Processes, Put(p)
    PROVE  SearchInv'
<1> USE DEF SearchInv
<1>1. Processes' = Processes /\ Conc' = Conc /\ pc' \in [Processes -> PCs]
  BY DEF Put, Goto, TypeOK, PCs, Processes, Conc
<1>2. Came' = Came \cup {p} /\ p \notin Came
  BY <1>1 DEF Put, Goto, TypeOK, Came
<1>3. IsFiniteSet(Came) /\ Cardinality(Came) \in Nat /\ Conc \in Nat
  BY CameType
<1>4. Cardinality(Came') = Cardinality(Came) + 1
  BY <1>2, <1>3, FS_AddElement
<1>5. Came' \in SUBSET (1..Conc)
  BY <1>1 DEF Came, Processes
<1>6. Cardinality(Came') \in 0..Conc
  BY <1>3, <1>5, CountSome
<1>7. tokens' \in 0..Conc /\ tokens' <= Cardinality(Came')
  BY <1>3, <1>4, <1>6 DEF Put, TypeOK, BarrierInv
<1>8. TypeOK'
  BY <1>1, <1>7 DEF Put, TypeOK
<1>9. BarrierInv'
  BY <1>1, <1>7 DEF Put, Goto, TypeOK, BarrierInv, Searched
<1>10. ResultsInv'
  BY DEF Put, ResultsInv
<1>11. NobodyStartsEarly'
  BY <1>1 DEF Put, Goto, TypeOK, NobodyStartsEarly
<1>12. LevelsAreWhole'
  BY <1>1 DEF Put, LevelsAreWhole, LevelCountsEveryProcess, ReturnsAPrefix, SomeThroughput
<1>13. QED
  BY <1>8, <1>9, <1>10, <1>11, <1>12

\* A process waits, or searches and ends.
LEMMA MoveStep ==
    ASSUME SearchInv, NEW p \in Processes, Wait(p) \/ Search(p) \/ SearchFails(p)
    PROVE  SearchInv'
<1> USE DEF SearchInv
<1>1. PICK place \in PCs \ {"boot"} :
        /\ Goto(p, place)
        /\ place \in Searched => pc[p] = "search"
        /\ pc[p] \in {"arrived", "search"}
  BY DEF Wait, Search, SearchFails, PCs, Searched
<1>2. UNCHANGED <<level, tokens, main, error, results, outcome>>
  BY DEF Wait, Search, SearchFails
<1>3. Came' = Came /\ pc' \in [Processes -> PCs] /\ Processes' = Processes
  BY <1>1, <1>2, CameUnchanged
<1>4. Conc' = Conc
  BY <1>2 DEF Conc
<1>5. TypeOK'
  BY <1>2, <1>3, <1>4 DEF TypeOK
<1>6. BarrierInv'
  BY <1>1, <1>2, <1>3 DEF Goto, TypeOK, BarrierInv, Searched
<1>7. ResultsInv'
  BY <1>2 DEF ResultsInv
<1>8. NobodyStartsEarly'
  BY <1>1, <1>3 DEF Goto, TypeOK, NobodyStartsEarly, Searched
<1>9. LevelsAreWhole'
  <2>1. ~(main = "exit" /\ ~error)
    BY <1>1 DEF LevelsAreWhole, LevelCountsEveryProcess
  <2>2. QED
    BY <1>2, <2>1 DEF LevelsAreWhole, LevelCountsEveryProcess, ReturnsAPrefix, SomeThroughput
<1>10. QED
  BY <1>5, <1>6, <1>7, <1>8, <1>9

\* The pool breaks: those still at work are dead.
LEMMA CrashStep ==
    ASSUME SearchInv, Crash
    PROVE  SearchInv'
<1> USE DEF SearchInv
<1>1. Processes' = Processes /\ Conc' = Conc
      /\ pc' = [p \in Processes |-> IF pc[p] \in Over THEN pc[p] ELSE "dead"]
  BY DEF Crash, Processes, Conc
<1>2. Came' = Processes
  BY <1>1 DEF Came, Over
<1>3. Cardinality(Came') = Conc /\ Conc \in Nat
  BY <1>1, <1>2, CameType, FS_Interval DEF Processes
<1>4. TypeOK'
  BY <1>1 DEF Crash, TypeOK, PCs, Over
<1>5. BarrierInv'
  BY <1>1, <1>3 DEF Crash, TypeOK, BarrierInv, Searched, Over
<1>6. ResultsInv'
  BY DEF Crash, ResultsInv
<1>7. NobodyStartsEarly'
  BY <1>1 DEF NobodyStartsEarly, Over
<1>8. LevelsAreWhole'
  <2>1. ~(main = "exit" /\ ~error)
    BY DEF Crash, LevelsAreWhole, LevelCountsEveryProcess, Over
  <2>2. QED
    BY <2>1 DEF Crash, LevelsAreWhole, LevelCountsEveryProcess, ReturnsAPrefix, SomeThroughput
<1>9. QED
  BY <1>4, <1>5, <1>6, <1>7, <1>8

\* The main process goes on when every token is there, or gives up.
LEMMA FillStep ==
    ASSUME SearchInv, Fill \/ FillTimesOut
    PROVE  SearchInv'
<1> USE DEF SearchInv
<1>1. UNCHANGED <<level, pc, tokens, results, outcome>> /\ main = "fill"
  BY DEF Fill, FillTimesOut
<1>2. Processes' = Processes /\ Conc' = Conc /\ Came' = Came
  BY <1>1 DEF Processes, Conc, Came
<1>3. Fill => \A p \in Processes : pc[p] # "boot"
  <2> SUFFICES ASSUME Fill PROVE Came = Processes
    BY DEF Came
  <2>1. Cardinality(Came) = Conc
    BY CameType DEF Fill, TypeOK, BarrierInv
  <2>2. QED
    BY <2>1, CameType
<1>4. TypeOK'
  BY <1>1, <1>2 DEF Fill, FillTimesOut, TypeOK, Mains
<1>5. BarrierInv'
  BY <1>1, <1>2, <1>3 DEF Fill, FillTimesOut, BarrierInv
<1>6. ResultsInv'
  BY <1>1 DEF Fill, FillTimesOut, ResultsInv
<1>7. NobodyStartsEarly'
  BY <1>1, <1>2 DEF NobodyStartsEarly
<1>8. LevelsAreWhole'
  BY <1>1, <1>2 DEF Fill, FillTimesOut, ResultsInv, LevelsAreWhole,
                    LevelCountsEveryProcess, ReturnsAPrefix
<1>9. QED
  BY <1>4, <1>5, <1>6, <1>7, <1>8

\* Those that wait are woken.
LEMMA NotifyStep ==
    ASSUME SearchInv, Notify
    PROVE  SearchInv'
<1> USE DEF SearchInv
<1>1. Processes' = Processes /\ Conc' = Conc
      /\ pc' = [p \in Processes |-> IF pc[p] = "waiting" THEN "search" ELSE pc[p]]
  BY DEF Notify, Processes, Conc
<1>2. Came' = Came
  BY <1>1 DEF Came
<1>3. \A p \in Processes : pc'[p] # "boot"
  BY <1>1 DEF Notify, BarrierInv
<1>4. TypeOK'
  BY <1>1 DEF Notify, TypeOK, PCs, Mains
<1>5. BarrierInv'
  BY <1>1, <1>2, <1>3 DEF Notify, BarrierInv
<1>6. ResultsInv'
  BY DEF Notify, ResultsInv
<1>7. NobodyStartsEarly'
  BY <1>1, <1>3 DEF NobodyStartsEarly
<1>8. LevelsAreWhole'
  BY DEF Notify, ResultsInv, LevelsAreWhole, LevelCountsEveryProcess, ReturnsAPrefix
<1>9. QED
  BY <1>4, <1>5, <1>6, <1>7, <1>8

\* The results of a level are added, all of them or none.
LEMMA CollectStep ==
    ASSUME SearchInv, Collect \/ CollectFails
    PROVE  SearchInv'
<1> USE DEF SearchInv
<1>1. UNCHANGED <<level, pc, tokens, outcome>> /\ main = "collect" /\ main' = "exit"
  BY DEF Collect, CollectFails
<1>2. Processes' = Processes /\ Conc' = Conc /\ Came' = Came /\ Counted' = Counted
  BY <1>1 DEF Processes, Conc, Came, Counted
<1>3. Counted \in Nat /\ results \in Seq(Nat) /\ level \in 1..Len(Concurrencies)
      /\ error = FALSE /\ Len(results) = level - 1
  BY <1>1, CountedType DEF TypeOK, ResultsInv
<1>4. \/ /\ results' = Append(results, Counted) /\ error' = error
         /\ \A p \in Processes : pc[p] \in {"found", "nothing"}
      \/ results' = results /\ error' = TRUE
  BY DEF Collect, CollectFails
<1>5. TypeOK'
  <2>1. results' \in Seq(Nat) /\ Len(results') <= level /\ error' \in BOOLEAN
    <3>1. CASE results' = Append(results, Counted) /\ error' = error
      <4>1. results' \in Seq(Nat) /\ Len(results') = Len(results) + 1
        BY <1>3, <3>1
      <4>2. Len(results') <= level
        <5>1. level \in Int /\ Len(results') = (level - 1) + 1
          BY <1>3, <4>1
        <5>2. QED
          BY <5>1
      <4>3. error' \in BOOLEAN
        BY <1>3, <3>1
      <4>4. QED
        BY <4>1, <4>2, <4>3
    <3>2. CASE results' = results /\ error' = TRUE
      BY <1>3, <3>2
    <3>3. QED
      BY <1>4, <3>1, <3>2
  <2>2. Len(results') <= Len(Concurrencies)
    BY <1>3, <2>1
  <2>3. QED
    BY <1>1, <1>2, <2>1, <2>2 DEF TypeOK, Mains
<1>6. BarrierInv'
  BY <1>1, <1>2 DEF BarrierInv
<1>7. ResultsInv'
  BY <1>1, <1>3, <1>4 DEF ResultsInv
<1>8. NobodyStartsEarly'
  BY <1>1, <1>2 DEF NobodyStartsEarly
<1>9. LevelsAreWhole'
  BY <1>1, <1>2, <1>3, <1>4 DEF ResultsInv, LevelsAreWhole, LevelCountsEveryProcess, ReturnsAPrefix
<1>10. QED
  BY <1>5, <1>6, <1>7, <1>8, <1>9

\* The next level starts afresh.
LEMMA NextLevelStep ==
    ASSUME SearchInv, NextLevel
    PROVE  SearchInv'
<1> USE DEF SearchInv
<1>1. level' = level + 1 /\ level' \in 1..Len(Concurrencies)
  BY DEF NextLevel, TypeOK
<1>2. Conc' \in Nat \ {0} /\ pc' = [p \in Processes' |-> "boot"]
  BY <1>1, ConcType DEF NextLevel, Pool, Processes, Conc
<1>3. TypeOK'
  BY <1>1, <1>2 DEF NextLevel, TypeOK, PCs, Mains
<1>4. BarrierInv'
  <2>1. Came' = {}
    BY <1>2 DEF Came
  <2>2. tokens' <= Cardinality(Came')
    BY <2>1, FS_EmptySet DEF NextLevel
  <2>3. QED
    BY <1>2, <2>2 DEF NextLevel, BarrierInv, Searched
<1>5. ResultsInv'
  BY <1>1 DEF NextLevel, PoolOver, ResultsInv, TypeOK
<1>6. NobodyStartsEarly'
  BY <1>2 DEF NobodyStartsEarly
<1>7. LevelsAreWhole'
  BY DEF NextLevel, PoolOver, ResultsInv, LevelsAreWhole, LevelCountsEveryProcess, ReturnsAPrefix
<1>8. QED
  BY <1>3, <1>4, <1>5, <1>6, <1>7

\* The test returns what it has, or raises.
LEMMA EndStep ==
    ASSUME SearchInv, Return \/ Raise
    PROVE  SearchInv'
<1> USE DEF SearchInv
<1>1. UNCHANGED <<level, pc, tokens, error, results>> /\ main = "exit" /\ main' = "ended"
  BY DEF Return, Raise, Ends, PoolOver
<1>2. Processes' = Processes /\ Conc' = Conc /\ Came' = Came
  BY <1>1 DEF Processes, Conc, Came
<1>3. TypeOK'
  BY <1>1, <1>2 DEF Return, Raise, Ends, TypeOK, Mains
<1>4. BarrierInv'
  BY <1>1, <1>2 DEF BarrierInv
<1>5. ResultsInv'
  BY <1>1 DEF ResultsInv
<1>6. NobodyStartsEarly'
  BY <1>1, <1>2 DEF NobodyStartsEarly
<1>7. LevelsAreWhole'
  BY <1>1 DEF Return, Raise, Ends, ResultsInv, LevelsAreWhole, LevelCountsEveryProcess,
              ReturnsAPrefix, SomeThroughput
<1>8. QED
  BY <1>3, <1>4, <1>5, <1>6, <1>7

\* A stutter changes nothing.
LEMMA StutterStep ==
    ASSUME SearchInv, UNCHANGED vars
    PROVE  SearchInv'
BY DEF vars, SearchInv, TypeOK, BarrierInv, ResultsInv, NobodyStartsEarly, LevelsAreWhole,
       LevelCountsEveryProcess, ReturnsAPrefix, SomeThroughput, Processes, Conc, Came, Counted

-----------------------------------------------------------------------------
(* The theorems                                                            *)

(***************************************************************************)
(* The inductive invariant of a concurrent search: who has come to the     *)
(* barrier, and which levels have a result.                                *)
(***************************************************************************)
THEOREM SearchInvariant == Spec => []SearchInv
<1>1. ASSUME SearchInv, [Next]_vars PROVE SearchInv'
  <2>1. CASE \E p \in Processes : Process(p)
    BY <1>1, <2>1, PutStep, MoveStep DEF Process
  <2>2. CASE Crash
    BY <1>1, <2>2, CrashStep
  <2>3. CASE Main \/ FillTimesOut
    BY <1>1, <2>3, FillStep, NotifyStep, CollectStep, NextLevelStep, EndStep DEF Main
  <2>4. CASE UNCHANGED vars
    BY <1>1, <2>4, StutterStep
  <2>5. QED
    BY <1>1, <2>1, <2>2, <2>3, <2>4 DEF Next
<1>2. QED
  BY InitSearch, <1>1, PTL DEF Spec

(***************************************************************************)
(* The state of the search keeps its types; no more tokens are in the      *)
(* queue than a level has processes.                                       *)
(***************************************************************************)
THEOREM TypeCorrect == Spec => []TypeOK
<1>1. SearchInv => TypeOK
  BY DEF SearchInv
<1>2. QED
  BY <1>1, SearchInvariant, PTL

(***************************************************************************)
(* No process of a level searches before all have come to the barrier,     *)
(* for any number of processes (mp_runner.py, search and the notifying).   *)
(***************************************************************************)
THEOREM NobodyEarly == Spec => []NobodyStartsEarly
<1>1. SearchInv => NobodyStartsEarly
  BY DEF SearchInv
<1>2. QED
  BY <1>1, SearchInvariant, PTL

(***************************************************************************)
(* A level that is recorded counts every process of it, and the levels     *)
(* returned are a prefix of those asked for, whatever fails, dies or times *)
(* out on the way (mp_runner.py, _run_all_concurrencies_mem_efficient).    *)
(***************************************************************************)
THEOREM WholeLevels == Spec => []LevelsAreWhole
<1>1. SearchInv => LevelsAreWhole
  BY DEF SearchInv
<1>2. QED
  BY <1>1, SearchInvariant, PTL
=============================================================================
