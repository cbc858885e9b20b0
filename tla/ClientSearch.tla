----------------------------- MODULE ClientSearch -----------------------------
(*******************************************************************************)
(* The meaning of an answer.  A case names a dataset with its metric and a       *)
(* filter; the recall of a search compares what the database answered with the    *)
(* neighbours the dataset publishes for that metric and filter.  In between the    *)
(* client turns the metric into that of an index and of a query, the runner may     *)
(* normalise the vectors, and the client turns the filter into an expression:        *)
(* the answer is the truth only when all of them agree.                              *)
(*                                                                                   *)
(* The database is exact here: it returns the K best rows by the metric it was         *)
(* asked to rank by.  A vector is a direction, of length 5, and how many times as        *)
(* long it is, so that normalising and every comparison stay in the integers.             *)
(*******************************************************************************)
EXTENDS ClientKinds, Integers

CONSTANTS
  Databases,    \* the databases to search
  Profile,      \* what the client of each of them does
  NumRows,      \* rows of the dataset; their ids count from 0
  Vectors,      \* the vectors to choose rows and queries from
  K,            \* case_config.k
  Misranks,     \* pairs of a database and a metric it does not rank by
  Unserved,     \* pairs of a database and a metric whose queries its index does not serve
  Misfilters    \* pairs of a database and a filter it does not apply as named

Ids == 0 .. NumRows - 1

ASSUME ClientSearchAssumption ==
  /\ Profile \in [Databases -> ClientProfiles]
  /\ NumRows \in Nat \ {0} /\ K \in Nat \ {0}
  /\ Vectors \subseteq [dir : {d \in (0 .. 5) \X (0 .. 5) : d[1] * d[1] + d[2] * d[2] = 25},
                        times : Nat \ {0}]

VARIABLES
  db,        \* the database
  metric,    \* dataset.data.metric_type
  filter,    \* filters.type of the case
  bound,     \* filters.int_value of a number filter
  named,     \* the metric the user gives to a client that takes it by name
  phase,     \* where the case is
  dataset,   \* the vector of each row, as published
  stored,    \* the vector of each row, as inserted
  indexBy,   \* the metric of the index
  rankBy,    \* the metric the query ranked by
  query,     \* the query vector, as published
  answer     \* the rows it was answered with

choice == <<db, metric, filter, bound, named>>
searchVars == <<choice, phase, dataset, stored, indexBy, rankBy, query, answer>>

client == Profile[db]

\* Every other row carries the label that a label filter asks for.
Labelled(id) == id % 2 = 1

-------------------------------------------------------------------------------
\* How the three metrics compare two vectors with a query: the values are those of the
\* metrics, or grow and fall with them.
Times(n, v) == <<n * v[1], n * v[2]>>
Dot(v, w) == v[1] * w[1] + v[2] * w[2]
Minus(v, w) == <<v[1] - w[1], v[2] - w[2]>>
Long(v) == Times(v.times, v.dir)

Closer(m, q, v, w) ==
  \/ m = "L2" /\ LET a == Minus(Long(q), Long(v))
                     b == Minus(Long(q), Long(w))
                 IN Dot(a, a) < Dot(b, b)
  \/ m = "IP" /\ Dot(Long(q), Long(v)) > Dot(Long(q), Long(w))
  \/ m = "COSINE" /\ Dot(q.dir, v.dir) > Dot(q.dir, w.dir)

Fewest(a, b) == IF a < b THEN a ELSE b

\* The sets of K rows of among that are nearest to q, where vector gives the rows.
Nearest(m, q, vector, among) ==
  {best \in SUBSET among :
     /\ Cardinality(best) = Fewest(K, Cardinality(among))
     /\ \A r \in best, s \in among \ best : ~Closer(m, q, vector[s], vector[r])}

\* v / np.linalg.norm(v)
Normalised(v) == [v EXCEPT !.times = 1]

\* CaseRunner.normalize
normalize == client.metric.unit /\ metric = "COSINE"

\* Mutant: the vectors go as they are, whatever the client asks for.
AsPublished(v) == v

AsSent(v) == IF normalize THEN Normalised(v) ELSE v

-------------------------------------------------------------------------------
\* The rows a case is about: FilterOp says >= and == of them.
Asked ==
  {id \in Ids :
     /\ filter = "NumGE" => id >= bound
     /\ filter = "StrEqual" => Labelled(id)}

\* The rows the expression of prepare_filter lets through.
LetThrough ==
  {id \in Ids :
     /\ filter = "NumGE" => id > bound \/ (client.filter.atLeast /\ id = bound)
     /\ filter = "StrEqual" => Labelled(id)}

\* The expression is one the database can read.
Readable == filter = "StrEqual" => client.filter.label # "none"

\* Mutant: the index is one for cosine cases, whatever the case.
IndexMetricOfCosine ==
  IF client.metric[metric] = "named" THEN named ELSE client.metric["COSINE"]

IndexMetric == IF client.metric[metric] = "named" THEN named ELSE client.metric[metric]

SearchMetric == IF client.search[metric] = "index" THEN indexBy ELSE client.search[metric]

-------------------------------------------------------------------------------
\* What the tables of the clients say of a case on a metric, when the user gives that metric
\* to the clients that take it by name.
IndexOf(d, m) == IF Profile[d].metric[m] = "named" THEN m ELSE Profile[d].metric[m]
RankOf(d, m) == IF Profile[d].search[m] = "index" THEN IndexOf(d, m) ELSE Profile[d].search[m]
Answers(d, m) == "none" \notin {IndexOf(d, m), RankOf(d, m)}

\* On vectors of one length the three metrics rank alike.
OnUnitVectors(d, m) == Profile[d].metric.unit /\ m = "COSINE"

\* The exceptions are those of the tables, and no more is asked of them.
ASSUME MisranksAssumption ==
  \A d \in Databases, m \in Metrics :
    Answers(d, m) /\ <<d, m>> \notin Misranks => RankOf(d, m) = m \/ OnUnitVectors(d, m)

ASSUME UnservedAssumption ==
  \A d \in Databases, m \in Metrics :
    Answers(d, m) /\ <<d, m>> \notin Unserved
      => RankOf(d, m) = IndexOf(d, m) \/ OnUnitVectors(d, m)

ASSUME MisfiltersAssumption ==
  \A d \in Databases, f \in FilterOp :
    f \in Profile[d].filter.declares /\ <<d, f>> \notin Misfilters
      => (f = "NumGE" => Profile[d].filter.atLeast)

-------------------------------------------------------------------------------
SearchInit ==
  /\ db \in Databases /\ metric \in Metrics /\ filter \in FilterOp
  /\ bound \in IF filter = "NumGE" THEN 0 .. NumRows ELSE {0}
  /\ named \in IF client.metric[metric] = "named" THEN Metrics ELSE {metric}
  /\ phase = "assemble"
  /\ dataset = <<>> /\ stored = <<>> /\ query = <<>>
  /\ indexBy = "none" /\ rankBy = "none" /\ answer = {}

\* Assembler.assemble_all: filter_supported, before anything runs.
Assemble ==
  /\ phase = "assemble"
  /\ phase' = IF filter \in client.filter.declares THEN "init_db" ELSE "refused"
  /\ UNCHANGED <<choice, dataset, stored, indexBy, rankBy, query, answer>>

\* The client makes the index of the case; there may be no such index.
CreateIndex ==
  /\ phase = "init_db"
  /\ phase' = IF IndexMetric = "none" THEN "failed" ELSE "load"
  /\ indexBy' = IndexMetric
  /\ UNCHANGED <<choice, dataset, stored, rankBy, query, answer>>

\* ConcurrentInsertRunner sends the rows, normalised where the client says so.
Load ==
  /\ phase = "load"
  /\ dataset' \in [Ids -> Vectors]
  /\ stored' = [id \in Ids |-> AsSent(dataset'[id])]
  /\ phase' = "search"
  /\ UNCHANGED <<choice, indexBy, rankBy, query, answer>>

\* SerialSearchRunner: one query vector, normalised alike, ranked among the rows the filter
\* lets through.
SearchEmbedding ==
  /\ phase = "search"
  /\ rankBy' = SearchMetric
  /\ query' \in Vectors
  /\ IF SearchMetric = "none" \/ ~Readable
     THEN phase' = "failed" /\ UNCHANGED answer
     ELSE /\ phase' = "answered"
          /\ answer' \in Nearest(SearchMetric, AsSent(query'), stored, LetThrough)
  /\ UNCHANGED <<choice, dataset, stored, indexBy>>

Ended == phase \in {"refused", "failed", "answered"} /\ UNCHANGED searchVars

SearchNext == Assemble \/ CreateIndex \/ Load \/ SearchEmbedding \/ Ended

SearchSpec == SearchInit /\ [][SearchNext]_searchVars

-------------------------------------------------------------------------------
SearchTypeOK ==
  /\ db \in Databases /\ metric \in Metrics /\ filter \in FilterOp
  /\ bound \in 0 .. NumRows /\ named \in Metrics
  /\ phase \in {"assemble", "init_db", "load", "search", "refused", "failed", "answered"}
  /\ dataset \in [Ids -> Vectors] \cup {<<>>}
  /\ indexBy \in Metrics \cup {"none"} /\ rankBy \in Metrics \cup {"none"}
  /\ answer \subseteq Ids

\* Where the user names the metric, it is that of the dataset.
NamedRight == named = metric

\* An answer of a database that ranks by the metric of the case and applies its filter as
\* named is the K nearest neighbours of the query as the dataset publishes them: among the
\* rows the case is about, by its metric, on vectors nobody has normalised.
AnswerIsTruth ==
  (phase = "answered" /\ NamedRight /\ <<db, metric>> \notin Misranks /\ <<db, filter>> \notin Misfilters)
    => answer \in Nearest(metric, query, dataset, Asked)

\* The index a load builds serves the queries of the case: they rank the stored rows as the
\* index does, so that the database need not scan them.
IndexServesQuery ==
  (phase = "answered" /\ NamedRight /\ <<db, metric>> \notin Unserved)
    => Nearest(rankBy, AsSent(query), stored, Ids) = Nearest(indexBy, AsSent(query), stored, Ids)

===============================================================================
