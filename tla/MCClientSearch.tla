---------------------------- MODULE MCClientSearch ----------------------------
(*******************************************************************************)
(* Values for ClientSearch: all databases, two neighbours of three rows         *)
(*******************************************************************************)
EXTENDS ClientSearch, Clients

MCDatabases == DOMAIN DB
MCProfile == DB

MCVectors ==
  {[dir |-> <<5, 0>>, times |-> 1], [dir |-> <<4, 3>>, times |-> 2],
   [dir |-> <<4, 3>>, times |-> 1], [dir |-> <<0, 5>>, times |-> 3]}

\* Cosine whatever is asked (Redis, Endee); Clickhouse ranks an inner product case by
\* L2Distance; the Graph index of Hologres ranks a cosine case by inner product and
\* nothing is normalised.
MCMisranks ==
  ({"Redis", "Endee"} \X {"L2", "IP"})
  \cup {<<"Clickhouse", "IP">>, <<"Hologres", "COSINE">>}

\* parse_metric falls through to cosine where the query ranks by something else.
MCUnserved == {<<"AlloyDB", "IP">>, <<"Clickhouse", "IP">>}

\* The Elasticsearch and OpenSearch clients filter by "gt", and so does Lindorm's.
MCMisfilters ==
  {"ElasticCloud", "AliyunElasticsearch", "TencentElasticsearch", "AWSOpenSearch",
    "OSSOpenSearch", "Lindorm"} \X {"NumGE"}

===============================================================================
