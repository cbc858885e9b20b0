----------------------------- MODULE MCClientRun -----------------------------
(*******************************************************************************)
(* Values for ClientRun: all databases, three rows in two batches               *)
(*******************************************************************************)
EXTENDS ClientRun, Clients

MCDatabases == DOMAIN DB
MCProfile == DB

Where(P(_)) == {d \in DOMAIN DB : P(DB[d])}
KeepsOld(p) == p.prepare.old = "keep"
IgnoresDrop(p) == p.prepare.oldFails = "ignore"
LosesQuietly(p) == p.insert.quiet
StoresTwice(p) ==
  p.insert.again = "add" /\ p.insert.fails = "report" /\ p.insert.after = "usable"
Miscounts(p) == p.insert.counts = "chunks"

\* The databases StoredAsCounted says nothing about, by what can go wrong with each.
ASSUME Inexact ==
  /\ Where(KeepsOld) = {"Redis", "AliyunOpenSearch", "Endee"}
  /\ Where(IgnoresDrop) = {"Redis", "Chroma", "Vespa", "TurboPuffer", "Pinot"}
  /\ Where(LosesQuietly) = {"WeaviateCloud", "AWSOpenSearch", "OSSOpenSearch", "Vespa",
                            "Lindorm", "Pinot", "Zvec"}
  /\ Where(StoresTwice) = {"Milvus", "ZillizCloud", "ElasticCloud", "AliyunElasticsearch",
                           "TencentElasticsearch", "WeaviateCloud", "MongoDB", "Clickhouse",
                           "LanceDB", "Doris", "Pinot"}
  /\ Where(Miscounts) = {"QdrantLocal"}
  /\ Where(Exact) = DOMAIN DB \ (Where(KeepsOld) \cup Where(IgnoresDrop) \cup Where(LosesQuietly)
                                  \cup Where(StoresTwice) \cup Where(Miscounts))

===============================================================================
