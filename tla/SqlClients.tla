------------------------------ MODULE SqlClients ------------------------------
(*******************************************************************************)
(* The clients of databases spoken to in SQL: what ClientKinds says of each      *)
(*******************************************************************************)
EXTENDS ClientKinds

\* Adbpg: COPY in an open transaction, no rollback.
AdbpgPrepare == DropAndMake
AdbpgInsert == CopyWithoutRollback
AdbpgOptimize == "call"
AdbpgMetric == IndexAsAsked
AdbpgFilter == IdAndLabelFilter
AdbpgSearch == SearchAsAsked

\* AliSQL
AliSQLPrepare == DropAndMake
AliSQLInsert == Inserts("nothing", "refuse", "report", "none")
AliSQLOptimize == "call"
AliSQLMetric == [IndexAsAsked EXCEPT !.IP = "none"]
AliSQLSearch == SearchAsAsked

\* AlloyDB: an inner product case is indexed by cosine: parse_metric asks for DP, the case says IP.
AlloyDBPrepare == DropAndMake
AlloyDBInsert == CopyWithoutRollback
AlloyDBOptimize == "call"
AlloyDBMetric == [IndexAsAsked EXCEPT !.IP = "COSINE"]
AlloyDBSearch == SearchAsAsked

\* Clickhouse: an inner product case is indexed by cosine and searched by L2Distance.
ClickhousePrepare == DropAndMake
ClickhouseInsert == Inserts("any", "add", "report", "none")
ClickhouseOptimize == "none"
ClickhouseMetric == [IndexAsAsked EXCEPT !.IP = "COSINE"]
ClickhouseSearch == [SearchAsAsked EXCEPT !.IP = "L2"]

\* CockroachDB: rows get a random key; db_retry around the insert never sees an error.
CockroachDBPrepare == DropAndMake
CockroachDBInsert == [CopyWithoutRollback EXCEPT !.again = "add"]
CockroachDBOptimize == "capped_raise"
CockroachDBMetric == IndexAsAsked
CockroachDBFilter == IdAndLabelFilter
CockroachDBSearch == SearchAsAsked

\* Doris: a failing search is answered with an empty list.
DorisPrepare == DropAndMake
DorisInsert == Inserts("any", "add", "report", "none")
DorisOptimize == "none"
DorisMetric == [IndexAsAsked EXCEPT !.COSINE = "IP", !.unit = TRUE]
DorisSearch == [SearchAsAsked EXCEPT !.COSINE = "IP", !.swallows = {"call", "answer"}]

\* Hologres: with the Graph index (the one modelled) cosine is indexed as inner product and
\* nothing is normalised.
HologresPrepare == DropAndMake
HologresInsert == Inserts("nothing", "refuse", "report", "none")
HologresOptimize == "call"
HologresMetric == [IndexAsAsked EXCEPT !.COSINE = "IP"]
HologresSearch == [SearchAsAsked EXCEPT !.COSINE = "IP"]

\* LakebaseVector
LakebaseVectorPrepare == DropAndMake
LakebaseVectorInsert == Inserts("nothing", "refuse", "report", "none")
LakebaseVectorOptimize == "call"
LakebaseVectorMetric == IndexAsAsked
LakebaseVectorFilter == IdAndLabelFilter
LakebaseVectorSearch == SearchAsAsked

\* MariaDB: optimize() does not take the data_size it is called with, and the search statement
\* lacks a space before ORDER.
MariaDBPrepare == DropAndMake
MariaDBInsert == Inserts("nothing", "refuse", "report", "none")
MariaDBOptimize == "broken"
MariaDBMetric == [IndexAsAsked EXCEPT !.IP = "none"]
MariaDBSearch == [SearchAsAsked EXCEPT !.L2 = "none", !.IP = "none", !.COSINE = "none"]

\* OceanBase: the label filter is written with ==, which the database cannot read.
OceanBasePrepare == DropAndMake
OceanBaseInsert == Inserts("prefix", "refuse", "raise", "none")
OceanBaseOptimize == "poll"
OceanBaseMetric == IndexAsAsked
OceanBaseFilter == [IdAndLabelFilter EXCEPT !.label = "none"]
OceanBaseSearch == SearchAsAsked

\* PgDiskANN
PgDiskANNPrepare == DropAndMake
PgDiskANNInsert == CopyWithoutRollback
PgDiskANNOptimize == "call"
PgDiskANNMetric == IndexAsAsked
PgDiskANNFilter == IdAndLabelFilter
PgDiskANNSearch == SearchAsAsked

\* PgVectoRS
PgVectoRSPrepare == DropAndMake
PgVectoRSInsert == CopyWithoutRollback
PgVectoRSOptimize == "call"
PgVectoRSMetric == IndexAsAsked
PgVectoRSSearch == SearchAsAsked

\* PgVector
PgVectorPrepare == DropAndMake
PgVectorInsert == CopyWithoutRollback
PgVectorOptimize == "call"
PgVectorMetric == IndexAsAsked
PgVectorFilter == IdAndLabelFilter
PgVectorSearch == SearchAsAsked

\* PgVectorScale: only cosine has an operator.
PgVectorScalePrepare == DropAndMake
PgVectorScaleInsert == CopyWithoutRollback
PgVectorScaleOptimize == "call"
PgVectorScaleMetric == [IndexAsAsked EXCEPT !.L2 = "none", !.IP = "none"]
PgVectorScaleSearch == [SearchAsAsked EXCEPT !.L2 = "none", !.IP = "none"]

\* Pinot: a row is counted when it enters the buffer of its thread; the last buffers are
\* flushed when the connection closes, and an error there is only logged.
PinotPrepare == [DropOrReuse EXCEPT !.oldFails = "ignore"]
PinotInsert == [Inserts("any", "add", "report", "none") EXCEPT !.quiet = TRUE]
PinotOptimize == "capped_ignore"
PinotMetric == IndexAsAsked
PinotFilter == IdAndLabelFilter
PinotSearch == SearchAsAsked

\* PolarDB
PolarDBPrepare == DropAndMake
PolarDBInsert == Inserts("any", "refuse", "report", "none")
PolarDBOptimize == "poll"
PolarDBMetric == IndexAsAsked
PolarDBSearch == SearchAsAsked

\* SeekDB
SeekDBPrepare == DropAndMake
SeekDBInsert == Inserts("prefix", "add", "raise", "none")
SeekDBOptimize == "none"
SeekDBMetric == IndexAsAsked
SeekDBFilter == IdFilter
SeekDBSearch == SearchAsAsked

\* TiDB: sub-batches in ten connections, of no rows when there are less than ten; an error
\* is raised, not reported.
TiDBPrepare == DropAndMake
TiDBInsert == [Inserts("any", "refuse", "raise", "none") EXCEPT !.raises = "few"]
TiDBOptimize == "poll"
TiDBMetric == [IndexAsAsked EXCEPT !.IP = "none"]
TiDBSearch == SearchAsAsked

\* VectorChord
VectorChordPrepare == DropAndMake
VectorChordInsert == CopyWithoutRollback
VectorChordOptimize == "call"
VectorChordMetric == IndexAsAsked
VectorChordFilter == IdFilter
VectorChordSearch == SearchAsAsked

\* VolcMySQL: LOAD DATA LOCAL skips the rows whose key is there and counts those it wrote.
VolcMySQLPrepare == DropAndMake
VolcMySQLInsert == Inserts("any", "skip", "report", "written")
VolcMySQLOptimize == "call"
VolcMySQLMetric == [IndexAsAsked EXCEPT !.IP = "none"]
VolcMySQLFilter == IdFilter
VolcMySQLSearch == SearchAsAsked

===============================================================================
