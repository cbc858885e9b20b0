------------------------------ MODULE SearchEngineClients ------------------------------
(*******************************************************************************)
(* The clients of search engines, document and key-value stores: what           *)
(* ClientKinds says of each                                                      *)
(*******************************************************************************)
EXTENDS ClientKinds

\* AliyunOpenSearch: an existing table is modified, its rows stay; ready is a row count.
AliyunOpenSearchPrepare == [DropAndMake EXCEPT !.old = "keep"]
AliyunOpenSearchInsert == Inserts("prefix", "once", "report", "prefix")
AliyunOpenSearchOptimize == "row_count"
AliyunOpenSearchMetric == [IndexAsAsked EXCEPT !.COSINE = "IP", !.unit = TRUE]
AliyunOpenSearchSearch == SearchByIndex

\* AWSOpenSearch: the answer of a bulk request is not looked at; the metric is metric_type_name.
AWSOpenSearchPrepare == DropOrReuse
AWSOpenSearchInsert == [Inserts("prefix", "once", "report", "prefix") EXCEPT !.quiet = TRUE]
AWSOpenSearchOptimize == "poll"
AWSOpenSearchMetric == IndexByName
AWSOpenSearchFilter == [IdAndLabelFilter EXCEPT !.atLeast = FALSE]
AWSOpenSearchSearch == [SearchByIndex EXCEPT !.swallows = {"answer"}]

\* ElasticCloud: documents get no _id of ours; the number filter is gt.
ElasticCloudPrepare == DropAndMake
ElasticCloudInsert == Inserts("prefix", "add", "report", "none")
ElasticCloudOptimize == "call"
ElasticCloudMetric == IndexAsAsked
ElasticCloudFilter == [IdAndLabelFilter EXCEPT !.atLeast = FALSE]
ElasticCloudSearch == SearchByIndex

\* Lindorm: parallel sub-batches; the count with an error is of those that ended first.
LindormPrepare == DropOrReuse
LindormInsert == [Inserts("any", "once", "report", "any") EXCEPT !.quiet = TRUE]
LindormOptimize == "poll"
LindormMetric == IndexAsAsked
LindormFilter == [IdAndLabelFilter EXCEPT !.atLeast = FALSE]
LindormSearch == SearchByIndex

\* MemoryDB
MemoryDBPrepare == DropOrReuse
MemoryDBInsert == Inserts("prefix", "once", "report", "none")
MemoryDBOptimize == "poll"
MemoryDBMetric == IndexAsAsked
MemoryDBSearch == SearchByIndex

\* MongoDB
MongoDBPrepare == [DropAndMake EXCEPT !.make = "at_write"]
MongoDBInsert == Inserts("any", "add", "report", "none")
MongoDBOptimize == "poll"
MongoDBMetric == IndexAsAsked
MongoDBSearch == SearchByIndex

\* OSSOpenSearch: a failing bulk request is tried again for ever.
OSSOpenSearchPrepare == DropOrReuse
OSSOpenSearchInsert == [Inserts("any", "once", "again", "none") EXCEPT !.quiet = TRUE]
OSSOpenSearchOptimize == "poll"
OSSOpenSearchMetric == [IndexByName EXCEPT !.unit = TRUE]
OSSOpenSearchFilter == [IdAndLabelFilter EXCEPT !.atLeast = FALSE]
OSSOpenSearchSearch == [SearchByIndex EXCEPT !.swallows = {"answer"}]

\* Redis: the index is dropped, its hashes stay and are indexed again; always cosine.
RedisPrepare == [DropOrReuse EXCEPT !.old = "keep", !.oldFails = "ignore"]
RedisInsert == Inserts("prefix", "once", "report", "none")
RedisOptimize == "none"
RedisMetric == IndexAlwaysCosine
RedisSearch == SearchByIndex

\* TencentElasticsearch
TencentElasticsearchOptimize == "call"
TencentElasticsearchMetric == IndexAsAsked

\* Vespa: put by id, without a callback for the outcome of each document.
VespaPrepare == [DropOrReuse EXCEPT !.oldFails = "ignore"]
VespaInsert == [Inserts("any", "once", "raise", "none") EXCEPT !.quiet = TRUE]
VespaOptimize == "none"
VespaMetric == IndexAsAsked
VespaFilter == IdFilter
VespaSearch == SearchByIndex

===============================================================================
