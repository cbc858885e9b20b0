------------------------------ MODULE VectorClients ------------------------------
(*******************************************************************************)
(* The clients of dedicated vector databases: what ClientKinds says of each      *)
(*******************************************************************************)
EXTENDS ClientKinds

\* Chroma: add() by id; a failing reset is only logged.
ChromaPrepare == [DropOrReuse EXCEPT !.oldFails = "ignore"]
ChromaInsert == Inserts("nothing", "once", "report", "none")
ChromaOptimize == "none"
ChromaMetric == IndexAsAsked
ChromaSearch == SearchByIndex

\* Endee: drop_old is not read; the space type comes from the connection settings.
EndeePrepare == [DropOrReuse EXCEPT !.old = "keep"]
EndeeInsert == Inserts("any", "once", "report", "none")
EndeeOptimize == "none"
EndeeMetric == IndexAlwaysCosine
EndeeFilter == IdAndLabelFilter
EndeeSearch == SearchByIndex

\* KTANN: made only anew; a failed insert is a PartialInsertError, which is not retried.
KTANNPrepare == [DropAndMake EXCEPT !.fresh = TRUE]
KTANNInsert == Inserts("prefix", "add", "final", "prefix")
KTANNOptimize == "call"
KTANNMetric == [IndexAsAsked EXCEPT !.IP = "none"]
KTANNFilter == IdAndLabelFilter
KTANNSearch == SearchByIndex

\* LanceDB: the table is created with overwrite when it cannot be opened.
LanceDBPrepare == DropOrReuse
LanceDBInsert == Inserts("prefix", "add", "report", "none")
LanceDBOptimize == "call"
LanceDBMetric == IndexAsAsked
LanceDBFilter == IdAndLabelFilter
LanceDBSearch == SearchByIndex

\* Milvus
MilvusPrepare == DropOrReuse
MilvusInsert == Inserts("any", "add", "report", "none")
MilvusOptimize == "poll"
MilvusMetric == IndexAsAsked
MilvusFilter == IdAndLabelFilter
MilvusSearch == SearchByIndex

\* Pinecone: the index and its metric are made by the user.
PineconePrepare == [DropAndMake EXCEPT !.make = "never"]
PineconeInsert == Inserts("prefix", "once", "report", "prefix")
PineconeOptimize == "none"
PineconeFilter == IdAndLabelFilter
PineconeSearch == SearchByIndex

\* QdrantCloud
QdrantCloudPrepare == DropAndMake
QdrantCloudInsert == Inserts("prefix", "once", "report", "none")
QdrantCloudOptimize == "poll"
QdrantCloudMetric == IndexAsAsked
QdrantCloudFilter == IdAndLabelFilter
QdrantCloudSearch == SearchByIndex

\* QdrantLocal: turns the index off before the try; counts whole sub-batches, the last one too.
QdrantLocalPrepare == DropOrReuse
QdrantLocalInsert == [Inserts("prefix", "once", "report", "chunks") EXCEPT !.raises = "first"]
QdrantLocalOptimize == "poll"
QdrantLocalMetric == IndexAsAsked
QdrantLocalSearch == SearchByIndex

\* S3Vectors
S3VectorsPrepare == DropAndMake
S3VectorsInsert == Inserts("prefix", "once", "report", "prefix")
S3VectorsOptimize == "none"
S3VectorsMetric == [IndexAsAsked EXCEPT !.IP = "none"]
S3VectorsFilter == IdAndLabelFilter
S3VectorsSearch == SearchByIndex

\* TurboPuffer: the namespace is made by the first write; the warm-up is not waited for.
TurboPufferPrepare == [DropAndMake EXCEPT !.oldFails = "ignore", !.make = "at_write"]
TurboPufferInsert == Inserts("nothing", "once", "report", "none")
TurboPufferOptimize == "none"
TurboPufferMetric == [IndexAsAsked EXCEPT !.IP = "none"]
TurboPufferFilter == IdAndLabelFilter
TurboPufferSearch == SearchByIndex

\* WeaviateCloud: objects get no id of ours; the count is that of the objects queued.
WeaviateCloudPrepare == DropOrReuse
WeaviateCloudInsert == [Inserts("any", "add", "report", "sent") EXCEPT !.quiet = TRUE]
WeaviateCloudOptimize == "none"
WeaviateCloudMetric == IndexAsAsked
WeaviateCloudSearch == SearchByIndex

\* Zvec: the status of each document that insert() returns is not looked at.
ZvecPrepare == DropAndMake
ZvecInsert == [Inserts("any", "once", "report", "none") EXCEPT !.quiet = TRUE]
ZvecOptimize == "call"
ZvecMetric == IndexAsAsked
ZvecFilter == IdAndLabelFilter
ZvecSearch == SearchByIndex

===============================================================================
