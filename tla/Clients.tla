------------------------------- MODULE Clients -------------------------------
(*******************************************************************************)
(* Every database the benchmark can be pointed at (backend/clients/__init__.py  *)
(* DB), with the client that init_cls gives for it.  A client that inherits a    *)
(* method has the definition of its parent.  DB.Test, a stub, is left out.       *)
(*******************************************************************************)
EXTENDS SqlClients, SearchEngineClients, VectorClients

DB ==
  [KTANN |->
     Client(KTANNPrepare, KTANNInsert, KTANNOptimize, "assumed",
            KTANNMetric, KTANNFilter, KTANNSearch),
   Milvus |->
     Client(MilvusPrepare, MilvusInsert, MilvusOptimize, "counted",
            MilvusMetric, MilvusFilter, MilvusSearch),
   ZillizCloud |->
     Client(MilvusPrepare, MilvusInsert, MilvusOptimize, "counted",
            MilvusMetric, MilvusFilter, MilvusSearch),
   Pinecone |->
     Client(PineconePrepare, PineconeInsert, PineconeOptimize, "fresh",
            IndexByName, PineconeFilter, PineconeSearch),
   ElasticCloud |->
     Client(ElasticCloudPrepare, ElasticCloudInsert, ElasticCloudOptimize, "assumed",
            ElasticCloudMetric, ElasticCloudFilter, ElasticCloudSearch),
   QdrantCloud |->
     Client(QdrantCloudPrepare, QdrantCloudInsert, QdrantCloudOptimize, "assumed",
            QdrantCloudMetric, QdrantCloudFilter, QdrantCloudSearch),
   QdrantLocal |->
     Client(QdrantLocalPrepare, QdrantLocalInsert, QdrantLocalOptimize, "assumed",
            QdrantLocalMetric, NoFilter, QdrantLocalSearch),
   WeaviateCloud |->
     Client(WeaviateCloudPrepare, WeaviateCloudInsert, WeaviateCloudOptimize, "assumed",
            WeaviateCloudMetric, NoFilter, WeaviateCloudSearch),
   PgVector |->
     Client(PgVectorPrepare, PgVectorInsert, PgVectorOptimize, "assumed",
            PgVectorMetric, PgVectorFilter, PgVectorSearch),
   PgVectoRS |->
     Client(PgVectoRSPrepare, PgVectoRSInsert, PgVectoRSOptimize, "assumed",
            PgVectoRSMetric, NoFilter, PgVectoRSSearch),
   PgVectorScale |->
     Client(PgVectorScalePrepare, PgVectorScaleInsert, PgVectorScaleOptimize, "assumed",
            PgVectorScaleMetric, NoFilter, PgVectorScaleSearch),
   PgDiskANN |->
     Client(PgDiskANNPrepare, PgDiskANNInsert, PgDiskANNOptimize, "assumed",
            PgDiskANNMetric, PgDiskANNFilter, PgDiskANNSearch),
   AlloyDB |->
     Client(AlloyDBPrepare, AlloyDBInsert, AlloyDBOptimize, "assumed",
            AlloyDBMetric, NoFilter, AlloyDBSearch),
   LakebaseVector |->
     Client(LakebaseVectorPrepare, LakebaseVectorInsert, LakebaseVectorOptimize, "assumed",
            LakebaseVectorMetric, LakebaseVectorFilter, LakebaseVectorSearch),
   Redis |->
     Client(RedisPrepare, RedisInsert, RedisOptimize, "assumed",
            RedisMetric, NoFilter, RedisSearch),
   MemoryDB |->
     Client(MemoryDBPrepare, MemoryDBInsert, MemoryDBOptimize, "assumed",
            MemoryDBMetric, NoFilter, MemoryDBSearch),
   Chroma |->
     Client(ChromaPrepare, ChromaInsert, ChromaOptimize, "assumed",
            ChromaMetric, NoFilter, ChromaSearch),
   AWSOpenSearch |->
     Client(AWSOpenSearchPrepare, AWSOpenSearchInsert, AWSOpenSearchOptimize, "assumed",
            AWSOpenSearchMetric, AWSOpenSearchFilter, AWSOpenSearchSearch),
   OSSOpenSearch |->
     Client(OSSOpenSearchPrepare, OSSOpenSearchInsert, OSSOpenSearchOptimize, "assumed",
            OSSOpenSearchMetric, OSSOpenSearchFilter, OSSOpenSearchSearch),
   AliyunElasticsearch |->
     Client(ElasticCloudPrepare, ElasticCloudInsert, ElasticCloudOptimize, "assumed",
            ElasticCloudMetric, ElasticCloudFilter, ElasticCloudSearch),
   MariaDB |->
     Client(MariaDBPrepare, MariaDBInsert, MariaDBOptimize, "assumed",
            MariaDBMetric, NoFilter, MariaDBSearch),
   AliyunOpenSearch |->
     Client(AliyunOpenSearchPrepare, AliyunOpenSearchInsert, AliyunOpenSearchOptimize, "assumed",
            AliyunOpenSearchMetric, NoFilter, AliyunOpenSearchSearch),
   MongoDB |->
     Client(MongoDBPrepare, MongoDBInsert, MongoDBOptimize, "assumed",
            MongoDBMetric, NoFilter, MongoDBSearch),
   TiDB |->
     Client(TiDBPrepare, TiDBInsert, TiDBOptimize, "assumed",
            TiDBMetric, NoFilter, TiDBSearch),
   CockroachDB |->
     Client(CockroachDBPrepare, CockroachDBInsert, CockroachDBOptimize, "assumed",
            CockroachDBMetric, CockroachDBFilter, CockroachDBSearch),
   Clickhouse |->
     Client(ClickhousePrepare, ClickhouseInsert, ClickhouseOptimize, "assumed",
            ClickhouseMetric, NoFilter, ClickhouseSearch),
   Vespa |->
     Client(VespaPrepare, VespaInsert, VespaOptimize, "assumed",
            VespaMetric, VespaFilter, VespaSearch),
   LanceDB |->
     Client(LanceDBPrepare, LanceDBInsert, LanceDBOptimize, "assumed",
            LanceDBMetric, LanceDBFilter, LanceDBSearch),
   OceanBase |->
     Client(OceanBasePrepare, OceanBaseInsert, OceanBaseOptimize, "assumed",
            OceanBaseMetric, OceanBaseFilter, OceanBaseSearch),
   S3Vectors |->
     Client(S3VectorsPrepare, S3VectorsInsert, S3VectorsOptimize, "assumed",
            S3VectorsMetric, S3VectorsFilter, S3VectorsSearch),
   Hologres |->
     Client(HologresPrepare, HologresInsert, HologresOptimize, "assumed",
            HologresMetric, NoFilter, HologresSearch),
   TencentElasticsearch |->
     Client(ElasticCloudPrepare, ElasticCloudInsert, TencentElasticsearchOptimize, "assumed",
            TencentElasticsearchMetric, ElasticCloudFilter, ElasticCloudSearch),
   AliSQL |->
     Client(AliSQLPrepare, AliSQLInsert, AliSQLOptimize, "assumed",
            AliSQLMetric, NoFilter, AliSQLSearch),
   Doris |->
     Client(DorisPrepare, DorisInsert, DorisOptimize, "assumed",
            DorisMetric, NoFilter, DorisSearch),
   TurboPuffer |->
     Client(TurboPufferPrepare, TurboPufferInsert, TurboPufferOptimize, "bytes",
            TurboPufferMetric, TurboPufferFilter, TurboPufferSearch),
   Zvec |->
     Client(ZvecPrepare, ZvecInsert, ZvecOptimize, "assumed",
            ZvecMetric, ZvecFilter, ZvecSearch),
   Endee |->
     Client(EndeePrepare, EndeeInsert, EndeeOptimize, "assumed",
            EndeeMetric, EndeeFilter, EndeeSearch),
   Lindorm |->
     Client(LindormPrepare, LindormInsert, LindormOptimize, "assumed",
            LindormMetric, LindormFilter, LindormSearch),
   VectorChord |->
     Client(VectorChordPrepare, VectorChordInsert, VectorChordOptimize, "assumed",
            VectorChordMetric, VectorChordFilter, VectorChordSearch),
   PolarDB |->
     Client(PolarDBPrepare, PolarDBInsert, PolarDBOptimize, "assumed",
            PolarDBMetric, NoFilter, PolarDBSearch),
   Pinot |->
     Client(PinotPrepare, PinotInsert, PinotOptimize, "assumed",
            PinotMetric, PinotFilter, PinotSearch),
   SeekDB |->
     Client(SeekDBPrepare, SeekDBInsert, SeekDBOptimize, "assumed",
            SeekDBMetric, SeekDBFilter, SeekDBSearch),
   VolcMySQL |->
     Client(VolcMySQLPrepare, VolcMySQLInsert, VolcMySQLOptimize, "assumed",
            VolcMySQLMetric, VolcMySQLFilter, VolcMySQLSearch),
   Adbpg |->
     Client(AdbpgPrepare, AdbpgInsert, AdbpgOptimize, "assumed",
            AdbpgMetric, AdbpgFilter, AdbpgSearch)]

===============================================================================
