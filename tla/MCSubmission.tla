----------------------------- MODULE MCSubmission -----------------------------
(*******************************************************************************)
(* Submission with every item of the page alone and every pair of a selection of   *)
(* them, the commands that differ from the default in the options of one kind, and  *)
(* every list of at most MaxTasks tasks of a catalogue for the service.              *)
(*******************************************************************************)
EXTENDS Submission

CONSTANTS t1, MaxTasks

MCDatabases == {"Milvus", "ZillizCloud", "ElasticCloud", "PgVector", "Redis"}
MCTargets == {t1}
MCContents == {}

-------------------------------------------------------------------------------
AllItems == UI_CASE_CLUSTERS \cup get_custom_case_items("texts") \cup get_custom_streaming_case_items

Plain(dbs, items, profiles) == Form(dbs, items, profiles, "CohereSmall", 500, 100)

SingleForms ==
  {Plain(dbs, <<item>>, profiles) :
     dbs \in {<<"Milvus">>, <<"Redis">>, <<"ZillizCloud", "Milvus">>, <<"Milvus", "ElasticCloud">>},
     item \in AllItems,
     profiles \in {<<"ids_only">>, <<"ids_only", "vector">>}}

StreamingForms ==
  {Form(<<"Milvus">>, <<item>>, <<"ids_only">>, size_type, rate, batch_size) :
     item \in {CustomStreamingItem} \cup get_custom_streaming_case_items,
     size_type \in {"CohereSmall", "OpenAILarge"},
     rate \in {1, 100, 500, 550}, batch_size \in {1, 100, 500, 501}}

PairedItems ==
  {generate_normal_cases(type) :
     type \in {"Performance768D1M", "Performance1024D1M", "Performance768D1M1P",
               "Performance1536D50K", "CapacityDim128"}}
    \cup {generate_label_filter_cases("CohereMedium"), CustomStreamingItem,
          get_fts_case_item("MSMarcoLarge")}

PairForms ==
  {Plain(dbs, <<first, second>>, profiles) :
     dbs \in {<<"PgVector">>, <<"ZillizCloud", "Milvus">>, <<"Milvus", "ElasticCloud">>},
     first \in PairedItems, second \in PairedItems,
     profiles \in {<<"ids_only">>, <<"ids_only", "vector">>}}

MCForms == SingleForms \cup StreamingForms \cup {f \in PairForms : f.items[1] # f.items[2]}

\* The limits of the page, one more than each, and the default.
MCKs == {1, 100, 101, 1000, 1001, 100000, 100001, 200001, 500001, 1000000, 1000001}

-------------------------------------------------------------------------------
O == DefaultOptions

Ran == {[O EXCEPT !.drop_old = Spelled(d, v), !.load = Spelled(l, w), !.search_serial = s] :
          d \in BatchSpellings, v \in BOOLEAN, l \in BatchSpellings, w \in BOOLEAN,
          s \in BOOLEAN}

SizeTypes == {"", "CohereMedium", "LAIONLarge", "OpenAISmall", "MSMarcoLarge", "HotpotQASmall"}

Named == {[O EXCEPT !.case_type = type, !.dataset_with_size_type = size_type, !.k = k,
                    !.payload_profile = profile] :
            type \in CaseType, size_type \in SizeTypes, k \in {100, 100000},
            profile \in {"ids_only", "vector", "scalar_label"}}

Filtered == {[O EXCEPT !.case_type = type, !.dataset_with_size_type = size_type,
                       !.filter_rate = rate, !.label_percentage = part,
                       !.cloud_filter_rate = rate, !.fts_filter_rate = rate, !.k = k] :
               type \in {"NewIntFilterPerformanceCase", "LabelFilterPerformanceCase",
                         "CloudPayloadSearchCase", "CloudColdLatencyCase",
                         "CloudMultiTenantSearchCase", "FTSBm25Performance"},
               size_type \in SizeTypes, rate \in {5, 10, 15, 290, 500, 950, 995, 999},
               part \in {1, 10, 995}, k \in {100, 200000}}

Labelled == {[O EXCEPT !.case_type = type, !.cloud_label_percentage = part,
                       !.cloud_filter_rate = rate, !.cloud_cold_query_count = count,
                       !.tenant_count = count, !.tenant_id_width = width] :
               type \in {"CloudPayloadSearchCase", "CloudColdLatencyCase",
                         "CloudMultiTenantSearchCase"},
               part \in {None, 1, 20}, rate \in {None, 500}, count \in {0, 2}, width \in {0, 4}}

Others == {[O EXCEPT !.case_type = type, !.dataset_name = name, !.custom_dataset = custom,
                     !.streaming_insert_rate = rate, !.insert_batch_size = batch_size, !.k = k] :
             type \in {"Performance", "PerformanceCustomDataset"} \cup StreamingTypes,
             name \in {"", "CohereSmall", "yi_128_ip", "multimodal_embedding_1m"},
             custom \in BOOLEAN, rate \in {100, 550}, batch_size \in {1, 100, 500},
             k \in {100, 101}}

MCCommands ==
  {[db |-> db, options |-> options] :
     db \in {"Milvus", "PgVector"},
     options \in Ran \cup Named \cup Filtered \cup Labelled \cup Others}

-------------------------------------------------------------------------------
Sent(db, type, custom) ==
  Submitted(db, CaseConfig(type, custom, "", 100), ALL_TASK_STAGES, 100)

Catalogue ==
  {Sent(db, "Performance768D1M", NoParameters) : db \in {"Milvus", "Redis"}}
    \cup {Sent("Milvus", type, NoParameters) :
            type \in {"Performance1536D50K", "CapacityDim128", "StreamingPerformanceCase",
                      "CloudInsertCase", "CloudColdLatencyCase", "FTSBm25Performance",
                      "Performance768D100M"}}
    \cup {Sent("Milvus", "LabelFilterPerformanceCase",
               [SizeTypeParameter("CohereMedium") EXCEPT !.label_percentage = 10]),
          Sent("Redis", "Performance768D1M1P", NoParameters),
          Sent("PgVector", "FTSBm25Performance", NoParameters),
          Sent("Milvus", "NewIntFilterPerformanceCase", NoParameters)}

MCPosts == BoundedSeq(Catalogue, MaxTasks)
===============================================================================
