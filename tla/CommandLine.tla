----------------------------- MODULE CommandLine -----------------------------
(*******************************************************************************)
(* The command line (cli/cli.py): the options of a command with their defaults,  *)
(* and the CaseConfig and stages that run builds from them.  A batch file          *)
(* (cli/batch_cli.py) gives the same options in another spelling.                  *)
(*******************************************************************************)
EXTENDS CaseTable, TLC

\* CommonTypedDict.  Click itself refuses a K, a rate or a batch size below 1.
RunOptions ==
  [drop_old |-> TRUE, load |-> TRUE, search_serial |-> TRUE, search_concurrent |-> TRUE,
   insert_batch_size |-> DefaultBatchSize, streaming_insert_rate |-> DefaultInsertRate,
   case_type |-> "Performance1536D50K", k |-> 100]

\* Whether the custom dataset is described: the seven options without a default.
CustomOptions == [custom_dataset |-> FALSE]

CaseOptions ==
  [dataset_with_size_type |-> "", dataset_name |-> "", filter_rate |-> 10,
   label_percentage |-> 10, payload_profile |-> "ids_only", fts_filter_rate |-> None]

CloudOptions ==
  [cloud_filter_rate |-> None, cloud_label_percentage |-> None,
   cloud_cold_query_count |-> 1000, tenant_count |-> 1000, tenant_id_width |-> 4]

DefaultOptions == RunOptions @@ CustomOptions @@ CaseOptions @@ CloudOptions

\* check_custom_case_parameters, and the name that Performance requires.
check_custom_case_parameters(options) ==
  options.case_type = "PerformanceCustomDataset" => options.custom_dataset

DatasetNameIsGiven(options) ==
  options.case_type = "Performance" => options.dataset_name \in Registered

-------------------------------------------------------------------------------
\* build_sub_cmd_args: a stage is written plainly or as skip_<stage> in a batch
\* file, and left out when it keeps its default.
BatchSpellings == {"left_out", "plain", "skip"}

Spelled(spelling, value) ==
  CASE spelling = "left_out" -> TRUE
    [] spelling = "plain"    -> value
    [] spelling = "skip"     -> ~value

-------------------------------------------------------------------------------
(* get_custom_case_config: what of the options reaches the case.                 *)
CloudParameters(options) ==
  [NoParameters EXCEPT !.dataset_with_size_type = options.dataset_with_size_type,
                       !.payload_profile = options.payload_profile,
                       !.filter_rate = options.cloud_filter_rate,
                       !.label_percentage = options.cloud_label_percentage]

DEFAULT_DATASET_WITH_SIZE_TYPE == "CohereMedium"

SizeTypeOption(options) ==
  DefaultName(options.dataset_with_size_type, DEFAULT_DATASET_WITH_SIZE_TYPE)

\* A dataset that is not one of texts is replaced without a word.
FtsSizeTypeOption(options) ==
  IF options.dataset_with_size_type \in DOMAIN FtsDatasetWithSize
    THEN options.dataset_with_size_type ELSE "MSMarcoSmall"

get_custom_case_config(options) ==
  LET type == options.case_type
  IN  CASE type = "Performance" ->
             [NoParameters EXCEPT !.dataset_name = options.dataset_name]
        [] type = "PerformanceCustomDataset" ->
             [NoParameters EXCEPT !.dataset_config = TRUE]
        [] type = "NewIntFilterPerformanceCase" ->
             [NoParameters EXCEPT !.dataset_with_size_type = SizeTypeOption(options),
                                  !.filter_rate = options.filter_rate]
        [] type = "LabelFilterPerformanceCase" ->
             [NoParameters EXCEPT !.dataset_with_size_type = SizeTypeOption(options),
                                  !.label_percentage = options.label_percentage]
        [] type \in StreamingTypes ->
             [NoParameters EXCEPT !.insert_rate = options.streaming_insert_rate]
        [] type = "CloudPayloadSearchCase" -> CloudParameters(options)
        [] type = "CloudColdLatencyCase" ->
             [CloudParameters(options) EXCEPT !.query_count = options.cloud_cold_query_count]
        [] type = "CloudInsertCase" ->
             [NoParameters EXCEPT !.dataset_with_size_type = SizeTypeOption(options)]
        [] type = "CloudMultiTenantSearchCase" ->
             [CloudParameters(options) EXCEPT !.tenant_count = options.tenant_count,
                                              !.tenant_id_width = options.tenant_id_width]
        [] type = "FTSBm25Performance" ->
             [NoParameters EXCEPT !.dataset_with_size_type = FtsSizeTypeOption(options),
                                  !.payload_profile = options.payload_profile,
                                  !.filter_rate = options.fts_filter_rate]
        [] OTHER -> NoParameters

get_case_payload_profile(options) ==
  IF options.case_type \in PerformanceTypes THEN options.payload_profile ELSE ""

-------------------------------------------------------------------------------
(* run: the stages, the configuration, or an error.                               *)

\* Only drop old data if loading new data.
DropsOld(options) == options.load /\ options.drop_old

\* parse_task_stages: loading without dropping is refused.
StagesAreValid(options) == options.load = DropsOld(options)

StagesOf(options) ==
  {stage \in {"DROP_OLD", "LOAD", "SEARCH_SERIAL", "SEARCH_CONCURRENT"} :
     CASE stage = "DROP_OLD"          -> DropsOld(options)
       [] stage = "LOAD"              -> options.load
       [] stage = "SEARCH_SERIAL"     -> options.search_serial
       [] stage = "SEARCH_CONCURRENT" -> options.search_concurrent}

ConfigOf(options) ==
  CaseConfig(options.case_type, get_custom_case_config(options),
             get_case_payload_profile(options), options.k)

CommandIsValid(options) ==
  /\ check_custom_case_parameters(options)
  /\ DatasetNameIsGiven(options)
  /\ StagesAreValid(options)
  /\ CaseConfigIsValid(ConfigOf(options))
  /\ StreamingRateIsValid(ConfigOf(options), options.insert_batch_size)
===============================================================================
