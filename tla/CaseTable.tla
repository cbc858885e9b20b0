------------------------------ MODULE CaseTable ------------------------------
(*******************************************************************************)
(* The cases of the benchmark (backend/cases.py): from a case type and the       *)
(* custom_case parameters of a CaseConfig to the case, or to nothing where the    *)
(* constructor raises; and the checks CaseConfig and TaskConfig make (models.py).  *)
(*******************************************************************************)
EXTENDS VectorDatasets

Profiles == {"ids_only", "vector", "scalar_label", "text"}

\* custom_case: a parameter that is not given is None, or "" when it is a name.
NoParameters ==
  [dataset_with_size_type |-> "", dataset_name |-> "", payload_profile |-> "",
   filter_rate |-> None, label_percentage |-> None, use_filter |-> FALSE,
   dataset_config |-> FALSE, insert_rate |-> None, query_count |-> None,
   tenant_count |-> None, tenant_id_width |-> None]

\* What a CaseConfig declares of them.
Parameters ==
  [dataset_with_size_type : STRING, dataset_name : STRING, payload_profile : STRING,
   filter_rate : Int, label_percentage : Int, use_filter : BOOLEAN,
   dataset_config : BOOLEAN, insert_rate : Int, query_count : Int,
   tenant_count : Int, tenant_id_width : Int]

DefaultName(name, default) == IF name = "" THEN default ELSE name
DefaultNumber(n, default) == IF n = None THEN default ELSE n

-------------------------------------------------------------------------------
(* A case: what is loaded, what is searched for and what an answer carries.      *)
NewCase(label, data, filter, payload, tenants) ==
  [label |-> label, data |-> data, filter |-> filter, payload |-> payload, tenants |-> tenants]

needs_scalar_labels(case) ==
  case.filter.type = "StrEqual" \/ case.payload = "scalar_label"

\* Case.check_scalar_labels
check_scalar_labels(cases) ==
  {c \in cases : needs_scalar_labels(c) => with_scalar_labels(c.data)}

Cases(label, datas, filter, payload) ==
  check_scalar_labels({NewCase(label, data, filter, payload, 0) : data \in datas})

Payload(custom) == DefaultName(custom.payload_profile, "ids_only")

-------------------------------------------------------------------------------
(* The cases without parameters: their dataset and, where they have one, the     *)
(* rate of their filter.                                                          *)
CapacityCases ==
  [CapacityDim960 |-> manager("GIST", 100000), CapacityDim128 |-> manager("SIFT", 500000)]

Fixed(class, size) == manager(class, size)

FixedCases ==
  [Performance768D10M   |-> Fixed("Cohere", 10000000), Performance768D1M  |-> Fixed("Cohere", 1000000),
   Performance768D100M  |-> Fixed("LAION", 100000000), Performance1536D500K |-> Fixed("OpenAI", 500000),
   Performance1536D5M   |-> Fixed("OpenAI", 5000000),  Performance1024D1M |-> Fixed("Bioasq", 1000000),
   Performance1024D10M  |-> Fixed("Bioasq", 10000000), Performance1536D50K |-> Fixed("OpenAI", 50000)]

FixedFilterCases ==
  [Performance768D10M1P    |-> <<Fixed("Cohere", 10000000), 10>>,
   Performance768D1M1P     |-> <<Fixed("Cohere", 1000000), 10>>,
   Performance768D10M99P   |-> <<Fixed("Cohere", 10000000), 990>>,
   Performance768D1M99P    |-> <<Fixed("Cohere", 1000000), 990>>,
   Performance1536D500K1P  |-> <<Fixed("OpenAI", 500000), 10>>,
   Performance1536D5M1P    |-> <<Fixed("OpenAI", 5000000), 10>>,
   Performance1536D500K99P |-> <<Fixed("OpenAI", 500000), 990>>,
   Performance1536D5M99P   |-> <<Fixed("OpenAI", 5000000), 990>>]

-------------------------------------------------------------------------------
(* The cases with parameters.                                                    *)
SizeType(name) == IF name \in DOMAIN DatasetWithSize THEN {DatasetWithSize[name]} ELSE {}

\* It drops its other parameters, the payload profile among them.
PerformanceCustomDataset(custom) ==
  IF custom.dataset_config /\ (custom.use_filter => custom.label_percentage # None)
    THEN Cases("Performance", {CustomData},
               IF custom.use_filter THEN LabelFilter(custom.label_percentage) ELSE NonFilter,
               "ids_only")
    ELSE {}

StreamingPerformanceCase(custom) ==
  Cases("Streaming", SizeType(DefaultName(custom.dataset_with_size_type, "CohereSmall")),
        NonFilter, "ids_only")

StreamingCustomDataset(custom) ==
  IF custom.dataset_config THEN Cases("Streaming", {CustomData}, NonFilter, "ids_only") ELSE {}

NewIntFilterPerformanceCase(custom) ==
  IF custom.filter_rate = None THEN {}
  ELSE Cases("Performance", SizeType(custom.dataset_with_size_type),
             NewIntFilter(custom.filter_rate), Payload(custom))

LabelFilterPerformanceCase(custom) ==
  IF custom.label_percentage = None THEN {}
  ELSE Cases("Performance", SizeType(custom.dataset_with_size_type),
             LabelFilter(custom.label_percentage), Payload(custom))

\* The filter of a cloud case: of labels, of ids, or none.
CloudFilter(custom) ==
  IF custom.label_percentage # None THEN LabelFilter(custom.label_percentage)
  ELSE IF custom.filter_rate # None THEN NewIntFilter(custom.filter_rate) ELSE NonFilter

OneFilter(custom) == custom.label_percentage = None \/ custom.filter_rate = None

CloudData(custom) ==
  IF custom.dataset_with_size_type = "" THEN manager("LAION", 100000000)
                                        ELSE SizeType(custom.dataset_with_size_type)

CloudPayloadSearchCase(custom) ==
  IF OneFilter(custom)
    THEN Cases("Performance", CloudData(custom), CloudFilter(custom), Payload(custom))
    ELSE {}

CloudColdLatencyCase(custom) ==
  IF OneFilter(custom) /\ DefaultNumber(custom.query_count, 1000) > 0
    THEN Cases("CloudColdLatency", CloudData(custom), CloudFilter(custom), Payload(custom))
    ELSE {}

CloudInsertCase(custom) == Cases("CloudInsert", CloudData(custom), NonFilter, "ids_only")

CloudMultiTenantSearchCase(custom) ==
  LET tenants == DefaultNumber(custom.tenant_count, 1000)
      cases == Cases("Performance",
                     SizeType(DefaultName(custom.dataset_with_size_type, "CohereLarge")),
                     CloudFilter(custom), Payload(custom))
  IN  IF OneFilter(custom) /\ tenants > 0 /\ DefaultNumber(custom.tenant_id_width, 4) > 0
        THEN {[c EXCEPT !.tenants = tenants] : c \in cases}
        ELSE {}

FTS_FILTER_RATES == {500, 750, 900, 950, 990}

FTSBm25Performance(custom) ==
  LET name == DefaultName(custom.dataset_with_size_type, "MSMarcoSmall")
      rate == custom.filter_rate
  IN  IF name \notin DOMAIN FtsDatasetWithSize \/ (rate # None /\ ~is_advanced(name))
         \/ rate \notin FTS_FILTER_RATES \cup {None}
        THEN {}
        ELSE Cases("FullTextSearch", {FtsDatasetWithSize[name]}, CloudFilter(custom),
                   Payload(custom))

Performance(custom) ==
  IF custom.filter_rate # None \/ custom.label_percentage # None THEN {}
  ELSE Cases("Performance", get_dataset_manager(DefaultName(custom.dataset_name, "CohereMedium")),
             NonFilter, Payload(custom))

-------------------------------------------------------------------------------
ParameterCases ==
  {"PerformanceCustomDataset", "StreamingPerformanceCase", "StreamingCustomDataset",
   "NewIntFilterPerformanceCase", "LabelFilterPerformanceCase", "CloudPayloadSearchCase",
   "Performance", "FTSBm25Performance", "CloudInsertCase", "CloudColdLatencyCase",
   "CloudMultiTenantSearchCase"}

CaseType == DOMAIN CapacityCases \cup DOMAIN FixedCases \cup DOMAIN FixedFilterCases
                \cup ParameterCases

\* CaseType.case_cls, by type2case
case_cls(type, custom) ==
  CASE type \in DOMAIN CapacityCases -> Cases("Load", CapacityCases[type], NonFilter, "ids_only")
    [] type \in DOMAIN FixedCases ->
         Cases("Performance", FixedCases[type], NonFilter, Payload(custom))
    [] type \in DOMAIN FixedFilterCases ->
         Cases("Performance", FixedFilterCases[type][1],
               IntFilter(DefaultNumber(custom.filter_rate, FixedFilterCases[type][2])),
               Payload(custom))
    [] type = "PerformanceCustomDataset"    -> PerformanceCustomDataset(custom)
    [] type = "StreamingPerformanceCase"    -> StreamingPerformanceCase(custom)
    [] type = "StreamingCustomDataset"      -> StreamingCustomDataset(custom)
    [] type = "NewIntFilterPerformanceCase" -> NewIntFilterPerformanceCase(custom)
    [] type = "LabelFilterPerformanceCase"  -> LabelFilterPerformanceCase(custom)
    [] type = "CloudPayloadSearchCase"      -> CloudPayloadSearchCase(custom)
    [] type = "CloudColdLatencyCase"        -> CloudColdLatencyCase(custom)
    [] type = "CloudInsertCase"             -> CloudInsertCase(custom)
    [] type = "CloudMultiTenantSearchCase"  -> CloudMultiTenantSearchCase(custom)
    [] type = "FTSBm25Performance"          -> FTSBm25Performance(custom)
    [] type = "Performance"                 -> Performance(custom)

StreamingTypes == {"StreamingPerformanceCase", "StreamingCustomDataset"}

\* The subclasses of PerformanceCase.
PerformanceTypes ==
  CaseType \ (DOMAIN CapacityCases \cup StreamingTypes
              \cup {"CloudColdLatencyCase", "CloudInsertCase", "FTSBm25Performance"})

-------------------------------------------------------------------------------
(* CaseConfig: a case to be made, and how it is searched.                        *)
CaseConfig(type, custom, payload, k) ==
  [case_id |-> type, custom_case |-> custom, payload_profile |-> payload, k |-> k]

CaseConfigs ==
  [case_id : CaseType, custom_case : Parameters, payload_profile : Profiles \cup {""}, k : Int]

\* CaseConfig.case: the profile of the configuration goes over that of the case.
case_of(config) ==
  case_cls(config.case_id,
           [config.custom_case EXCEPT !.payload_profile = DefaultName(config.payload_profile, @)])

\* validate_case_k: only the cases of a registered dataset.
CaseKIsValid(config) ==
  config.case_id = "Performance" =>
    \E case \in case_cls("Performance", config.custom_case) :
      LET max_k == max_search_k(case.data, case.filter)
      IN  max_k # Unbounded => config.k <= max_k.bound

\* validate_payload_profile
PayloadIsValid(config) ==
  config.payload_profile # "" =>
    /\ config.case_id \in PerformanceTypes
    /\ config.custom_case.payload_profile \in {"", config.payload_profile}

CaseConfigIsValid(config) ==
  config.k > 0 /\ CaseKIsValid(config) /\ PayloadIsValid(config)

DefaultInsertRate == 500
DefaultBatchSize == 100

\* TaskConfig.validate_streaming_insert_rate
StreamingRateIsValid(config, batch_size) ==
  config.case_id \in StreamingTypes =>
    LET rate == DefaultNumber(config.custom_case.insert_rate, DefaultInsertRate)
    IN  rate >= batch_size /\ rate % batch_size = 0
===============================================================================
