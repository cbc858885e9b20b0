------------------------------ MODULE CasePages ------------------------------
(*******************************************************************************)
(* The page that runs a benchmark: the cases it offers for the databases chosen   *)
(* (frontend/config/dbCaseConfigs.py), how the selection becomes tasks, and the    *)
(* settings it checks (frontend/components/run_test).  The custom datasets it      *)
(* offers are in a file that another page writes (components/custom).              *)
(*******************************************************************************)
EXTENDS CaseTable, BenchCases

VECTOR_PAYLOAD_SUPPORTED_DBS == {"Milvus", "ZillizCloud"}

FTS_SUPPORTED_DBS ==
  {"Milvus", "ZillizCloud", "ElasticCloud", "OSSOpenSearch", "Vespa", "TurboPuffer"}

K_DEFAULT == 100

get_payload_profile_options(dbs) ==
  {"ids_only"} \cup
    (IF dbs # <<>> /\ ToSet(dbs) \subseteq VECTOR_PAYLOAD_SUPPORTED_DBS THEN {"vector"} ELSE {})

-------------------------------------------------------------------------------
(* UICaseItem: what one checkbox stands for.  "takes" are the databases it is     *)
(* shown for, "inputs" whether the user fills in the case's parameters.            *)
AnyDb == {}

Item(configs, takes, inputs) == [configs |-> configs, takes |-> takes, inputs |-> inputs]

Items == [configs : Seq(CaseConfigs), takes : SUBSET STRING, inputs : BOOLEAN]

CaseOf(type, custom) == CaseConfig(type, custom, "", K_DEFAULT)

generate_normal_cases(type) == Item(<<CaseOf(type, NoParameters)>>, AnyDb, FALSE)

SizeTypeParameter(name) == [NoParameters EXCEPT !.dataset_with_size_type = name]

IntFilterConfig(name, rate) ==
  CaseOf("NewIntFilterPerformanceCase", [SizeTypeParameter(name) EXCEPT !.filter_rate = rate])

\* The rates and the percentages of a dataset are declared in their order.
generate_int_filter_cases(name, rates) ==
  Item(AtPlaces([rate \in rates |-> IntFilterConfig(name, rate)], rates), AnyDb, FALSE)

LabelFilterConfig(name, part) ==
  CaseOf("LabelFilterPerformanceCase", [SizeTypeParameter(name) EXCEPT !.label_percentage = part])

generate_label_filter_cases(name) ==
  Item(AtPlaces([part \in LabelPercentages |-> LabelFilterConfig(name, part)], LabelPercentages),
       AnyDb, FALSE)

\* One item for the rates whose widest file is the same.
generate_laion_large_topk_filter_items ==
  {generate_int_filter_cases("LAIONLarge", {r \in LaionRates : Max(LaionWidths(r)) = width}) :
     width \in {Max(LaionWidths(r)) : r \in LaionRates}}

generate_fts_case(name) == CaseOf("FTSBm25Performance", SizeTypeParameter(name))

get_fts_case_item(name) == Item(<<generate_fts_case(name)>>, FTS_SUPPORTED_DBS, FALSE)

get_fts_case_items == {get_fts_case_item(name) : name \in DOMAIN FtsDatasetWithSize}

RegisteredItem(name) ==
  Item(<<CaseOf("Performance", [NoParameters EXCEPT !.dataset_name = name])>>, AnyDb, FALSE)

get_vibe_case_items == {RegisteredItem(name) : name \in DOMAIN Vibe}

get_vdbbench_multimodal_case_items == {RegisteredItem(name) : name \in DOMAIN Multimodal}

CustomStreamingItem == Item(<<CaseOf("StreamingPerformanceCase", NoParameters)>>, AnyDb, TRUE)

OfferedTypes ==
  DOMAIN CapacityCases \cup DOMAIN FixedCases \cup DOMAIN FixedFilterCases

UI_CASE_CLUSTERS ==
  {generate_normal_cases(type) : type \in OfferedTypes}
    \cup get_vibe_case_items \cup get_vdbbench_multimodal_case_items
    \cup generate_laion_large_topk_filter_items
    \cup {generate_int_filter_cases(name, IntRates) :
            name \in {"CohereMedium", "CohereLarge", "OpenAIMedium", "OpenAILarge",
                      "BioasqMedium", "BioasqLarge"}}
    \cup {generate_label_filter_cases(name) : name \in DOMAIN DatasetWithSize}
    \cup {CustomStreamingItem} \cup get_fts_case_items

-------------------------------------------------------------------------------
(* The file of custom datasets.  The label percentages of a dataset are missing,  *)
(* or texts as CustomDatasetConfig declares them, or the numbers that the page of   *)
(* custom datasets writes.                                                          *)
CustomFiles == {"no_labels", "texts", "numbers"}

\* get_custom_configs: numbers are no texts, the file cannot be read back.
CanBeRead(file) == file # "numbers"

DatasetConfig == [NoParameters EXCEPT !.dataset_config = TRUE]

\* 1.0 - "0.001" raises: a label filter of the user's own data is never made.
LabelOfText == None

get_custom_case_items(file) ==
  {Item(<<CaseOf("PerformanceCustomDataset", DatasetConfig)>>, AnyDb, FALSE)}
    \cup (IF file = "texts"
            THEN {Item(<<CaseOf("PerformanceCustomDataset",
                                [DatasetConfig EXCEPT !.use_filter = TRUE,
                                                      !.label_percentage = LabelOfText])>>,
                       AnyDb, FALSE)}
            ELSE {})

get_custom_streaming_case_items ==
  {Item(<<CaseOf("StreamingCustomDataset", DatasetConfig)>>, AnyDb, TRUE)}

\* get_selectable_case_items, after the items of the page
IsSelectable(item, file, dbs) ==
  /\ item \in UI_CASE_CLUSTERS \cup get_custom_case_items(file)
                \cup get_custom_streaming_case_items
  /\ item.takes # AnyDb => ToSet(dbs) \subseteq item.takes

\* displayCustomCase and CustomCaseManager.save
SavedPercentages(entered) == IF entered THEN "numbers" ELSE "no_labels"

-------------------------------------------------------------------------------
(* The form: the databases, the items, the answers wanted of them, what is filled  *)
(* in for a streaming case, and the batch size.                                     *)
Form(dbs, items, profiles, size_type, insert_rate, batch_size) ==
  [dbs |-> dbs, items |-> items, profiles |-> profiles, size_type |-> size_type,
   insert_rate |-> insert_rate, batch_size |-> batch_size]

\* The inputs go into the parameters; only the custom streaming case has no dataset.
FilledIn(config, form) ==
  [config EXCEPT !.custom_case.insert_rate = form.insert_rate,
                 !.custom_case.dataset_with_size_type =
                    IF config.case_id = "StreamingPerformanceCase" THEN form.size_type ELSE @]

supports_payload_profiles(item) ==
  \A i \in DOMAIN item.configs : item.configs[i].case_id \in PerformanceTypes

WithProfiles(config, profiles) ==
  [i \in DOMAIN profiles |-> [config EXCEPT !.payload_profile = profiles[i]]]

\* UICaseItem.get_cases
get_cases(item, form) ==
  LET configs == IF item.inputs THEN [i \in DOMAIN item.configs |-> FilledIn(item.configs[i], form)]
                                ELSE item.configs
  IN  IF supports_payload_profiles(item)
        THEN FlattenSeq([i \in DOMAIN configs |-> WithProfiles(configs[i], form.profiles)])
        ELSE configs

\* caseSelector
SelectedCases(form) ==
  FlattenSeq([i \in DOMAIN form.items |-> get_cases(form.items[i], form)])

\* validate_streaming_insert_rates
validate_streaming_insert_rates(configs, batch_size) ==
  \A i \in DOMAIN configs :
    configs[i].case_id \in StreamingTypes =>
      LET rate == DefaultNumber(configs[i].custom_case.insert_rate, DefaultInsertRate)
      IN  ~(rate < batch_size) /\ rate % batch_size = 0

\* Mutant: the check looks for a batch size that the rate divides.
RateDividesBatch(configs, batch_size) ==
  \A i \in DOMAIN configs :
    configs[i].case_id \in StreamingTypes =>
      batch_size % DefaultNumber(configs[i].custom_case.insert_rate, DefaultInsertRate) = 0

Submitted(db, config, stages, batch_size) ==
  [db |-> db, config |-> config, stages |-> stages, batch_size |-> batch_size]

ALL_TASK_STAGES == {"DROP_OLD", "LOAD", "SEARCH_SERIAL", "SEARCH_CONCURRENT"}

\* Mutant: only the first database gets the cases.
generate_tasks_of_first(dbs, configs, batch_size) ==
  [j \in DOMAIN configs |-> Submitted(dbs[1], configs[j], ALL_TASK_STAGES, batch_size)]

generate_tasks(dbs, configs, batch_size) ==
  FlattenSeq([i \in DOMAIN dbs |->
    [j \in DOMAIN configs |-> Submitted(dbs[i], configs[j], ALL_TASK_STAGES, batch_size)]])

-------------------------------------------------------------------------------
(* submitTask: the K that may be entered, and the settings of the run.             *)
LimitsOfTask(task) ==
  {max_search_k(case.data, case.filter) : case \in {c \in case_of(task.config) : ~IsText(c.data)}}

LimitsOf(submitted) == (UNION {LimitsOfTask(submitted[i]) : i \in DOMAIN submitted}) \ {Unbounded}

\* get_max_search_k
MayEnter(k, submitted) == \A limit \in LimitsOf(submitted) : k <= limit.bound

\* apply_run_settings: the files of every case with a ground truth must exist.
FilesResolve(submitted, k) ==
  \A i \in DOMAIN submitted :
    \A case \in case_of(submitted[i].config) :
      ~IsText(case.data) /\ with_gt(case.data) => resolve_search_files(case.data, k, case.filter) # {}

apply_run_settings(submitted, k) ==
  [i \in DOMAIN submitted |-> [submitted[i] EXCEPT !.config.k = k]]
===============================================================================
