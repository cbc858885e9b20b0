---------------------------- MODULE VectorDatasets ----------------------------
(*******************************************************************************)
(* The datasets a case can name (backend/dataset.py), the filters of a case     *)
(* (backend/filter.py), and the ground truth a search is compared with.          *)
(*                                                                               *)
(* Rates and percentages are in per mille, None is -1, and an operator that may   *)
(* raise ValueError returns a set: the value, or nothing.                         *)
(*******************************************************************************)
EXTENDS Integers, FiniteSets, FiniteSetsExt

None == -1

-------------------------------------------------------------------------------
(* What a class of datasets declares: its sizes, whether a ground truth and a    *)
(* column of labels are published, and the filter rates published with it.        *)
(* The label percentages are the same wherever there are labels.                  *)
LabelPercentages == {1, 2, 5, 10, 20, 50, 100, 200, 500}

IntRates == {1, 2, 5, 10, 20, 50} \cup {100 * i : i \in 1..9}
                \cup {950, 980, 990, 995, 998, 999}

Class(sizes, published, int_rates) ==
  [sizes |-> sizes, with_gt |-> published, with_scalar_labels |-> published,
   scalar_int_rates |-> int_rates]

LAION  == Class({100000000}, TRUE, {})
GIST   == Class({100000, 1000000}, FALSE, {})
Cohere == Class({100000, 1000000, 10000000}, TRUE, IntRates)
Bioasq == Class({1000000, 10000000}, TRUE, IntRates)
Glove  == Class({1000000}, FALSE, {})
SIFT   == Class({500000, 5000000}, FALSE, {})
OpenAI == Class({50000, 500000, 5000000}, TRUE, IntRates)

Dataset == [LAION |-> LAION, GIST |-> GIST, Cohere |-> Cohere, Bioasq |-> Bioasq,
            Glove |-> Glove, SIFT |-> SIFT, OpenAI |-> OpenAI]

\* One dataset: its class, or its name where each dataset is its own, and size.
Data(class, size) == [class |-> class, size |-> size]

manager(class, size) ==
  IF size \in Dataset[class].sizes THEN {Data(class, size)} ELSE {}

\* DatasetWithSizeMap
DatasetWithSize ==
  [CohereSmall  |-> Data("Cohere", 100000),   CohereMedium |-> Data("Cohere", 1000000),
   CohereLarge  |-> Data("Cohere", 10000000), LAIONLarge   |-> Data("LAION", 100000000),
   BioasqMedium |-> Data("Bioasq", 1000000),  BioasqLarge  |-> Data("Bioasq", 10000000),
   OpenAISmall  |-> Data("OpenAI", 50000),    OpenAIMedium |-> Data("OpenAI", 500000),
   OpenAILarge  |-> Data("OpenAI", 5000000)]

\* The HDF5 files of VIBE and their sizes.
Vibe ==
  [ agnews_mxbai_1024_euclidean       |-> 769382,  arxiv_nomic_768_normalized        |-> 1344643,
    dpr_jina_768_normalized           |-> 20969760, glove_200_cosine                 |-> 1192514,
    gooaq_distilroberta_768_normalized |-> 1475024, imagenet_clip_512_normalized     |-> 1281167,
    inaturalist_resnet_2048_cosine    |-> 499000,  landmark_dino_768_cosine          |-> 760757,
    landmark_nomic_768_normalized     |-> 760757,  msmarco_qwen_1024_normalized      |-> 8840823,
    yahoo_minilm_384_normalized       |-> 677305,  hotpotqa_harrier_640_normalized   |-> 5233329,
    imagenet_align_640_normalized     |-> 1281167, laion_clip_512_normalized         |-> 1000448,
    yandex_200_cosine                 |-> 1000000, cqadupstack_lemur_2048_ip         |-> 457149,
    cqadupstack_muvera_5120_ip        |-> 457149,  yi_128_ip                         |-> 187843,
    llama_128_ip                      |-> 256921,  ccnews_nomic_768_normalized       |-> 495328,
    celeba_resnet_2048_cosine         |-> 201599,  coco_nomic_768_normalized         |-> 282360,
    codesearchnet_jina_768_cosine     |-> 1374067, simplewiki_openai_3072_normalized |-> 260372 ]

\* The Parquet datasets registered with their own ground truth.
Multimodal == [multimodal_embedding_1m |-> 1000000, multimodal_embedding_10m |-> 10000000,
               multimodal_embedding_100m |-> 100000000]

Hdf5Data == {Data(name, Vibe[name]) : name \in DOMAIN Vibe}
RegisteredParquet == {Data(name, Multimodal[name]) : name \in DOMAIN Multimodal}

Registered == DOMAIN DatasetWithSize \cup DOMAIN Vibe \cup DOMAIN Multimodal

get_dataset_manager(name) ==
  CASE name \in DOMAIN DatasetWithSize -> {DatasetWithSize[name]}
    [] name \in DOMAIN Vibe            -> {Data(name, Vibe[name])}
    [] name \in DOMAIN Multimodal      -> {Data(name, Multimodal[name])}
    [] OTHER                           -> {}

FtsDatasetWithSize ==
  [MSMarcoSmall  |-> Data("MSMarco", 100000),  HotpotQASmall  |-> Data("HotpotQA", 100000),
   MSMarcoMedium |-> Data("MSMarco", 1000000), HotpotQAMedium |-> Data("HotpotQA", 1000000),
   MSMarcoLarge  |-> Data("MSMarco", 8841823), HotpotQALarge  |-> Data("HotpotQA", 5233329)]

is_advanced(name) == name \in {"MSMarcoLarge", "HotpotQALarge"}

IsText(data) == data.class \in {"MSMarco", "HotpotQA"}

\* A dataset of the user: labels are taken to be there, the rest is as it says.
CustomData == Data("Custom", 1000000)

with_scalar_labels(data) ==
  \/ data.class = "Custom"
  \/ data.class \in DOMAIN Dataset /\ Dataset[data.class].with_scalar_labels

with_gt(data) ==
  data.class \in DOMAIN Dataset => Dataset[data.class].with_gt

-------------------------------------------------------------------------------
(* The filters.  A label filter keeps the rows of one label, "part" per mille    *)
(* of them; the others keep the rows whose id reaches the rate of the size.       *)
Filter(kind, type, rate, part) == [kind |-> kind, type |-> type, rate |-> rate, part |-> part]

NonFilter == Filter("NonFilter", "NonFilter", 0, None)
IntFilter(rate) == Filter("IntFilter", "NumGE", rate, None)
NewIntFilter(rate) == Filter("NewIntFilter", "NumGE", rate, None)
LabelFilter(part) == Filter("LabelFilter", "StrEqual", 1000 - part, part)

\* 0.29 * 100, 0.57 * 100 and 0.58 * 100 are a little less than a whole number.
ShortOfPercent == {290, 570, 580}

\* int(r): a percentage without its fraction.
WholePercent(mille) == 10 * (mille \div 10) - (IF mille \in ShortOfPercent THEN 10 ELSE 0)

\* Mutant: every rate loses its fraction, also those below one percent.
AlwaysWholePercent(mille) == WholePercent(mille)

\* NewIntFilter.int_rate
int_rate(mille) == IF mille \in 10..990 THEN WholePercent(mille) ELSE mille

label_value(mille) == IF mille >= 10 THEN WholePercent(mille) ELSE mille

\* The population a file of ground truth was made for.
Truth(column, mille) == [column |-> column, mille |-> mille]

groundtruth_file(filter) ==
  CASE filter.kind = "NonFilter"    -> {Truth("none", 0)}
    [] filter.kind = "IntFilter"    -> IF filter.rate \in {10, 990}
                                         THEN {Truth("id", filter.rate)} ELSE {}
    [] filter.kind = "NewIntFilter" -> {Truth("id", int_rate(filter.rate))}
    [] filter.kind = "LabelFilter"  -> {Truth("label", label_value(filter.part))}

-------------------------------------------------------------------------------
(* How wide the ground truth is: a search for the K nearest needs K neighbours.  *)
LaionTiers == {1000, 100000, 1000000}

\* LAION_INT_FILTER_SEARCH_WIDTHS
LaionRates == {500, 600, 700, 800, 900, 950, 980, 990, 995, 998, 999}

LaionWidths(rate) ==
  CASE rate = 995 -> {100000, 500000}
    [] rate = 998 -> {100000, 200000}
    [] rate = 999 -> {100000}
    [] OTHER      -> {100000, 1000000}

GroundTruthWidth == 100   \* of every registered file

FirstTier == Min(LaionTiers)
Unfiltered(filter) == filter.type = "NonFilter"

Bound(k) == [bound |-> k]
Unbounded == [bound |-> None]

\* Mutant: the limit of an unfiltered search, whatever the filter.
MaxSearchKUnfiltered(data, filter) ==
  IF data \in RegisteredParquet \cup Hdf5Data THEN Bound(GroundTruthWidth)
  ELSE IF data.class = "LAION" THEN Bound(Max(LaionTiers)) ELSE Unbounded

\* max_search_k.  A registered file never meets a filter: Performance takes none.
max_search_k(data, filter) ==
  IF data \in RegisteredParquet \cup Hdf5Data THEN Bound(GroundTruthWidth)
  ELSE IF data.class # "LAION" THEN Unbounded
  ELSE IF filter.kind = "NewIntFilter"
    THEN IF filter.rate \in LaionRates THEN Bound(Max(LaionWidths(filter.rate))) ELSE Unbounded
  ELSE IF Unfiltered(filter) THEN Bound(Max(LaionTiers)) ELSE Bound(FirstTier)

\* The file a search opens; its width is None where nothing in the code says it.
SearchFile(truth, width) == [truth |-> truth, width |-> width]

FilesOf(filter, width) == {SearchFile(truth, width) : truth \in groundtruth_file(filter)}

\* The narrowest published file that holds K neighbours.
Narrowest(k, widths, filter) ==
  LET enough == {w \in widths : k <= w}
  IN  IF enough = {} THEN {} ELSE FilesOf(filter, Min(enough))

LaionFiles(k, filter) ==
  IF k > Max(LaionTiers) THEN {}
  ELSE IF filter.kind = "NewIntFilter"
    THEN IF filter.rate \notin LaionRates THEN {}
         ELSE IF k <= FirstTier THEN FilesOf(filter, None)
         ELSE Narrowest(k, LaionWidths(filter.rate), filter)
  ELSE IF Unfiltered(filter) THEN Narrowest(k, LaionTiers, filter)
  ELSE IF k <= FirstTier THEN FilesOf(filter, None) ELSE {}

resolve_search_files(data, k, filter) ==
  IF k <= 0 THEN {}
  ELSE IF data \in RegisteredParquet \cup Hdf5Data
    THEN IF Unfiltered(filter) /\ k <= GroundTruthWidth
           THEN {SearchFile(Truth("none", 0), GroundTruthWidth)} ELSE {}
  ELSE IF data.class = "LAION" THEN LaionFiles(k, filter)
  ELSE FilesOf(filter, None)
===============================================================================
