------------------------------ MODULE Submission ------------------------------
(*******************************************************************************)
(* From what a user asks for to the cases that will run, in their order.  A page  *)
(* offers cases and checks settings, a command has options, the REST service takes  *)
(* task configurations; interface.run hands the tasks of any of them to             *)
(* Assembler.assemble_all, or an error stops the submission on the way.             *)
(*******************************************************************************)
EXTENDS CasePages, CommandLine

LOCAL C == INSTANCE Clients

CONSTANTS
    Forms,     \* what may be filled in on the page
    Ks,        \* what may be entered for K
    Commands,  \* the commands: a database and options
    Posts      \* the lists of tasks the service may be sent

TaskConfigs == [db : Databases, config : CaseConfigs, stages : SUBSET Stages, batch_size : Nat]

\* What a form, a command and a post are declared to be.  The databases and the items
\* of a form are boxes that are ticked or not, its profiles and its dataset are of a list,
\* and its numbers have a least value (dbSelector.py 28-47, caseSelector.py 30-110).
ASSUME FormsAssumption ==
    \A form \in Forms :
        /\ form.dbs \in Seq(Databases) /\ IsInjective(form.dbs)
        /\ form.items \in Seq(Items) /\ IsInjective(form.items)
        /\ form.profiles \in Seq(Profiles) /\ IsInjective(form.profiles)
        /\ form.size_type \in STRING /\ form.size_type \in DOMAIN DatasetWithSize
        /\ form.insert_rate \in Nat \ {0} /\ form.batch_size \in Nat \ {0}

ASSUME CommandsAssumption ==
    \A command \in Commands :
        command.db \in Databases /\ ConfigOf(command.options) \in CaseConfigs
            /\ command.options.insert_batch_size \in Nat

ASSUME PostsAssumption == Posts \subseteq Seq(TaskConfigs)
ASSUME KsAssumption == Ks \subseteq Nat \ {0}

VARIABLES
    custom_file,   \* the file of custom datasets
    request,       \* who asks, and for what
    submitted,     \* the task configurations made of it
    case_runners,  \* the cases in the order they will run
    outcome        \* how far the submission is, or how it ended

submitVars == <<custom_file, request, submitted, case_runners, outcome>>

NoRequest == [by |-> "nobody"]

SubmitInit ==
    /\ custom_file \in CustomFiles \ {"numbers"}
    /\ request = NoRequest
    /\ submitted = <<>>
    /\ case_runners = <<>>
    /\ outcome = "idle"

-------------------------------------------------------------------------------
\* The page of custom datasets, which reads the file first.
SaveCustomDataset(percentages_entered) ==
    /\ CanBeRead(custom_file)
    /\ custom_file' = SavedPercentages(percentages_entered)
    /\ UNCHANGED <<request, submitted, case_runners, outcome>>

Ask(what) == request' = what /\ UNCHANGED <<custom_file, case_runners>>
End(how) == outcome' = how /\ UNCHANGED submitted

CanBeMade(configs) == \A i \in DOMAIN configs : case_of(configs[i]) # {}

TaskIsValid(task) ==
    CaseConfigIsValid(task.config) /\ StreamingRateIsValid(task.config, task.batch_size)

AllValid(tasks) == \A i \in DOMAIN tasks : TaskIsValid(tasks[i])

\* The items and profiles of a form are among those the page shows.
IsOffered(form) ==
    /\ \A item \in ToSet(form.items) : IsSelectable(item, custom_file, form.dbs)
    /\ ToSet(form.profiles) \subseteq get_payload_profile_options(form.dbs)

\* The run page lists the custom datasets before anything can be chosen.
PageCannotOpen ==
    /\ ~CanBeRead(custom_file)
    /\ Ask([by |-> "page"])
    /\ End("page_raises")

FillForm(form) ==
    LET configs == SelectedCases(form)
        tasks == generate_tasks(form.dbs, configs, form.batch_size)
    IN  /\ CanBeRead(custom_file)
        /\ IsOffered(form)
        /\ Ask([by |-> "page", form |-> form])
        /\ \/ ~CanBeMade(configs) /\ End("page_raises")
           \/ /\ CanBeMade(configs)
              /\ ~validate_streaming_insert_rates(configs, form.batch_size)
              /\ End("button_disabled")
           \/ /\ CanBeMade(configs)
              /\ validate_streaming_insert_rates(configs, form.batch_size)
              /\ IF AllValid(tasks) THEN submitted' = tasks /\ outcome' = "filled"
                                    ELSE End("page_raises")

\* runHandler: the button, with a K that the field lets through.
PressRun(k) ==
    /\ outcome = "filled"
    /\ MayEnter(k, submitted)
    /\ request' = [by |-> "page", form |-> request.form, k |-> k]
    /\ IF FilesResolve(submitted, k)
         THEN submitted' = apply_run_settings(submitted, k) /\ outcome' = "pending"
         ELSE End("settings_refused")
    /\ UNCHANGED <<custom_file, case_runners>>

GiveCommand(command) ==
    LET options == command.options
    IN  /\ Ask([by |-> "command", options |-> options])
        /\ IF CommandIsValid(options)
             THEN /\ submitted' = <<Submitted(command.db, ConfigOf(options), StagesOf(options),
                                              options.insert_batch_size)>>
                  /\ outcome' = "pending"
             ELSE End("command_refused")

PostTasks(tasks) ==
    /\ Ask([by |-> "service", tasks |-> tasks])
    /\ IF tasks # <<>> /\ AllValid(tasks)
         THEN submitted' = tasks /\ outcome' = "pending"
         ELSE End("invalid_tasks")

-------------------------------------------------------------------------------
supports_full_text_search(db) ==
    db \in FTS_SUPPORTED_DBS \cup {"AliyunElasticsearch", "TencentElasticsearch"}

FilterTypes == [db \in Databases |-> C!DB[db].filter.declares]

filter_supported(db, filter) == filter.type \in FilterTypes[db]

\* supports_payload_profile, which a case asks for before it loads.
supports_payload_profile(db, profile) ==
    \/ profile = "ids_only"
    \/ profile \in {"vector", "scalar_label"}
         /\ db \in {"Milvus", "ZillizCloud", "Pinecone", "TurboPuffer"}

\* Assembler.assemble: the task together with its case.
TaskOf(task, case) ==
    [db |-> task.db, target |-> task.db, content |-> <<case.data, case.tenants, task.batch_size>>,
     label |-> case.label, size |-> case.data.size,
     streq |-> case.filter.type = "StrEqual",
     supported |-> IF case.label = "FullTextSearch" THEN supports_full_text_search(task.db)
                                                    ELSE filter_supported(task.db, case.filter),
     stages |-> task.stages, config |-> task.config, case |-> case]

TheCase(task) == CHOOSE case \in case_of(task.config) : TRUE

Tasks == [i \in DOMAIN submitted |-> TaskOf(submitted[i], TheCase(submitted[i]))]

CasesExist == \A i \in DOMAIN submitted : case_of(submitted[i].config) # {}

Conclude(how) == outcome' = how /\ UNCHANGED <<custom_file, request, submitted>>

Assemble ==
    /\ outcome = "pending"
    /\ CasesExist
    /\ TextSearchSupported(Tasks)
    /\ FiltersSupported(Tasks)
    /\ case_runners' = AssembleAll(Tasks)
    /\ Conclude("assembled")

\* A constructor or a missing text search raises ValueError, which run lets through.
RefuseCase ==
    /\ outcome = "pending"
    /\ ~(CasesExist /\ TextSearchSupported(Tasks))
    /\ Conclude("ValueError")
    /\ UNCHANGED case_runners

RefuseFilter ==
    /\ outcome = "pending"
    /\ CasesExist
    /\ TextSearchSupported(Tasks)
    /\ ~FiltersSupported(Tasks)
    /\ Conclude("FilterNotSupportedError")
    /\ UNCHANGED case_runners

Request ==
    \/ \E entered \in BOOLEAN : SaveCustomDataset(entered)
    \/ PageCannotOpen
    \/ \E form \in Forms : FillForm(form)
    \/ \E command \in Commands : GiveCommand(command)
    \/ \E tasks \in Posts : PostTasks(tasks)

SubmitNext ==
    \/ outcome = "idle" /\ Request
    \/ \E k \in Ks : PressRun(k)
    \/ Assemble \/ RefuseCase \/ RefuseFilter

SubmitSpec == SubmitInit /\ [][SubmitNext]_submitVars
-------------------------------------------------------------------------------
Count(s, t) == Cardinality({i \in DOMAIN s : s[i] = t})

Runs(config, db) ==
    Cardinality({i \in DOMAIN case_runners :
                    case_runners[i].db = db /\ case_runners[i].config = config})

\* A page: every case chosen once on every database, with the K entered.
RunsTheForm(form, k) ==
    LET chosen == SelectedCases(form)
    IN  /\ Len(case_runners) = Len(form.dbs) * Len(chosen)
        /\ \A db \in ToSet(form.dbs), i \in DOMAIN chosen :
              Runs([chosen[i] EXCEPT !.k = k], db) = 1

\* The service: every task as often as it was sent.
RunsThePost(tasks) ==
    /\ Len(case_runners) = Len(tasks)
    /\ \A t \in ToSet(Tasks) : Count(case_runners, t) = Count(Tasks, t)

\* The options that have a case of their own to mean something for.
TakesDataset(options) ==
    \/ options.case_type \in {"NewIntFilterPerformanceCase", "LabelFilterPerformanceCase",
                              "CloudPayloadSearchCase", "CloudColdLatencyCase",
                              "CloudInsertCase", "CloudMultiTenantSearchCase"}
    \/ /\ options.case_type = "FTSBm25Performance"
       /\ options.dataset_with_size_type \in DOMAIN FtsDatasetWithSize

AskedData(options) ==
    IF options.case_type = "FTSBm25Performance"
      THEN FtsDatasetWithSize[options.dataset_with_size_type]
      ELSE DatasetWithSize[options.dataset_with_size_type]

AskedRate(options) ==
    CASE options.case_type = "NewIntFilterPerformanceCase" -> options.filter_rate
      [] options.case_type = "LabelFilterPerformanceCase" -> 1000 - options.label_percentage
      [] options.case_type = "FTSBm25Performance" -> DefaultNumber(options.fts_filter_rate, 0)
      [] options.case_type \in {"CloudPayloadSearchCase", "CloudColdLatencyCase",
                                "CloudMultiTenantSearchCase"} ->
           IF options.cloud_label_percentage # None THEN 1000 - options.cloud_label_percentage
           ELSE DefaultNumber(options.cloud_filter_rate, 0)
      [] options.case_type \in DOMAIN FixedFilterCases -> FixedFilterCases[options.case_type][2]
      [] OTHER -> 0

\* A command: one case, on the dataset and with the filter of the options; it loads
\* if it may, and never drops what it does not load again.  Not said: a streaming
\* case and a text search do not take the name of a vector dataset.
RunsTheCommand(options) ==
    /\ Len(case_runners) = 1
    /\ LET task == case_runners[1]
       IN  /\ options.dataset_with_size_type # "" /\ TakesDataset(options)
                 => task.case.data = AskedData(options)
           /\ task.case.filter.rate = AskedRate(options)
           /\ "LOAD" \in task.stages <=> options.load
           /\ "DROP_OLD" \in task.stages <=> "LOAD" \in task.stages
           /\ "SEARCH_SERIAL" \in task.stages <=> options.search_serial
           /\ "SEARCH_CONCURRENT" \in task.stages <=> options.search_concurrent

\* Whoever asks, what runs is what was asked for: no case is lost, repeated or
\* given another dataset, filter, K or stage on the way (generateTasks.py 6-48,
\* cli.py 214-303 and 1012-1037, assembler.py 56-90).
RunsWhatWasSubmitted ==
    outcome = "assembled" =>
        CASE request.by = "page"    -> RunsTheForm(request.form, request.k)
          [] request.by = "command" -> RunsTheCommand(request.options)
          [] request.by = "service" -> RunsThePost(request.tasks)

-------------------------------------------------------------------------------
SearchCases == {i \in DOMAIN case_runners :
                   case_runners[i].label \in {"Performance", "CloudColdLatency"}}

SearchCasesOf(db) == {i \in SearchCases : case_runners[i].db = db}

\* The search cases of a database follow each other: none of another database
\* comes between, which could replace the load they share.
DatabasesAreNotInterleaved ==
    \A db \in {case_runners[i].db : i \in SearchCases} :
        LET places == SearchCasesOf(db)
        IN  Max(places) - Min(places) + 1 = Cardinality(places)

Origins(t) == {i \in DOMAIN submitted : Tasks[i] = t}

\* Within a database the datasets go up in size, label filters first within a
\* size; ties run in the order submitted, performance before cold-latency cases.
SmallFirst ==
    \A i \in SearchCases \ {Len(case_runners)} :
        LET this == case_runners[i]
            next == case_runners[i + 1]
        IN  i + 1 \in SearchCases /\ this.db = next.db =>
                /\ this.size <= next.size
                /\ this.size = next.size /\ next.streq => this.streq
                /\ (this.size = next.size /\ this.streq = next.streq /\ this.label = next.label)
                      => \E m \in Origins(this), n \in Origins(next) : m <= n

\* The order of a run is the one in which loads can be shared: one database after
\* the other, small datasets first (assembler.py 63-90).
OrderedForReuse == DatabasesAreNotInterleaved /\ SmallFirst

-------------------------------------------------------------------------------
\* A rate of ids between one and ninety-nine percent, or a share of labels of one percent
\* or more, with a fraction of a percent or one that comes out just below its percentage:
\* the file found is that of another rate.
NamesAnotherRate(asked) ==
    /\ asked.mille >= 10 /\ (asked.column = "id" => asked.mille <= 990)
    /\ asked.mille % 10 # 0 \/ asked.mille \in ShortOfPercent

\* The part of the dataset that passes the filter, in rows.
Left(data, filter) ==
    LET thousandth == data.size \div 1000
    IN  IF filter.type = "StrEqual" THEN thousandth * filter.part
                                    ELSE data.size - thousandth * filter.rate

IsTruthOf(file, case, k) ==
    LET filter == case.filter
        asked == CASE filter.type = "NonFilter" -> Truth("none", 0)
                   [] filter.type = "NumGE"     -> Truth("id", filter.rate)
                   [] filter.type = "StrEqual"  -> Truth("label", filter.part)
    IN  /\ NamesAnotherRate(asked) \/ file.truth = asked
        /\ file.width # None => k <= file.width /\ file.width <= Left(case.data, filter)

\* The answers of a search are compared with the neighbours among the rows its
\* filter lets through, in a file that has K of them and no more than there are
\* (filter.py 45-93, dataset.py 242-254 and 660-716).
TruthIsOfTheFilter ==
    outcome = "assembled" =>
        \A i \in DOMAIN case_runners :
            LET task == case_runners[i]
            IN  task.label \in {"Performance", "CloudColdLatency"} =>
                    \A file \in resolve_search_files(task.case.data, task.config.k,
                                                     task.case.filter) :
                        IsTruthOf(file, task.case, task.config.k)

-------------------------------------------------------------------------------
\* A page stops working only over the file of custom datasets: when numbers were
\* saved in it, or a label filter of the user's own data is chosen.
CustomLabelsAreChosen ==
    /\ "form" \in DOMAIN request
    /\ \E i \in DOMAIN request.form.items, j \in 1..1 :
          request.form.items[i].configs[j].custom_case.use_filter

\* What the page offers is accepted: a selection whose settings it finds valid, with
\* a K it lets through, makes task configurations, finds its files, and makes
\* cases of databases that can answer them; only a filter may be refused
\* (dbCaseConfigs.py 22-31, runSettings.py 14-37, submitTask.py 39-62,
\* models.py 224-256 and 315-344).
OfferedIsAccepted ==
    request.by = "page" =>
        /\ outcome \notin {"settings_refused", "ValueError"}
        /\ outcome = "page_raises" => custom_file = "numbers" \/ CustomLabelsAreChosen
        /\ outcome = "assembled" =>
              \A i \in DOMAIN case_runners :
                  supports_payload_profile(case_runners[i].db, case_runners[i].case.payload)
===============================================================================
