# VectorDBBench: a TLA+ model

VectorDBBench measures vector databases.  A user (on the command line, the REST
service or a web page) submits tasks; they become cases, and a child process
takes them one by one: it prepares a collection, loads a dataset into it,
searches it and records the result.  These modules model the program's own
control (which cases run in which order, which loads are reused, what is
recorded when something fails, the threads, processes, pipes and timeouts below
that), what each of its database clients does with a row, a query and an error,
and which dataset, filter and ground truth a case is made of.  The databases are
external: a call on one may succeed, fail, leave part of its work behind, lose
its answer or never be answered.

Paths are relative to `src/vectordb_bench/` unless they begin with `src/`.

## 1. Inventory

| Component | State it keeps | Operations | Modelled by |
|---|---|---|---|
| Submission: pages (`frontend/`), command line (`cli/`), service (`restful/app.py`) | the form of a page, the file of custom datasets | offer cases, check settings, build tasks | `CasePages`, `CommandLine`, `Submission`; the options and forms of each database are left out |
| Case assembly (`backend/cases.py`, `backend/assembler.py`, `models.py`) | none | make the case of a task, validate, group and sort | `CaseTable`, `BenchCases`, `Submission` |
| Run session (`interface.py`, `BenchMarkRunner`) | `running_task`, `receive_conn`, `latest_error`, the child | `run`, `has_running`, `stop_running` | `RunnerSession` |
| Benchmark loop (`interface.py:_async_task_v2`, `backend/task_runner.py`) | `latest_loaded_reuse_key`, `cached_load_duration`, `c_results`; the collections | drop, prepare, load, optimize, search, record, flush | `TaskSequence` |
| Concurrent load (`backend/runner/concurrent_runner.py`, `executor.py`) | shared iterator and lock, prefetched batch, stop event, deadline, futures | workers pull and insert with retries; the main thread waits in order | `ConcurrentInsert` |
| Concurrent search (`backend/runner/mp_runner.py`) | token queue and condition, a pool per level | barrier, collect, next level | `SearchBarrier` |
| Streaming case (`rate_runner.py`, `read_write_runner.py`) | futures under way, counted remainder, queue of signals, stage | rated inserter, staged searcher, main process | `StreamingCase` |
| Capacity load, serial search (`serial_runner.py`) | rows counted of a batch, attempts | repeat a batch until the database is full; search one by one | `CapacityLoad`, `ClientRun` (latencies left out) |
| Cloud-insert readiness (`task_runner.py:470-524`) | phase, deadline | poll until searchable, then until indexed | `ClientRun` |
| Database clients (`backend/clients/`) | connection, container | prepare, insert, optimize, poll, filter, search | `ClientKinds`, `SqlClients`, `SearchEngineClients`, `VectorClients`, `Clients`; checked by `ClientRun`, `ClientSearch`, `CapacityLoad` |
| Datasets (`backend/dataset.py`, `data_source.py`) | files, iterator position, filter ids, filtered truth | download, check, prepare, iterate; name the ground-truth file | `DatasetCase`, `FtsCorpus`, `VectorDatasets` |
| Filters (`backend/filter.py`) | none | name the rows and the ground truth | `VectorDatasets` |
| Results (`models.py`, `result_collector.py`, `check_results/`) | result files | write per database, read back, merge; select and show | `ResultStore`, `ResultPage` |
| Metrics (`metric.py`), cold and warm search, result scripts | none | arithmetic | not modelled (section 6) |

How they interact:

    page / command / service --tasks--> BenchMarkRunner.run --assemble_all--> cases
                                             |  ^
                                   child process, pipe of (signal, case index)
                                             v  |
                                 _async_task_v2: for each case
            dataset files -----> |   drop? prepare, load, optimize, search -----> result files
                   +-------------+-----------+---------------------+                  ^
         ConcurrentInsertRunner  MultiProcessingSearch      ReadWriteRunner      merging script
         threads, one iterator   processes, barrier         inserter/searcher queue
                   +-------------- one database client ------------+

The parent learns of the child's progress only when a caller polls.  The cases of
a run share the databases' collections, and two with the same reuse key share a
load.  The runners return a number or an exception; the loop turns either into a
`CaseResult`.

What makes each part correct, and is hard:

- **Submission.**  Nothing may be lost or altered between what a user asks for
  and the case that runs, through three different ways in, a table of thirty case
  types with optional parameters, and validators in four places.
- **Loop.**  A load is skipped by a remembered key, not by a look at the
  collection; in between other cases drop, load half, time out.
- **Session.**  No field is locked, and the child may end at any time.
- **Concurrent load.**  The stop event is read twice, the deadline once, futures
  are awaited in order, three kinds of timeout end a load.
- **Concurrent search.**  A barrier of a polled queue and a condition.
- **Streaming.**  Insertions overtake each other while searches start from
  counted signals.
- **Clients.**  Forty adapters must report what the database did, through
  retries and lost answers, and rank and filter as the ground truth does.
- **Datasets.**  Recall is fair only if every document a query is to find has
  been sent, under the id that the filter compares.
- **Results.**  Files are replaced, merged and removed by two processes.

`PROJECT.json` lists every hazard with its line and the properties that watch it.
Where the code simply does the thing and no comment, doc or test says otherwise, the
model has the behaviour and the properties except it by name; such a hazard names no
property: an empty metric recorded as NORMAL (`read_write_runner.py:200`), an empty
file that ends a dataset (`dataset.py:824`), a rate that names the file of another
(`filter.py:60`), a custom file that cannot be read back (`displayCustomCase.py:66`),
a first start that overlaps another (`interface.py:66`).

## 2. The modules

| Module | Models | State and actions |
|---|---|---|
| `VectorDatasets` | dataset classes, the registry, filters, ground-truth files, `max_search_k`, `resolve_search_files` | operators; one that may raise returns a set, empty when it raises |
| `CaseTable` (extends it) | `CaseType`, every case's constructor, the validators of `CaseConfig` and `TaskConfig` | operators |
| `CommandLine`, `CasePages` (extend it) | the options of a command and the task `run` makes of them; the items of the run page, its selection and settings, the custom datasets | operators |
| `BenchCases` | `load_reuse_key` and `assemble_all` | operators |
| `Submission` (composes these with `Clients`) | one request, from form, command or post to the assembled cases | `SaveCustomDataset`, `FillForm`, `PressRun`, `GiveCommand`, `PostTasks`, `Assemble`, `Refuse...` |
| `TaskSequence` | the child: the loop and `CaseRunner.run` | `pc` walks the steps of one case; every step has a failing twin |
| `RunPromise` | what a run promises its observers (abstract) | `Advance`, `Succeed`, `Fail` |
| `RunnerSession` | the shared runner, the pipe, the children | a caller's operation is cut at each use of a shared field |
| `ConcurrentInsert` | `ConcurrentInsertRunner` in its three uses | workers, main thread, clock |
| `SearchBarrier` | `MultiProcessingSearchRunner` | processes and main process, level after level |
| `StreamingCase` | `ReadWriteRunner` and its inserter | inserter, one action per insertion, searcher, main |
| `ClientKinds`, `SqlClients`, `SearchEngineClients`, `VectorClients`, `Clients` | what each client does in the methods the runners call, as a record of kinds | `Clients!DB` is the table `init_cls` makes |
| `InsertAttempt` | what one `insert_embeddings` may leave and report | operators |
| `ClientRun` | one performance or cloud-insert case on any client | the runner's calls, faults, the database's own pace |
| `ClientSearch` | metric and filter from case to answer | `CreateIndex`, `Load`, `SearchEmbedding` on an exact database |
| `CapacityLoad` | `run_endlessness` on any client | rounds, attempts, a database that takes `limit` rows |
| `FtsCorpus`, `DatasetCase` | corpus capping, filter ids, filtered truth; `_pre_run`, download, validation, iterators, crash and rerun | one action per file operation |
| `ResultStore` | runs and merges over the result files | open, write, close and remove as steps, a stop between any two |
| `ResultPage` (extends it) | the runs a page offers and the entries of its charts | operators on the files; a page keeps nothing |
| `...Proofs` | theorems: `PlanProofs` about `BenchCases`, `Submission` and `TaskSequence`, `LoadProofs` about `DatasetCase`, `FtsCorpus` and `ConcurrentInsert`, `SearchProofs` about `ClientSearch` and `SearchBarrier`, `ResultStoreProofs` about `ResultStore` and `ResultPage`, the others about the module of their name | |
| `MC...` | values of the constants for TLC | |

Correspondence worth knowing:

- A **task** of `BenchCases` keeps what the control depends on; `target` is the
  physical collection (`load_reuse_key` hashes the connection config and
  collection name), `content` everything else in the key.  `Submission` makes
  such tasks of whole configurations, `TaskSequence` takes them from a catalogue.
- A **collection** is what its rows are and how far it got (`partial`, `loaded`,
  `ready`).  A load duration is the position of the case that made the load.
- `touched` and `searched` in `TaskSequence`, `succeeded` in `RunnerSession`,
  `pulled` and `late` in `ConcurrentInsert`, `races` in `RunnerSession`,
  `written` and `harm` in `ResultStore`, `faults` everywhere are observations or bounds.
- In `ConcurrentInsert` taking the lock and the look at the stop event under it
  are one step: nothing another thread does between them is visible but through
  `stop`, read at the second.
- In `RunnerSession` runs, pipes and children have one number, so that it can be
  told to which run an index, an error or a child belongs.  Any number of callers
  share the object.  `races` remembers the two overlaps of callers that do harm:
  a run started across another's start or end, and two signals handled at once.
- In `StreamingCase`, `Share(n, percent)` is `int(n * stage)` of a double:
  `RoundedDown` lists the products that it cuts off one short (29 % of 100 is 28).
- A **client** is abstracted to what can be told of it from outside: what it does
  with old rows, whether a failed drop is raised, what an insertion reports with
  an error, what it raises before it writes, whether sending again stores twice,
  whether its connection survives,
  what `optimize` waits for, what readiness means, by which metric it indexes and
  ranks in each case, which filter it writes, what a failed search returns.
- In `ClientSearch` vectors are integer directions with a length, so that cosine,
  inner product and distance compare exactly.
- Rates and percentages in `VectorDatasets` are per mille; `ShortOfPercent` are
  the three whole percentages that floating-point multiplication leaves just
  below (0.29, 0.57, 0.58).
- `Submission` keeps a dataset's ground truth as the population it was made for
  (no filter, ids from a rate on, rows of a label) and its width.

`RunPromise` is implemented twice: by the child as it works
(`TaskSequence!KeepsPromise`, proved) and by what the parent has seen of each run
(`RunnerSession!SeenRunsKeepPromise`), with crashes, stops and lost pipes.

Operators named "Mutant" in a comment are faulty variants of the definition that
follows them, kept to show that the properties notice; no specification uses
them.

## 3. The runs

| Run | Shows |
|---|---|
| `submission` | `RunsWhatWasSubmitted`: whichever way a request comes in, the assembled cases are those asked for, each as often, with its dataset, filter, K and stages.  `OrderedForReuse`: one database after the other, small datasets first, ties as submitted.  `TruthIsOfTheFilter`: a search is compared with the neighbours among the rows its filter lets through, in a file with enough of them, but for rates that are cut to a whole percent.  `OfferedIsAccepted`: what the run page offers and its settings let through makes cases that find their files and run on databases that can answer them. |
| `loop` | `FaultlessReuseIsSound`: with nothing failing, and drops that come with loads, every performance result searched a finished load of its own content.  `MisledOnlyByDisturbance`: with failures, reuse is misled only when a case disturbed the collection after the load.  `ReportedLoadsAreReal`: a reported load duration is of a load that took place, and one is reported when due.  `ColdCaseOnlyReads`; `EveryCaseIsRecorded` (liveness): every case is recorded, or a call without a deadline never returns; `KeepsPromise` (refinement). |
| `session` | Two callers that start, poll and stop runs in any interleaving; children that fail, die or hang.  Up to the first run started across another's start or end: `ChildBelongsToTask`: at most one child, none without a task; `HeldRunIsHeard`: the pipe that is read is that of the run that is held, whose child works on it.  As long as no two callers handle signals at once either: `ReportsAreTrue`: progress and success are those of the run they are shown for; `SeenRunsKeepPromise` (refinement).  `EndsUnlessChildStops` (liveness): a run whose child ends with a signal does not stay running. |
| `insert` | Three uses, retries, failures at every point, three timeouts.  `ReturnedMeansLoaded`, `EachBatchOnce`, `EndsStopPulling` (a failure or the deadline stops the others, but for what was under way), `NothingAfterTheEnd`, `LoadEnds`. |
| `search` | Failing and dying processes, the slot timeout, two levels.  `NobodyStartsEarly`; `LevelsAreWhole`: a level counts every process and the levels returned are a prefix; `HangsOnlyAtTheBarrier`: the only way not to end is a process left waiting there. |
| `streaming` | Overtaking, lagging and failing insertions.  `StagesFollowData`: the signals count batches exactly and no stage starts before its data; `MetricIsComplete`: the last search sees the dataset, and no stage is left out unless the searcher was told of the end while its stage waited for the last whole round; `EndsUnlessAborted`: the case ends unless a call never returns or the inserter aborts outside an insertion. |
| `client_run` | Every client, a performance and a cloud-insert case, failing calls, lost answers, rows lost silently.  `StoredAsCounted`, `RetriesAreUsed`, `MeasuredWhenReady`, `AnswerIsReal`, `RunEnds`, each for the kinds of clients it names. |
| `client_search` | Every client, metric and filter on an exact database.  `AnswerIsTruth`: the answer is the published truth; `IndexServesQuery`: the index ranks as the query does. |
| `capacity` | Every client until the database is full.  `CapacityIsHonest`: what is reported is stored and a report means a full database, attempts used up, or a connection that could not be opened or closed.  `CapacityEnds`. |
| `datasets` | Text, Parquet and HDF5 cases from files to rows, interrupted downloads, crashes, a rerun.  `RecallIsFair`: what a query is to find was sent and passes its filter; `WholeCorpusSent`: every row once, in order; `CaseIsFinished`: a broken download is repaired. |
| `results` | Runs and merges, either stopped anywhere, over midnight.  `EveryResultOnce`: no written result is lost or counted twice but by the kinds of harm the module names.  `ChartShowsTheBest`: the entry of a database in the charts is the best success of all runs with a label of their own, whatever failed later. |
| `loop_stale_key` (a violation) | A loads; B, with other index parameters, drops the collection and fails; A's key is still remembered, so a third case with A's key neither drops nor loads and is measured on B's leftovers (`interface.py:180`, `:193`, against the comment at `:197`). |

### What the properties except

A property that holds only for some clients or inputs names them; TLC, run with
the exception lists empty, finds exactly these.

- **Rows after a load** (`StoredAsCounted`, `MCClientRun!Inexact`).  Keep old
  rows when told to drop: Redis, AliyunOpenSearch, Endee.  Go on after a failed
  drop: Redis, Chroma, Vespa, TurboPuffer, Pinot.  Lose rows without an error:
  WeaviateCloud, AWSOpenSearch, OSSOpenSearch, Vespa, Lindorm, Pinot, Zvec.  Store
  rows twice when a batch is retried: Milvus, ZillizCloud, ElasticCloud,
  AliyunElasticsearch, TencentElasticsearch, WeaviateCloud, MongoDB, Clickhouse,
  LanceDB, Doris, Pinot.  Counts chunks: QdrantLocal.  The others are exact.
- **Ranking** (`Misranks`, `Unserved`).  Redis and Endee rank by cosine whatever
  the metric; Clickhouse answers inner product by distance; the graph index of
  Hologres answers cosine by inner product of vectors nobody normalised.  AlloyDB
  and Clickhouse build a cosine index for inner product.
- **Filters** (`Misfilters`).  The Elasticsearch and OpenSearch clients and
  Lindorm ask for ids *greater than* the bound (`elastic_cloud.py:229`) where
  `filter.py:7` says `>=`.
- **Calls that always fail.**  OceanBase's label filter is written with `==`
  (`oceanbase.py:210`), MariaDB's search statement without the space before
  `ORDER` (`mariadb.py:112`): the databases refuse both.  KTANN refuses to start
  without `drop_old` (`ktann.py:165`).  In the models these fail; no property
  objects to a failure that is recorded as one.
- **Retries**.  The psycopg clients that load by COPY without a rollback
  (PgVector and its relatives, CockroachDB, AlloyDB, Adbpg, VectorChord) have an
  aborted transaction after the first error, so their retries fail too; Lakebase
  rolls back.  In a capacity case such a client, or one that raises, refuses or
  skips, reports the capacity after one transient error.  So does every client
  when one round cannot open or close its connection (`serial_runner.py:53`, caught
  at `:126`): `CapacityMeansFull` excepts the connection that was lost.
- **Raised before writing.**  TiDB divides a batch among ten workers and raises
  `ValueError` for fewer than ten rows (`tidb.py:195`), as the short last batch of a
  dataset may have; QdrantLocal turns the index off before its `try`
  (`qdrant_local.py:173`), so that an error there is raised and not reported.  A load
  of either fails without a retry: `RetriesAreUsed` and `CapacityMeansFull` except
  them.
- **Ground truth** (`NamesAnotherRate`).  A rate of ids between 1 % and 99 %, or a
  share of labels of 1 % or more, with a fraction of a percent, and 0.29, 0.57 and
  0.58, name the file of another rate (`filter.py:60`, `:81`).  The bound of 99 % is
  only in the branch for ids: the proof of `FilesAreTrue` failed for shares above it,
  and the run now has one (99.5 %).
- **Results**.  A crash inside the write of an existing output loses it, a torn
  file makes every later collection raise, merging twice without `--replace`
  counts twice, a run under the merged label replaces the merged file.
- **The run page** stops opening once numbers have been saved as label
  percentages of a custom dataset (`displayCustomCase.py:66` writes floats,
  `getCustomConfig.py:25` declares `list[str]`); percentages written as texts by
  hand make the label filter raise when it is chosen.

### Seen while modelling, without a run of their own

- A vector load that times out raises `PerformanceTimeoutError(msg)`, whose
  constructor takes no argument: the case is FAILED with a `TypeError` instead of
  OUTOFRANGE (`concurrent_runner.py:318`, `models.py:36`).
- The alarm of a full-text load is taken by `wait_all` for the error of the
  future it waits for; no stop event is set (`concurrent_runner.py:305`,
  `executor.py:92`).
- At the barrier a token is put before the wait begins, so the one notification
  may come between and be lost (`mp_runner.py:142`, `:209`); after the slot
  timeout the pool waits for processes that wait for a notification.
- An inserter that fails to open the database or to read the dataset sends no
  signal; searcher and main process wait for ever (`rate_runner.py:116`).
- A child that dies without a last signal leaves an end of file in the pipe;
  `recv` raises out of `has_running`, and every later run is refused
  (`interface.py:112`).
- `_pre_run` ignores that `prepare` returned False (`task_runner.py:276`): a
  full-text case whose preparation failed drops the collection and loads the
  corpus without its limit.  An error in the corpus stream shortens a load
  unnoticed.  A vector case drops the collection before it downloads and
  validates its files.
- An empty file after the first ends the iteration over a dataset
  (`dataset.py:824`); the rows of a Parquet dataset are not counted against its
  size; a complete old file of the right size passes the download check.
- With `--skip-drop-old --load` nothing is loaded (`task_runner.py:389`).
- `PerformanceCustomDataset` drops the payload profile that the page offers for
  it (`cases.py:416`); a streaming case on the command line ignores
  `--dataset-with-size-type`, its custom variant is always refused, and a text
  search with a vector dataset's name runs on MSMarcoSmall.
- The constructor errors of a case leave `BenchMarkRunner.run` as `ValueError`;
  only unsupported filters are reported.  The service does not set `drop_old`
  and uses what a page left.
- The items of the run page are module-level objects that all browser sessions
  fill in; two sessions lose each other's custom datasets.
- On every page of charts a run is chosen by its label, and a label stands for the
  first run that has it (`filters.py:56`): a later run of the same label is never
  shown, so that the comment on `mergeMetrics` ("for same db-label, we use the
  results with the highest qps", `data.py:117`) holds only for runs with labels of
  their own.  A merge gives all its files one label.  Where no result counted a
  query (capacity, streaming, cold and cloud cases), the entry is what came last,
  and may be the zeros of a failure under the label of an earlier success.
- Two callers can start two benchmarks (`interface.py:66`); a stop may close the
  pipe that another caller has just made (`:250`); two callers that take signals at
  once may show progress out of order (`:112`).  `races` names the overlaps.
- A streaming dataset that is no multiple of the rate announces its last whole
  round as the end, and a searcher that still waits for it drops the stages it has
  searched (`read_write_runner.py:246`); a streaming error is swallowed
  and an empty metric recorded (`:200`); `run_by_dur` polls without a timeout
  (`mp_runner.py:353`).
- Two datasets of one size may alternate in the assembled order, and then
  neither's load is reused (`assembler.py:82`).

### Bounds, and why they are enough

| Run | Bounds |
|---|---|
| `submission` | Every item of the page alone on four selections of databases and pairs of eight items on three; the commands that differ from the default in the options of one kind; every list of up to 3 tasks from 13 for the service; K at and beyond each limit.  Interleaving needs three tasks, stability two. |
| `loop` | Every list of up to 3 tasks from a catalogue of 14, assembled: two databases and collections, two contents, all labels, stages with and without drop or load.  Misled reuse needs three cases. |
| `session` | 2 callers, 2 runs, 2 cases.  Confusing two runs needs two; every harmful overlap is one of two callers.  Behaviours are followed up to the first start that overlaps (`NoStartOverlaps`), after which the properties promise nothing. |
| `insert` | 3 workers, 3 batches, 1 retry: a failing worker and two more, each with a batch to take. |
| `search` | Levels of 3 and then 2 processes: a smaller level after a larger one. |
| `streaming` | 7 batches, 2 a round, so that the last round is not whole; stages at 29 %, recorded as 28 by `int()`, and 90 %, which waits for the last whole round; 2 pending (200 in the code) before a round is skipped.  That `int()` cuts the number of rounds one short first happens at 50 rounds: the proof has it. |
| `client_run` | 3 rows in batches of 2, 1 retry, 2 faults: a whole and a short batch, a fault in the first attempt and in the retry; rows stored more than twice count as twice.  TiDB's ten workers are two (`Workers`), so that its short last batch is too small, as nine rows are. |
| `client_search` | 3 rows, K = 2, four vectors with two directions of different lengths: enough to order all metrics differently. |
| `capacity` | Rounds of 2 rows, room for up to 3, 2 attempts, 2 faults: a round that fits, one that fits half, a transient failure before either.  A fault may also hit the opening or the closing of a round's connection. |
| `datasets` | 3 documents, 2 queries, 3 files of up to 3 rows, 2 faults, 2 runs: a cap that cuts, a document judged relevant beyond it, an empty file before, between and after others. |
| `results` | 2 databases, 2 labels of runs and that of merges, 2 runs, 2 merges, 2 days, 1 stop.  States in which a result may be lost are not continued: what is said of them is nothing. |

Deadlock is not checked where a system ends or a bound is used up
(`submission`, `loop`, `session`, `insert`, `search`, `streaming`, `results`);
`client_run`, `client_search`, `capacity` and `datasets` end in an explicit step.

### Fairness

- `loop`: `WF(~Waiting /\ Next)`.  The loop goes on by itself, and a step with a
  deadline (the load of vectors, the optimize) returns, raises or is ended by
  it.  `Waiting` names the calls that nothing ends: the preparation of a
  case, what a capacity, streaming or cloud insert case inserts (and its readiness
  without `readiness_timeout`), the load of documents, and every search, which may
  hang at the barrier (`mp_runner.py:142`, `:209`) or poll for ever (`:353`).
  No fairness is assumed of them, and `EveryCaseIsRecorded` says that the loop gets
  through unless it is in one of them for ever.
- `session`: a child's steps, a caller's operation once begun, and `has_running`
  (the command line polls, `cli/cli.py:1044`; the pages refresh).  Nothing
  obliges a child to succeed or a caller to stop or start anything.  A child may
  hang: then it takes no more steps, whatever its fairness.
- `insert`: each worker and the main thread.  No timeout is assumed to strike.
- `search`: processes, main process and the slot timeout, whose loop counts its
  own sleeps.  No crash or failure is assumed.
- `streaming`: the inserter once it is open, what the searcher does between its
  searches, what the main process does when a call has come back, and nothing of the
  calls: opening the connection, an insertion, a search (a concurrent search has the
  barrier and the polling above) and the optimize may hang.  `NeverReturns` says that
  one does, and `EndsUnlessAborted` excepts it.
- `client_run`: the runner, and a database that shows rows and finishes its index
  in the end.  No fault is assumed.
- `capacity`: the runner and the clock.
- `datasets`: the case's steps and the rerun; crashes and faults are not assumed,
  and `MaxFaults` bounds them.


## 4. The proofs

Checked by TLAPS for every value of the constants that satisfies the named
assumptions.  The modules they speak of declare no recursive operator.

### From a submission to its plan (`PlanProofs`)

Assumptions: `FormsAssumption`, `CommandsAssumption`, `PostsAssumption`,
`KsAssumption`: what a page, a command and a post are declared to hold.  Boxes are
ticked once (`dbSelector.py:28`, `caseSelector.py:51`), so that no database, item or
profile of a form is there twice; its number fields have a least value of one.
Forms with any number of databases, items and profiles, any K, any options of a
command, lists of tasks of any length.

`AssemblyIsAnOrder`, `SubmissionInvariant`, `OrderedRuns`, `TruthsOfFilters`,
`RunsAreAsked` (from `CommandRunsItsCase`, `ServiceRunsItsPosts` and `FormRuns`),
`OffersAreAccepted`, `AssembledPlansAreInOrder`: all four invariants of the run
`submission` are theorems.

What `assemble_all` makes of a list is described by `Lists`: it has the items of
the list at some of its places, each once, and of any two the places are in a given
relation.  A comprehension, a concatenation, a stable sort and a concatenation of
groups each list what their arguments list (`ArrangedLists`, `ListsJoin`,
`ListsFlatten`), and a list of a list is one of the first (`ListsThrough`).
So `AssemblyIsAnOrder` is put together as the code is: every task once, in
`RunOrder`, which is by part of the run, then, for the search cases, by the place of
the database, the size, the filter, the label and the place submitted.  With that a
case between two search cases of one database is one of the same database, and a
set of numbers without gaps is an interval.  `SubmissionInvariant` brings it to
every submission: whatever was filled in, given or posted, the configurations are
well formed, and every case the table can make of one has a label and a size
(`CaseShape`, case type by case type).  `AssembledPlansAreInOrder` discharges the
assumption `PlansInOrder` of the loop.

*Truth.*  A runner is a task submitted (`RunnersAreTasks`), its case one of the table
for a well-formed configuration, and such a case has one of four filters and, when it
is of LAION, its one size (`CasesHaveFiles`).  `FilesAreTrue` is then about
`resolve_search_files` alone, for every filter and K: `int_rate` is exact outside
`NamesAnotherRate`, and a tier of LAION is chosen at least as wide as K and no wider
than what its filter leaves.

*Commands.*  `RunsWhatWasSubmitted` says nothing of what is pending, so it is not
inductive; `CommandInv` adds that a command's request and its one task are made of the
same options from the moment it is given.  `CommandCase` then follows every option
through `get_custom_case_config` to the dataset and the rate of the case.

*Pages.*  `FormInv` does the same for a form: what is filled in, pending or run is
`generate_tasks` of what is chosen, with the K entered, and passed every check on
the way.  `FlattenPlaces` numbers the tasks by database and configuration, and
`SelectedCasesDiffer` shows that no two configurations chosen are equal (each item
offers its own, `SelectableOffers`, and a configuration tells its item, `ItemOf`);
so each pair has exactly one run, in the order of `AssemblyIsAnOrder`.

*Offers.*  `PageInv` says that no request of a page was refused, which only
`FormInv` makes inductive.  `MadeIsAccepted` goes through what an item can offer and
shows of each configuration that its case exists, answers with the payload chosen and
finds its files (`Accepted`); `FilesAreFound` that this stays so for every K the field
lets through; `PendingIsMade` that the assembler raises for none of them.

### The benchmark loop (`PlanProofs`)

Assumptions: `PlansAssumption`, `PlansInOrder` (plans are sequences of cases of
known sorts, as `assemble_all` leaves them), `CanFailAssumption`.  No bound on a
plan's length, the size of a dataset or the number of collections.

`TypeCorrect`, `LoopInvariant`, `MisledOnly`, `ReportedLoadsHold`,
`LoopKeepsPromise` (every step is a step of `RunPromise` or a stutter),
`FaultlessReuse`, `ColdReadsOnly`.

The properties speak of results; they are not inductive, because a result is
written long after the reuse key that it rested on was remembered.  The
strengthening has two parts.  `RememberedLoad` says what the remembered key
vouches for: the collection holds that content, finished, or a later case has
touched the collection or failed at it.  `CaseAtWork` says, for each step of the
case at work, what has become of its collection so far.  A step inside a case
keeps `RememberedLoad` because it touches only the case's own collection and says
so in `touched`; `Complete` either becomes the remembered load or leaves it alone;
a failing step turns "the case at work is at it" into "a case failed at it".  The
lemmas `ResultsKept` and `ResultsUnchanged` carry what is known of recorded
results over every step that records none.  `FaultlessReuse` then needs, besides,
that a collection is only disturbed by a case that drops it, and that such a case
loads it again.

### The files of a dataset and what is loaded of them (`LoadProofs`)

Assumption: `DatasetAssumption`: any number of documents, files, rows of a file,
rows of a batch, faults and runs.

`CaseInvariant`, `VectorLoadIsWhole`, `FilterIdsPermute`, `FairRecall`.

The properties speak of a load that is over; in between there may have been
interrupted downloads, torn files, crashes and a rerun that starts anew.
`VectorInv` says that the rows sent are those up to the place of the iterator, in
the order of the files, which is kept because the iterator skips nothing but files
that are used up.  `TextInv` says what the preparation of a text case has fixed: the
documents kept are a prefix of the corpus that has every document judged relevant,
and the truth is that of their ids.  That as many ids pass a filter as its threshold
says rests on `FilterIdsPermute`: the multiplier has no factor in common with the
size, so it permutes the ids (Euclid's lemma, by a least multiple).

### The concurrent load (`LoadProofs`)

Assumptions: `NumWorkersAssumption`, `NumBatchesAssumption`,
`MaxRetryAssumption`: any number of each.

`TypeCorrect`, `LoadInvariant`, `BatchesOnce`, `PullingStops`, `CountCanBeTrusted`,
`EndIsTheEnd`.

The inductive invariant `LoadInv` has five parts.  `IteratorInv`: only the holder
of the lock is at the iterator, and what was handed out is what lies before it.
`LateInv`: what was pulled after a failure was pulled by the holder who had
looked before it.  `AccountInv`: every batch pulled is in the hands of a worker,
in a worker's total, or lost to a failure that is known of.  `WhyInv`: why a
worker is done.  `MainInv`: the futures before the one awaited are over, without
error if none was met.  `CountIsSound` puts them together: a count is returned
only when no error was met, so no worker raised, so the event is not set, so each
worker is done with the data or past the deadline.

### A case on one client (`ClientRunProofs`)

Assumption: `ClientRunAssumption`: any number of rows, batch size, sub-batch size,
retries and faults, and any client the profiles of `ClientKinds` can describe, the
forty of `Clients` and others that may be written.

`Invariance`, `TypeCorrect`, `StoredAsCountedHolds`, `RetriesAreUsedHolds`,
`MeasuredWhenReadyHolds`, `AnswerIsRealHolds`.

The properties speak of a load that is over.  `WrittenSoFar` is what makes them
inductive: of the rows before `next` each is stored, and exactly once for the
clients that can be relied on; of the rows from `next` on only the batch at work
may have been written, and for a client that stores twice what is sent twice, not
even that unless its connection is gone.  `AttemptsSoFar` says that a batch which
can be sent again is refused by faults only, so that `tries` never exceeds them;
`ShownSoFar` ties what queries see to what was stored.

### Metric and filter of an answer (`SearchProofs`)

Assumptions: `ClientSearchAssumption` (any number of rows and neighbours, any
vectors of one direction each on the circle, any profiles of clients) and
`MisranksAssumption`, `UnservedAssumption`, `MisfiltersAssumption`: a client that is
not in the list of exceptions has the metric and the filter that were asked for.
The runs evaluate the three on the table of the real clients, so the theorems hold of
those as well as of any other table.

`AnswerInvariant`, `AnswersAreTruth`, `IndexesServe`.

A client may rank by another metric than the case names and be right: on vectors of
length one, distance, inner product and cosine order the rows alike
(`OnUnitVectors`), which is a matter of integer arithmetic.  `AnswerInv` carries from
the index to the answer which metric was set and that the rows stored are the
dataset as the client sends it.

### The concurrent search (`SearchProofs`)

Assumptions: `ConcurrenciesAssumption`, `HasTimeoutAssumption`,
`CanCrashAssumption`: any list of levels, any number of processes in each, with
and without the slot timeout and with or without processes that die.

`TypeCorrect`, `SearchInvariant`, `NobodyEarly`, `WholeLevels`.

That nobody searches before everybody came is not inductive: the main process
only counts tokens.  `BarrierInv` ties the count to the processes: there are no
more tokens than processes that came (a process that dies before its token came
and left none), so a full queue means that all came, and until the main process has
gone past the queue nobody was notified.  `ResultsInv` says which level the next
result belongs to, and that after an error there is none; with it a result is that
of a whole level.  Both hold with crashes: what a crash can do is to keep the main
process waiting, which is a matter of liveness and left to the model checker
(`HangsOnlyAtTheBarrier`).

### The run session (`RunnerSessionProofs`)

Assumptions: `NumCasesAssumption`, `MaxRunsAssumption`, `CanStopAssumption`: any
number of cases and runs, children that fail, die or hang at any point, and any set
of callers.

`TypeCorrect`, `SessionInvariant`, `OneTaskOneChild`, `TrueReports`, `HeldIsHeard`,
`SeenKeepsPromise`.

An observer sees fields of the runner; a child sees only its own work; between
them is a pipe that is replaced with every run and read late, and several callers
read and write the fields between each other's steps.  `races` grows and is never
emptied, so each invariant is kept as long as the overlap it cannot stand has not
happened, and nothing is claimed afterwards.  The part `CoreInv` holds until a start
overlaps: `HeldInv` says which run the fields belong to at each point of each
caller's operation, and that any number of callers may poll, stop and clear the same
run, because all they clear is that run's.  `ChildInv` says that only the child of
the held run can be alive.  `StreamInv` joins the
ends: what the parent has taken down, then what it has in hand, then what the pipe
holds, is exactly what the child sent, in the order of its cases, and a final
message is the last; it needs `races = {}`, since two signals in two hands have no
order.  `SucceededInv` remembers it for runs that are over.  With it
each step of the parent is a step of `RunPromise` for the run it speaks of, or
none at all.

### The streaming case (`StreamingCaseProofs`)

Assumptions: `VolumeAssumption`, `StagesAssumption`, `PendingAssumption`,
`FlagsAssumption`, `RoundingAssumption`: any dataset, rate and bound on insertions
under way, any ascending list of percentages, any products that `int()` cuts off one
short, failing batches and an inserter that fails anywhere.

`TypeCorrect`, `StreamInvariant`, `StagesAfterData`, `CompleteMetric`.

A stage starts when enough signals were counted; the property speaks of batches in
the database.  `CountInv` keeps the account between them: rounds counted, signals
in the queue and the remainder are what was submitted and is no longer under way,
and `InsertInv` says that such a batch is inserted as long as the inserter has not
failed.  Once it has, only the second part of `CountInv` holds: the signals of
progress alone never promise more than is there.  `QueueInv` is what makes the
difference harmless: a signal of an end is the last one in the queue.  `StageInv`
ties the rounds counted to the stage and the result to the stages passed, and says
why a searcher gave up: the inserter failed, or the stage waited for the last
whole round (`WaitsForTheEnd`), which is announced as the end and not counted.

### The capacity load (`CapacityLoadProofs`)

Assumption: `CapacityAssumption`.  Any client that a profile of `ClientKinds` can
describe, not only those of the code; any size of a batch, a round and the
database, any number of attempts and of faults.

`TypeCorrect`, `CapacityInvariant`, `HonestCapacity`.

The capacity reported is a sum of what the client said of each attempt; the property
speaks of rows.  `CountedInv` says which rows a count stands for.  A client whose
batch is one statement, or goes row by row, leaves the first rows of what it was
sent: the rows counted are the first of the round.  A client that
writes in any order and skips or refuses a row that is there counts only rows that
are new: there are as many as are counted (`Kept`), and a round that counts as many
as it has holds them all, which is a count of sets (`FS_Subset`,
`FS_CardinalityType`).  `RoomInv` is the other half: an attempt that meets no fault
fails only for want of room, so attempts not used up by faults mean a full database.
A connection that cannot be opened or closed ends the round with no attempt made, and
is excepted by name.

### The result files (`ResultStoreProofs`)

Assumption: `ResultStoreAssumption` (finite sets of databases and labels).  Any
number of runs, merges, days and processes that are stopped.

`TypeCorrect`, `StoreInvariant`, `ResultsCountOnce`.

Between collecting and the last removal a result may be in its source, in the output,
in both, or only in the memory of the merge while the output is open.  `KeptInv` says
that this is all: whatever was written is gathered; it is in a file, or its database
is the one whose output is open; and a database that is merged has a file with
everything gathered of it that will not be removed, an output or a file that was not
a source (an output named on one day and opened on the next).  `MergeInv`
makes removal safe: at that point every database gathered is merged.  `OnceInv`
counts the other way: as long as nothing was copied, every file that is there is a
source or an output, two outputs are of two databases, and so once no source is left
each result has one file.  `SumOfFiles` turns that into what a reader counts.

### The page of charts (`ResultStoreProofs`)

Assumption: `ResultPageAssumption` (directories of different databases differ; a
failed result measures nothing).

`ChartsShowTheBest`.

The page reads the files in some order and takes, per database, a maximum of what
it read, a failure counting as nothing.  The proof is that neither the order (the
first file is the one with the least number) nor failures hide a success: whatever
is offered is among the points, and the point shown is one with the greatest rate.

### Model-checked only

- Liveness and fairness, which this prover does not reach: `EveryCaseIsRecorded`,
  `EndsUnlessChildStops`, `LoadEnds`, `HangsOnlyAtTheBarrier`, `EndsUnlessAborted`,
  `RunEnds`, `CapacityEnds`, `CaseIsFinished`.

Every other property of a passing run, invariant or action property, is stated by a
theorem.

Induction over data with the theorems of the library is out of reach, because they
take a predicate as a parameter.  Where a proof needs it (a concatenation of lists,
Euclid's lemma, a place in a file) it takes the least number that fails instead,
which exists because `<` on the naturals is well founded.

## 5. The plan

The order of work was: the loop, whose reuse of loads decides what a result means;
the session that starts it; the runners it calls; the clients below them; the
datasets that feed them; the requests above them; the files at the end.  Each was
model-checked first, and proved where a bound of the model could hide something.

What is left, in order:

1. `RunnerSession` composed with `TaskSequence` in place of the child that
   reports cases one by one; `RunPromise` is what stands between them now.
2. Recall, NDCG and MRR over small rationals.

## 6. Not modelled

- **Metrics** (`metric.py`), percentiles and means of latencies, the
  ratios of cold and warm search: sequential floating-point arithmetic without
  state.  What it is applied to (answers, ground truth, which results there are)
  is modelled.
- **The options and forms of each database** (`backend/clients/*/cli.py`,
  `frontend/config/dbCaseConfigs.py`): tables of index parameters that are passed
  through to the database's library and decide its speed, not what the program
  does.
- **The full-text methods of the clients** and the BM25 settings, apart from which
  clients have them; hybrid and sparse indexes.
- **`AsyncExecutor`**, which no caller selects.
- **The drawing of charts, tables and prices, the formatting of results, logs and
  file names**, the scripts under `scripts/` and `results/` other than the merge.
- **Pickling** of cases between processes, taken as a copy.
- **The databases, operating system and libraries**, which are external: they
  appear as what a call may leave behind and answer.

## 7. Running

    tlc -workers 2 -config TaskSequence.cfg MCTaskSequence
    tlapm PlanProofs.tla

and likewise for the other `.cfg` files; `PROJECT.json` names the module of each.
The longest runs are `datasets` (2.2 million states), `results`, `insert` and
`submission`, one or two minutes each.  `TaskSequenceStale.cfg` is the one
that ends in a violation: the comment it checks and the code disagree (see the
finding in `PROJECT.json`).
