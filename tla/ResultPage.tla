------------------------------ MODULE ResultPage ------------------------------
(*******************************************************************************)
(* What the pages of results show of the result files: the runs that are offered *)
(* for selection by their labels (check_results/filters.py), the results of the   *)
(* selected ones, and of those that agree in database and case one entry of the    *)
(* charts (check_results/data.py).  A page keeps nothing; it is a function of the    *)
(* files.                                                                             *)
(*******************************************************************************)
EXTENDS ResultStore

CONSTANTS
  Directory,      \* the order of the databases' directories
  FailedResults,  \* the results labelled as failed or timed out
  Qps             \* queries per second of each result, 0 where none were counted

ASSUME ResultPageAssumption ==
  /\ Directory \in [Databases -> Nat]
  /\ \A d, e \in Databases : Directory[d] = Directory[e] => d = e
  /\ FailedResults \subseteq Results /\ Qps \in [Results -> Nat]
  /\ \A r \in FailedResults : Qps[r] = 0

\* get_results raises for a file that is being written.
Readable(files) == \A n \in files : state[n] # "torn"

\* collect: in the order of their paths, the files of one run_id are one TestResult.
Earlier(n, m) ==
  \/ Directory[n.db] < Directory[m.db]
  \/ n.db = m.db /\ n.day <= m.day

-------------------------------------------------------------------------------
\* The options of the sidebar are labels, and an option stands for the first run that has
\* it (resultSelectOptions.index).
SelectedRun(files) == runId[CHOOSE n \in files : \A m \in files : Earlier(n, m)]

\* getFilterTasks: of one database; every run has one case.
FilterTasks(results, db) == {r \in results : r[2] = db}

\* getshownResults, with all options selected
ShownResults(files) ==
  LET options == {n.label : n \in files}
      selected == {SelectedRun({n \in files : n.label = o}) : o \in options}
      read == {n \in files : runId[n] \in selected}
  IN {r \in Results : \E n \in read : held[n][r] > 0}

\* Mutant: the metrics that come last stay.
MergeMetricsLast(results) == results

\* mergeMetrics, over all of one entry: the highest qps, and any of several.
MergeMetrics(results) == {r \in results : \A s \in results : Qps[s] <= Qps[r]}

\* getBetterLabel, over all of one entry
IsNormal(results) == \E r \in results : r \notin FailedResults

\* qps_recall/data.py getChartData: a point for every success.
Points(results) == results \ FailedResults

-------------------------------------------------------------------------------
\* The files of runs that no other hides.
WithOwnLabel(files) ==
  {n \in files : \A m \in files : m.label = n.label => runId[m] = runId[n]}

\* Successful results of a database in a run with a label of its own.
Offered(files, db) ==
  LET own == WithOwnLabel(files)
  IN {r \in Results \ FailedResults : r[2] = db /\ \E n \in own : held[n][r] > 0}

\* For the same database and case the charts show the results with the highest qps
\* (check_results/data.py 117), those of a success, whatever failed later: as far as the
\* run they are in has a label of its own, and queries were counted.  Of those runs the
\* points of QPS and recall are all successes.
ChartShowsTheBest ==
  LET files == Present IN
  Readable(files) =>
    \A db \in Databases :
      LET offered == Offered(files, db)
          shown == FilterTasks(ShownResults(files), db)
      IN offered # {} =>
           /\ IsNormal(shown) /\ offered \subseteq Points(shown)
           /\ \A m \in MergeMetrics(shown), r \in offered :
                Qps[m] >= Qps[r] /\ (Qps[r] > 0 => m \notin FailedResults)

===============================================================================
