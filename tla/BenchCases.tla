----------------------------- MODULE BenchCases -----------------------------
(***************************************************************************)
(* The data a benchmark run is made of: a task (one TaskConfig and the     *)
(* case it names), the key under which two cases may share one load, and   *)
(* the order Assembler.assemble_all puts the cases of a run in.            *)
(*                                                                         *)
(* A task is abstracted to what the control flow tells apart:              *)
(*   db       the database it runs on                                      *)
(*   target   the physical collection its db_config addresses              *)
(*   content  what a load of it leaves there: dataset, index parameters,   *)
(*            batch size, collection properties, tenants                   *)
(*   size     the dataset's row count, streq its filter is a label filter  *)
(*   supported  its database supports its filter, or full-text search      *)
(*   stages   the task stages it asks for                                  *)
(***************************************************************************)
EXTENDS Naturals, SequencesExt

CONSTANTS
    Databases,  \* the databases under test
    Targets,    \* physical collections
    Contents    \* distinguishable contents of a collection

Stages == {"DROP_OLD", "LOAD", "SEARCH_SERIAL", "SEARCH_CONCURRENT"}

Labels == {"Load", "Streaming", "CloudInsert",
           "Performance", "CloudColdLatency", "FullTextSearch"}

Task == [db: Databases, target: Targets, content: Contents, label: Labels,
         size: Nat, streq: BOOLEAN, supported: BOOLEAN,
         stages: SUBSET Stages]

-----------------------------------------------------------------------------
\* CaseRunner.load_reuse_key: only vector performance cases share a load.
NoKey == <<>>

\* Mutant: the key forgets the dataset and the index parameters.
KeyOfTargetOnly(t) ==
    IF t.label = "Performance" THEN <<t.target>> ELSE NoKey

LoadReuseKey(t) ==
    IF t.label = "Performance" THEN <<t.target, t.content>> ELSE NoKey

-----------------------------------------------------------------------------
(***************************************************************************)
(* Assembler.assemble_all                                                  *)
(***************************************************************************)
\* The items of tasks at the places of DOMAIN rank, those of lower rank first; of one
\* rank they keep their order.
Arranged(tasks, rank) ==
    LET UpTo(i) == {m \in DOMAIN rank : rank[m] < rank[i] \/ (rank[m] = rank[i] /\ m <= i)}
    IN  [j \in 1..Cardinality(DOMAIN rank) |->
            tasks[CHOOSE i \in DOMAIN rank : Cardinality(UpTo(i)) = j]]

\* A list comprehension.
AtPlaces(tasks, places) == Arranged(tasks, [i \in places |-> 0])

WithLabel(tasks, l) == AtPlaces(tasks, {i \in DOMAIN tasks : tasks[i].label = l})

OfDb(tasks, db) == AtPlaces(tasks, {i \in DOMAIN tasks : tasks[i].db = db})

\* Performance cases first, cold-latency cases after them.
SearchFilterTasks(tasks) ==
    WithLabel(tasks, "Performance") \o WithLabel(tasks, "CloudColdLatency")

\* The databases in the order a dict meets them: a place of each that is its first.
DatabaseOrder(tasks) ==
    AtPlaces([i \in DOMAIN tasks |-> tasks[i].db],
             {i \in DOMAIN tasks : \A m \in 1..(i - 1) : tasks[m].db # tasks[i].db})

\* list.sort is stable: ties keep the order they came in.  The key is
\* (dataset size, label filters before the others).
SortRank(t) == 2 * t.size + (IF t.streq THEN 0 ELSE 1)

StableSort(tasks) ==
    Arranged(tasks, [i \in DOMAIN tasks |-> SortRank(tasks[i])])

\* Mutant: one list for all the databases.
GroupNothing(tasks) == StableSort(tasks)

GroupByDb(tasks) ==
    LET order == DatabaseOrder(tasks)
    IN  FlattenSeq([i \in DOMAIN order |-> StableSort(OfDb(tasks, order[i]))])

\* Assembler.assemble raises ValueError for the databases without full-text
\* search, assemble_all FilterNotSupportedError for those without a filter.
AllSupported(tasks, labels) ==
    \A i \in DOMAIN tasks :
        tasks[i].label \in labels => tasks[i].supported

TextSearchSupported(tasks) == AllSupported(tasks, {"FullTextSearch"})

FiltersSupported(tasks) ==
    AllSupported(tasks, {"Performance", "CloudColdLatency"})

AssembleAll(tasks) ==
    WithLabel(tasks, "Load") \o WithLabel(tasks, "Streaming")
        \o WithLabel(tasks, "CloudInsert")
        \o GroupByDb(SearchFilterTasks(tasks))
        \o WithLabel(tasks, "FullTextSearch")
=============================================================================
