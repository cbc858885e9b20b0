------------------------------ MODULE ResultStore ------------------------------
(*******************************************************************************)
(* The result files.  A run that ends writes its results, one file per database   *)
(* (models.py TestResult.flush), under a name made of the day, the task label and  *)
(* the database: a file of that name is replaced.  Another process may merge all     *)
(* files into one per database and remove the others (backend/result_collector.py    *)
(* ResultCollector.merge_by_db).  A file that is being written is torn until it is      *)
(* closed, and either process may be stopped anywhere.                                  *)
(*******************************************************************************)
EXTENDS Naturals, FiniteSets

CONSTANTS
  Databases,   \* the databases that runs have results of
  Labels,      \* task labels
  MergeLabel,  \* the task label of a merge
  MaxRuns,     \* runs
  MaxMerges,   \* merges
  MaxDay,      \* days
  MaxStops     \* processes that are stopped

ASSUME ResultStoreAssumption ==
  /\ MergeLabel \in Labels /\ IsFiniteSet(Labels)
  /\ Databases # {} /\ IsFiniteSet(Databases)
  /\ MaxRuns \in Nat /\ MaxMerges \in Nat /\ MaxDay \in Nat \ {0} /\ MaxStops \in Nat

Runs == 1 .. MaxRuns
Days == 1 .. MaxDay

\* What a run found out of a database.
Results == Runs \X Databases

\* result_{date}_{task label}_{database}.json in the directory of the database
Names == [day : Days, label : Labels, db : Databases]

VARIABLES
  day,       \* date.today()
  state,     \* a file is absent, torn or whole
  held,      \* how often each result is in a file
  runId,     \* run_id of a file: a run, or the database that a merge gathered
  runs,      \* runs so far
  pending,   \* the databases whose results the run has still to write
  label,     \* its task label, while it writes
  runFile,   \* the file it has open
  merges,    \* merges so far
  merge,     \* where the merge is
  replace,   \* whether it removes what it merged
  sources,   \* the files it found
  gathered,  \* the results it has read, and how often
  outputs,   \* the files it says it writes
  mergeFile, \* the file it has open
  stops,     \* processes stopped so far
  \* What has happened, for the properties.
  written,   \* results that were written to their file, and not replaced by a later run
  harm       \* what has befallen the files

clock == <<day>>
disk == <<state, held, runId>>
run == <<runs, pending, label, runFile>>
merging == <<merges, merge, replace, sources, gathered, outputs, mergeFile>>
history == <<written, harm>>
vars == <<clock, disk, run, merging, stops, history>>

NoFile == [day |-> 0, label |-> MergeLabel, db |-> CHOOSE d \in Databases : TRUE]
NoResults == [r \in Results |-> 0]

Present == {n \in Names : state[n] # "absent"}

\* The results of the files of names, and how often each occurs: 2 stands for more.
Twice(n) == IF n > 1 THEN 2 ELSE n
Sum(names) ==
  [r \in Results |->
     LET once == Cardinality({n \in names : held[n][r] = 1})
         more == Cardinality({n \in names : held[n][r] = 2})
     IN Twice(once + 2 * more)]

\* Results may have been copied (a merge that keeps its sources, is stopped between two
\* files, or names its output on one day and opens it on the next), or lost (a merge that is
\* stopped with a file open, or that a run writes during).
Harms == {"none", "copied", "lost"}
Befalls(kind, cond) ==
  harm' = IF ~cond \/ harm = "lost" THEN harm ELSE kind

-------------------------------------------------------------------------------
Init ==
  /\ day = 1 /\ stops = 0
  /\ state = [n \in Names |-> "absent"] /\ held = [n \in Names |-> NoResults]
  /\ runId = [n \in Names |-> 0]
  /\ runs = 0 /\ pending = {} /\ label = MergeLabel /\ runFile = NoFile
  /\ merges = 0 /\ merge = "idle" /\ replace = FALSE /\ sources = {}
  /\ gathered = NoResults /\ outputs = {} /\ mergeFile = NoFile
  /\ written = {} /\ harm = "none"

NextDay ==
  /\ day < MaxDay /\ day' = day + 1
  /\ UNCHANGED <<disk, run, merging, stops, history>>

\* open("w"): the old content is gone before the new one is there.
Open(name) ==
  /\ state' = [state EXCEPT ![name] = "torn"]
  /\ held' = [held EXCEPT ![name] = NoResults]
  /\ runId' = [runId EXCEPT ![name] = 0]

Close(name, id, results) ==
  /\ state' = [state EXCEPT ![name] = "whole"]
  /\ held' = [held EXCEPT ![name] = results]
  /\ runId' = [runId EXCEPT ![name] = id]

-------------------------------------------------------------------------------
\* flush: get_db_results groups the results of the run by database.
StartFlush ==
  /\ pending = {} /\ runs < MaxRuns
  /\ runs' = runs + 1
  /\ pending' \in SUBSET Databases \ {{}} /\ label' \in Labels
  /\ UNCHANGED <<clock, disk, runFile, merging, stops, history>>

\* write_db_file, with the date of the moment
OpenResult ==
  /\ runFile = NoFile
  /\ \E db \in pending :
       LET name == [day |-> day, label |-> label, db |-> db] IN
       /\ runFile' = name
       /\ Open(name)
       /\ written' = {r \in written : held[name][r] = 0}
  /\ Befalls("lost", merge # "idle")
  /\ UNCHANGED <<clock, runs, pending, label, merging, stops>>

CloseResult ==
  /\ runFile # NoFile
  /\ Close(runFile, runs, [NoResults EXCEPT ![<<runs, runFile.db>>] = 1])
  /\ written' = written \cup {<<runs, runFile.db>>}
  /\ pending' = pending \ {runFile.db} /\ runFile' = NoFile
  /\ label' = IF pending' = {} THEN MergeLabel ELSE label
  /\ Befalls("lost", merge # "idle")
  /\ UNCHANGED <<clock, runs, merging, stops>>

StopRun ==
  /\ pending # {} /\ stops < MaxStops /\ stops' = stops + 1
  /\ pending' = {} /\ runFile' = NoFile /\ label' = MergeLabel
  /\ UNCHANGED <<clock, disk, runs, merging, history>>

-------------------------------------------------------------------------------
\* A merge that is over keeps nothing.
MergeOver ==
  /\ merge' = "idle" /\ replace' = FALSE /\ sources' = {} /\ gathered' = NoResults
  /\ outputs' = {} /\ mergeFile' = NoFile
  /\ UNCHANGED merges

\* merge_by_db lists the files, and then collect lists and reads them.
ListSources ==
  /\ merge = "idle" /\ merges < MaxMerges
  /\ merges' = merges + 1 /\ merge' = "collect"
  /\ replace' \in BOOLEAN
  /\ sources' = Present /\ outputs' = {}
  /\ Befalls("lost", pending # {})
  /\ UNCHANGED <<clock, disk, run, gathered, mergeFile, stops, written>>

\* read_file raises for a torn file, and the merge ends.
Collect ==
  /\ merge = "collect"
  /\ IF \E n \in Present : state[n] = "torn"
     THEN MergeOver
     ELSE /\ merge' = "write" /\ gathered' = Sum(Present)
          /\ UNCHANGED <<merges, replace, sources, outputs, mergeFile>>
  /\ UNCHANGED <<clock, disk, run, stops, history>>

\* The databases that have a file to be written still.
Unmerged ==
  {db \in Databases :
     /\ \E r \in Results : r[2] = db /\ gathered[r] > 0
     /\ ~\E n \in outputs : n.db = db}

\* The name it keeps in outputs, and the file it opens, unless the day ends in between.
NameMerged ==
  /\ merge = "write"
  /\ \E db \in Unmerged :
       LET name == [day |-> day, label |-> MergeLabel, db |-> db] IN
       /\ outputs' = outputs \cup {name}
       /\ mergeFile' = name
  /\ merge' = "open"
  /\ UNCHANGED <<clock, disk, run, merges, replace, sources, gathered, stops, history>>

OpenMerged ==
  /\ merge = "open"
  /\ mergeFile' = [mergeFile EXCEPT !.day = day]
  /\ Open([mergeFile EXCEPT !.day = day])
  /\ merge' = "close"
  /\ Befalls("copied", mergeFile.day # day)
  /\ UNCHANGED <<clock, run, merges, replace, sources, gathered, outputs, stops, written>>

CloseMerged ==
  /\ merge = "close"
  /\ Close(mergeFile, mergeFile.db, [r \in Results |-> IF r[2] = mergeFile.db THEN gathered[r] ELSE 0])
  /\ merge' = "write" /\ mergeFile' = NoFile
  /\ UNCHANGED <<clock, run, merges, replace, sources, gathered, outputs, stops, history>>

AllMerged ==
  /\ merge = "write" /\ Unmerged = {}
  /\ IF replace
     THEN merge' = "remove" /\ UNCHANGED <<merges, replace, sources, gathered, outputs, mergeFile>>
     ELSE MergeOver
  /\ Befalls("copied", ~replace)
  /\ UNCHANGED <<clock, disk, run, stops, written>>

\* Mutant: what the merge has written is removed with what it read.
ToRemoveAll == {n \in sources : state[n] # "absent"}

ToRemove == {n \in sources \ outputs : state[n] # "absent"}

RemoveSource ==
  /\ merge = "remove"
  /\ \E n \in ToRemove :
       /\ state' = [state EXCEPT ![n] = "absent"]
       /\ held' = [held EXCEPT ![n] = NoResults]
       /\ runId' = [runId EXCEPT ![n] = 0]
  /\ UNCHANGED <<clock, run, merging, stops, history>>

EndMerge ==
  /\ merge = "remove" /\ ToRemove = {}
  /\ MergeOver
  /\ UNCHANGED <<clock, disk, run, stops, history>>

\* A merge that is stopped with a file open leaves it torn.
StopMerge ==
  /\ merge # "idle" /\ stops < MaxStops /\ stops' = stops + 1
  /\ MergeOver
  /\ Befalls(IF merge = "close" THEN "lost" ELSE "copied", TRUE)
  /\ UNCHANGED <<clock, disk, run, written>>

Next ==
  \/ NextDay
  \/ StartFlush \/ OpenResult \/ CloseResult \/ StopRun
  \/ ListSources \/ Collect \/ NameMerged \/ OpenMerged \/ CloseMerged
  \/ AllMerged \/ RemoveSource \/ EndMerge \/ StopMerge

Spec == Init /\ [][Next]_vars

-------------------------------------------------------------------------------
TypeOK ==
  /\ day \in Days /\ state \in [Names -> {"absent", "torn", "whole"}]
  /\ held \in [Names -> [Results -> 0 .. 2]]
  /\ runId \in [Names -> 0 .. MaxRuns \cup Databases]
  /\ runs \in 0 .. MaxRuns /\ pending \subseteq Databases /\ label \in Labels
  /\ runFile \in Names \cup {NoFile} /\ mergeFile \in Names \cup {NoFile}
  /\ merges \in 0 .. MaxMerges /\ merge \in {"idle", "collect", "write", "open", "close", "remove"}
  /\ replace \in BOOLEAN /\ sources \subseteq Names /\ outputs \subseteq Names
  /\ gathered \in [Results -> 0 .. 2]
  /\ stops \in 0 .. MaxStops /\ written \subseteq Results /\ harm \in Harms

\* The results a reader of the directory finds, and how often.
Found == Sum(Present)

\* What the open output file is going to hold again.
Rewritten == IF merge = "close" THEN {r \in Results : gathered[r] > 0} ELSE {}

\* A result that was written stays, in its file or a merged one, through every step of a
\* merge and wherever it is stopped, unless a run of the same day, label and database replaced
\* the file: lost are only what a merge was stopped in the middle of writing, and what a run
\* writes while a merge removes the files.
NoResultLost ==
  harm # "lost" =>
    \A r \in written : r \in Rewritten \/ \E n \in Present : held[n][r] > 0

\* Between merges no result is counted twice, when every merge removes what it merged, runs to
\* its end, on one day, and alone.
NoResultTwice ==
  (harm = "none" /\ merge = "idle") => \A r \in Results : Found[r] <= 1

\* Every result counts once: it is in a file that is read, and in only one
\* (models.py 446-507, result_collector.py and the merging script).
EveryResultOnce == NoResultLost /\ NoResultTwice

===============================================================================
