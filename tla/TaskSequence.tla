---------------------------- MODULE TaskSequence ----------------------------
(***************************************************************************)
(* The child process of a run: BenchMarkRunner._async_task_v2 walks the    *)
(* assembled cases, decides for each whether CaseRunner.run may drop the   *)
(* collection, lets it prepare, load, optimize and search, and records a   *)
(* CaseResult whatever happened.  Cases with one reuse key share a load:   *)
(* the loop remembers the key loaded last and skips drop and load for a    *)
(* case that has the same key.                                             *)
(*                                                                         *)
(* A collection is what the loader left in it; a load duration is          *)
(* identified by the position of the case that did the loading, 0 for the  *)
(* duration 0.0 of a case that never loaded.                               *)
(***************************************************************************)
EXTENDS BenchCases

CONSTANTS
    Plans,   \* the case sequences a run may have been assembled into
    CanFail  \* whether a database or a dataset may fail at all

ASSUME PlansAssumption == Plans \subseteq Seq(Task)
\* assemble_all runs nothing but search cases between two search cases: what
\* inserts whatever the stages say comes before them, full text after them.
ASSUME PlansInOrder ==
    \A p \in Plans : \A l, m, n \in DOMAIN p :
        (/\ l < m /\ m < n
         /\ p[l].label = "Performance" /\ p[n].label = "Performance")
            => p[m].label \in {"Performance", "CloudColdLatency"}
ASSUME CanFailAssumption == CanFail \in BOOLEAN

VARIABLES
    plan,     \* running_task.case_runners
    runnerDropOld, \* BenchMarkRunner.drop_old ("Index already exists" unticked)
    coll,     \* what each physical collection holds
    idx,      \* the case the loop is at
    pc,       \* where in CaseRunner.run the case is
    drop,     \* the drop_old the loop chose for the case
    loadDur,  \* metrics.load_duration of the case
    latest,   \* latest_loaded_reuse_key
    cached,   \* cached_load_duration
    results,  \* c_results
    (* observation only *)
    touched,  \* the case has dropped its collection or inserted into it
    searched  \* what its collection held when it was searched

vars == <<plan, runnerDropOld, coll, idx, pc, drop, loadDur, latest, cached,
          results, touched, searched>>

-----------------------------------------------------------------------------
Foreign == "foreign"      \* rows no reuse key describes
Nothing == "nothing"      \* no rows at all

Collection == [rows: Contents \cup {Foreign, Nothing},
               state: {"partial", "loaded", "ready"}]

Dropped   == [rows |-> Nothing, state |-> "partial"]
Leftover  == [rows |-> Foreign, state |-> "ready"]
Ready(c)  == [rows |-> c, state |-> "ready"]
Unsearched == [rows |-> "unsearched", state |-> "partial"]

PCs == {"start", "prerun", "insert", "load", "optimize",
        "conc", "serial", "cold", "complete", "success", "error"}

Reasons == {"none", "timeout", "error"}
ResultLabels == {"NORMAL", "FAILED", "OUTOFRANGE"}

CaseResult == [label: ResultLabels, reason: Reasons, load: Nat, touched: BOOLEAN,
               searched: Collection \cup {Unsearched}]

Case == plan[idx]
Held == coll[Case.target]
Has(stage) == stage \in Case.stages

Becomes(rows, state) ==
    coll' = [coll EXCEPT ![Case.target] = [rows |-> rows, state |-> state]]

\* The finally of the loop: append the result, tell the parent, go on.
AppendResult(label, reason, load) ==
    results' = Append(results,
        [label |-> label, reason |-> reason, load |-> load,
         touched |-> touched', searched |-> searched])

\* Mutant: the append at the end of the loop's body, which continue skips.
RecordAtTheEnd(label, reason, load) ==
    /\ IF label = "NORMAL" THEN AppendResult(label, reason, load) ELSE UNCHANGED results
    /\ idx' = idx + 1
    /\ pc' = "start"

Record(label, reason, load) ==
    /\ AppendResult(label, reason, load)
    /\ idx' = idx + 1
    /\ pc' = "start"

\* Mutant: the exception of a case leaves the loop.
FailsForGood(label, reason) ==
    /\ CanFail
    /\ AppendResult(label, reason, 0)
    /\ idx' = idx + 1
    /\ pc' = "error"

\* A case that raised keeps the empty Metric it started with.
Fails(label, reason) ==
    /\ CanFail
    /\ Record(label, reason, 0)

-----------------------------------------------------------------------------
Init ==
    /\ plan \in Plans
    /\ runnerDropOld \in BOOLEAN
    /\ coll = [t \in Targets |-> Leftover]
    /\ idx = 1
    /\ pc = "start"
    /\ drop = FALSE
    /\ loadDur = 0
    /\ latest = NoKey
    /\ cached = 0
    /\ results = <<>>
    /\ touched = FALSE
    /\ searched = Unsearched

\* The decision at the top of the loop.
ChooseDrop(t) ==
    /\ "DROP_OLD" \in t.stages
    /\ ~(LoadReuseKey(t) # NoKey /\ LoadReuseKey(t) = latest)
    /\ runnerDropOld

StartCase ==
    /\ pc = "start"
    /\ idx <= Len(plan)
    /\ drop' = ChooseDrop(Case)
    /\ loadDur' = 0
    /\ touched' = FALSE
    /\ searched' = Unsearched
    /\ pc' = "prerun"
    /\ UNCHANGED <<plan, runnerDropOld, coll, idx, latest, cached, results>>

\* Where CaseRunner.run goes once the case is prepared or loaded.
AfterLoad == IF Has("SEARCH_CONCURRENT") THEN "conc"
             ELSE IF Has("SEARCH_SERIAL") THEN "serial"
             ELSE "complete"

AfterPreRun ==
    CASE Case.label \in {"Load", "Streaming", "CloudInsert"} -> "insert"
      [] Case.label = "CloudColdLatency" -> "cold"
      [] OTHER -> IF drop /\ Has("LOAD") THEN "load" ELSE AfterLoad

\* Mutant: only the load is refused, the drop is not.
RejectedForLoadOnly ==
    Case.label = "CloudColdLatency" /\ Has("LOAD")

\* A cold-latency case must find its collection, not make it.
RejectedUpFront ==
    Case.label = "CloudColdLatency" /\ (drop \/ Has("LOAD"))

Opens == IF drop THEN coll' = [coll EXCEPT ![Case.target] = Dropped]
                 ELSE UNCHANGED coll

\* _pre_run: validation, then init_db, which drops when told to, and the
\* dataset (before init_db for full-text cases, after it for the others).
PreRun ==
    /\ pc = "prerun"
    /\ ~RejectedUpFront
    /\ Opens
    /\ touched' = drop
    /\ pc' = AfterPreRun
    /\ UNCHANGED <<plan, runnerDropOld, idx, drop, loadDur, latest, cached,
                   results, searched>>

PreRunRejects ==
    /\ pc = "prerun"
    /\ RejectedUpFront
    /\ touched' = FALSE
    /\ Record("FAILED", "error", 0)
    /\ UNCHANGED <<plan, runnerDropOld, coll, drop, loadDur, latest, cached,
                   searched>>

\* Failing before the database was opened, or after.
PreRunFails ==
    /\ pc = "prerun"
    /\ ~RejectedUpFront
    /\ \/ touched' = FALSE /\ UNCHANGED coll
       \/ touched' = drop  /\ Opens
    /\ Fails("FAILED", "error")
    /\ UNCHANGED <<plan, runnerDropOld, drop, loadDur, latest, cached, searched>>

-----------------------------------------------------------------------------
\* Capacity, streaming and cloud-insert cases insert whatever the stages
\* and drop_old say.
Insert ==
    /\ pc = "insert"
    /\ touched' = TRUE
    /\ Becomes(Foreign, "partial")
    /\ \/ /\ pc' = "complete"
          /\ UNCHANGED <<idx, results>>
       \/ Fails("FAILED", "error")
       \/ /\ Case.label = "Load"          \* run_endlessness: LoadTimeoutError
          /\ Fails("OUTOFRANGE", "timeout")
       \/ /\ Case.label = "CloudInsert"   \* readiness: a plain TimeoutError
          /\ Fails("FAILED", "timeout")
    /\ UNCHANGED <<plan, runnerDropOld, drop, loadDur, latest, cached, searched>>

\* _load_data of a performance or full-text case.
Load ==
    /\ pc = "load"
    /\ Becomes(Case.content, "loaded")
    /\ pc' = "optimize"
    /\ UNCHANGED <<plan, runnerDropOld, idx, drop, loadDur, latest, cached,
                   results, touched, searched>>

\* The vector loader's timeout ends in PerformanceTimeoutError(msg), which
\* takes no argument: the case fails with the TypeError instead.
LoadTimeoutLabel ==
    IF Case.label = "FullTextSearch" THEN "OUTOFRANGE" ELSE "FAILED"

LoadFails ==
    /\ pc = "load"
    /\ Becomes(Case.content, "partial")
    /\ touched' = touched
    /\ \/ Fails("FAILED", "error")
       \/ Fails(LoadTimeoutLabel, "timeout")
    /\ UNCHANGED <<plan, runnerDropOld, drop, loadDur, latest, cached, searched>>

\* _optimize, and the load duration that includes it.
Optimize ==
    /\ pc = "optimize"
    /\ Becomes(Held.rows, "ready")
    /\ loadDur' = idx
    /\ pc' = AfterLoad
    /\ UNCHANGED <<plan, runnerDropOld, idx, drop, latest, cached, results,
                   touched, searched>>

OptimizeFails ==
    /\ pc = "optimize"
    /\ touched' = touched
    /\ \/ Fails("FAILED", "error")
       \/ Fails("OUTOFRANGE", "timeout")
    /\ UNCHANGED <<plan, runnerDropOld, coll, drop, loadDur, latest, cached,
                   searched>>

-----------------------------------------------------------------------------
AfterSearch == IF pc = "conc" /\ Has("SEARCH_SERIAL") THEN "serial" ELSE "complete"

\* _conc_search, _serial_search and the cold/warm passes only read.
Search ==
    /\ pc \in {"conc", "serial", "cold"}
    /\ searched' = Held
    /\ pc' = AfterSearch
    /\ UNCHANGED <<plan, runnerDropOld, coll, idx, drop, loadDur, latest,
                   cached, results, touched>>

SearchFails ==
    /\ pc \in {"conc", "serial", "cold"}
    /\ touched' = touched
    /\ Fails("FAILED", "error")
    /\ UNCHANGED <<plan, runnerDropOld, coll, drop, loadDur, latest, cached,
                   searched>>

\* Mutant: the remembered key is set even by a case that did not load.
LoadStageRemembered(t) == "LOAD" \in t.stages /\ LoadReuseKey(t) # NoKey

LoadedItself(t) == drop /\ "LOAD" \in t.stages /\ LoadReuseKey(t) # NoKey

\* Mutant: every case that dropped nothing gets the cached duration.
NothingDropped(t) == ~drop /\ LoadReuseKey(t) # NoKey

ReusesLoad(t) == ~drop /\ LoadReuseKey(t) # NoKey /\ LoadReuseKey(t) = latest

\* The loop once runner.run has returned its metrics.
Complete ==
    /\ pc = "complete"
    /\ latest' = IF LoadedItself(Case) THEN LoadReuseKey(Case) ELSE latest
    /\ cached' = IF LoadedItself(Case) THEN loadDur ELSE cached
    /\ touched' = touched
    /\ Record("NORMAL", "none", IF ReusesLoad(Case) THEN cached ELSE loadDur)
    /\ UNCHANGED <<plan, runnerDropOld, coll, drop, loadDur, searched>>

\* Every case done: flush the TestResult; a failed flush loses them all.
Flush ==
    /\ pc = "start"
    /\ idx > Len(plan)
    /\ pc' \in {"success"} \cup (IF CanFail THEN {"error"} ELSE {})
    /\ UNCHANGED <<plan, runnerDropOld, coll, idx, drop, loadDur, latest, cached,
                   results, touched, searched>>

Next ==
    \/ StartCase
    \/ PreRun \/ PreRunRejects \/ PreRunFails
    \/ Insert
    \/ Load \/ LoadFails
    \/ Optimize \/ OptimizeFails
    \/ Search \/ SearchFails
    \/ Complete
    \/ Flush

Spec == Init /\ [][Next]_vars

\* What the case is waiting for, nothing bounds in time: a download, a database
\* that is opened, every insertion and search.  Only the load of a vector case and
\* the optimize of either kind have a deadline that ends them.
Waiting ==
    \/ pc = "prerun" /\ ~RejectedUpFront
    \/ pc \in {"insert", "conc", "serial", "cold"}
    \/ pc = "load" /\ Case.label = "FullTextSearch"

\* The loop goes on by itself, and what has a deadline returns, raises or is ended
\* by it; what has none may never return.
Fairness == WF_vars(~Waiting /\ Next)

FairSpec == Spec /\ Fairness

-----------------------------------------------------------------------------
(***************************************************************************)
(* Properties                                                              *)
(***************************************************************************)

\* Types of the loop's state; a result is recorded for each case passed.
TypeOK ==
    /\ plan \in Seq(Task)
    /\ runnerDropOld \in BOOLEAN
    /\ coll \in [Targets -> Collection]
    /\ idx \in Nat \ {0}
    /\ pc \in PCs
    /\ drop \in BOOLEAN
    /\ loadDur \in Nat
    /\ latest \in {NoKey} \cup (Targets \X Contents)
    /\ cached \in Nat
    /\ results \in Seq(CaseResult)
    /\ touched \in BOOLEAN
    /\ searched \in Collection \cup {Unsearched}
    /\ idx = Len(results) + 1
    /\ idx <= Len(plan) + 1
    /\ pc \notin {"start", "success", "error"} => idx <= Len(plan)

\* Result n claims to have searched the load its case asked for.
ClaimsOwnLoad(n) ==
    /\ results[n].label = "NORMAL"
    /\ results[n].searched # Unsearched
    /\ runnerDropOld
    /\ plan[n].label = "Performance"
    /\ {"DROP_OLD", "LOAD"} \subseteq plan[n].stages

MeasuredOwnLoad(n) == results[n].searched = Ready(plan[n].content)

\* A successful performance case that was to drop, load and search searched
\* a finished load of exactly its own content, whether it loaded it itself
\* or reused an earlier case's (interface.py 178-183, 193-199).
MeasuresItsOwnLoad ==
    \A n \in DOMAIN results : ClaimsOwnLoad(n) => MeasuredOwnLoad(n)

\* Nothing failed before result n, and no case dropped without loading.
UndisturbedUpTo(n) ==
    \A m \in 1..(n - 1) :
        /\ results[m].label = "NORMAL"
        /\ "DROP_OLD" \in plan[m].stages => "LOAD" \in plan[m].stages

\* In a run where nothing fails and every drop comes with a load, whatever
\* cases it was assembled from, reuse is sound: each such case searched a
\* finished load of its own content.
FaultlessReuseIsSound ==
    \A n \in DOMAIN results :
        ClaimsOwnLoad(n) /\ UndisturbedUpTo(n) => MeasuredOwnLoad(n)

\* Case l made the load that latest_loaded_reuse_key remembers as key.
MadeLoad(l, key) ==
    /\ l \in DOMAIN results
    /\ results[l].label = "NORMAL"
    /\ results[l].touched
    /\ LoadReuseKey(plan[l]) = key
    /\ results[l].load = l

\* Case m disturbed target without becoming the remembered load: it dropped
\* or inserted and then failed, or it never loads for a key at all.
Disturbed(m, target) ==
    /\ m \in DOMAIN results
    /\ plan[m].target = target
    /\ results[m].touched
    /\ ~ (/\ results[m].label = "NORMAL"
          /\ LoadReuseKey(plan[m]) # NoKey
          /\ "LOAD" \in plan[m].stages)

\* A result that searched anything but its own load did so because, after
\* the load it relies on, some case disturbed the collection: reuse is
\* misled by nothing else.
MisledOnlyByDisturbance ==
    \A n \in DOMAIN results :
        ClaimsOwnLoad(n) /\ ~MeasuredOwnLoad(n)
            => \E l, m \in 1..(n - 1) :
                  /\ l < m
                  /\ MadeLoad(l, LoadReuseKey(plan[n]))
                  /\ Disturbed(m, plan[n].target)

\* A load duration a performance case reports belongs to a load that a
\* successful case with the same key really made, itself or an earlier one
\* (cached_load_duration, interface.py 193-199).
ReportedLoadHappened ==
    \A n \in DOMAIN results :
        results[n].load # 0 =>
            LET l == results[n].load
            IN  /\ l <= n
                /\ plan[l].label = plan[n].label
                /\ \/ l = n
                   \/ MadeLoad(l, LoadReuseKey(plan[n]))

\* A case that was to drop and load, and succeeded, reports a load: skipping
\* the load never leaves it without a duration.
SkippedLoadIsCovered ==
    \A n \in DOMAIN results :
        (/\ results[n].label = "NORMAL"
         /\ runnerDropOld
         /\ plan[n].label \in {"Performance", "FullTextSearch"}
         /\ {"DROP_OLD", "LOAD"} \subseteq plan[n].stages)
            => results[n].load # 0

\* The load durations of a run are those of loads that were made, and no case
\* that needed one is without.
ReportedLoadsAreReal == ReportedLoadHappened /\ SkippedLoadIsCovered

(***************************************************************************)
(* The strengthening the proofs use.                                       *)
(***************************************************************************)
InCase == pc \notin {"start", "success", "error"}

\* The remembered key names a load some case made, and its collection still
\* holds that load unless a case since then, or the one at work, disturbed it.
RememberedLoad ==
    latest # NoKey =>
        /\ MadeLoad(cached, latest)
        /\ \/ coll[latest[1]] = Ready(latest[2])
           \/ \E m \in DOMAIN results : cached < m /\ Disturbed(m, latest[1])
           \/ InCase /\ touched /\ Case.target = latest[1]

\* What is known of the case at work at each point of CaseRunner.run.
CaseAtWork ==
    InCase =>
        /\ drop <=> ChooseDrop(Case)
        /\ pc = "prerun" => ~touched
        /\ pc # "prerun" /\ drop => touched
        /\ touched /\ Case.label = "Performance" => drop
        /\ Case.label = "CloudColdLatency" => ~touched
        /\ pc = "insert" => Case.label \in {"Load", "Streaming", "CloudInsert"}
        /\ pc \in {"load", "optimize"} =>
              drop /\ Has("LOAD") /\ Case.label \in {"Performance", "FullTextSearch"}
        /\ pc = "optimize" => Held = [rows |-> Case.content, state |-> "loaded"]
        /\ (/\ pc \in {"conc", "serial", "cold", "complete"}
            /\ drop /\ Has("LOAD")
            /\ Case.label \in {"Performance", "FullTextSearch"})
              => Held = Ready(Case.content) /\ loadDur = idx
        /\ searched # Unsearched => pc \in {"serial", "complete"} /\ searched = Held
        /\ loadDur # 0 => loadDur = idx /\ touched /\ pc \notin {"prerun", "insert", "load", "optimize"}

\* A search case that touched its collection was told to drop it; a
\* cold-latency case never touched it.
TouchedByDrop ==
    \A n \in DOMAIN results :
        results[n].touched /\ plan[n].label \in {"Performance", "CloudColdLatency"}
            => plan[n].label = "Performance" /\ "DROP_OLD" \in plan[n].stages

LoopInv ==
    /\ TypeOK
    /\ RememberedLoad
    /\ CaseAtWork
    /\ MisledOnlyByDisturbance
    /\ ReportedLoadHappened
    /\ SkippedLoadIsCovered

\* While a cold-latency case is at work no collection changes: what it
\* measures cold is what an earlier run left there (task_runner.py 313-324).
ColdCaseOnlyReads ==
    [][idx <= Len(plan) /\ Case.label = "CloudColdLatency" => coll' = coll]_vars

\* Whatever fails or is timed out, the loop goes on to the last case and then
\* flushes one result per case (interface.py 200-226); it stays at a case only in
\* a call without a deadline that never returns.
EveryCaseIsRecorded ==
    \/ <>(pc \in {"success", "error"} /\ Len(results) = Len(plan))
    \/ <>[]Waiting

\* The child's verdict as the promise sees it.
Verdict == IF pc = "success" THEN "success"
           ELSE IF pc = "error" THEN "failed" ELSE "running"

Promise == INSTANCE RunPromise WITH
               cases <- Len(plan), done <- Len(results), verdict <- Verdict

\* The loop keeps the promise of a run: one result at a time, success only
\* with a result for every case.
KeepsPromise == Promise!Spec

=============================================================================
