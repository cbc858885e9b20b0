---------------------------- MODULE StreamingCase ----------------------------
(***************************************************************************)
(* ReadWriteRunner: one process inserts the dataset at a fixed rate, a     *)
(* second one searches each time a share of the data is in, and the main   *)
(* process searches once more when all of it is, and again after an        *)
(* optimize.  The inserter tells the searcher through a queue of signals,  *)
(* one per Rate batches known to be inserted.                              *)
(*                                                                         *)
(* Time is left out: a round of the inserter is one submission and one     *)
(* look at the futures; a batch may be inserted, or given up after its     *)
(* retries, at any moment between.                                         *)
(***************************************************************************)
EXTENDS Integers, Sequences, FiniteSets, FiniteSetsExt

CONSTANTS
    Volume,      \* batches in the dataset
    Rate,        \* batches per round (batch_rate)
    Stages,      \* search_stages in percent, in order
    RoundedDown, \* <<n, percent>> whose whole share int() makes one less: 58% of 50 is 28
    MaxPending,  \* unfinished futures at which a round submits nothing (200)
    Optimizes,   \* optimize_after_write
    CanBreak     \* the inserter may fail outside an insertion

ASSUME VolumeAssumption == Volume \in Nat /\ Rate \in Nat \ {0}
ASSUME StagesAssumption ==
    /\ Stages \in Seq(0..99)
    /\ \A i, j \in DOMAIN Stages : i <= j => Stages[i] <= Stages[j]
ASSUME RoundingAssumption ==
    /\ RoundedDown \subseteq Nat \X (0..99)
    /\ \A r \in RoundedDown : r[1] * r[2] > 0 /\ (r[1] * r[2]) % 100 = 0
ASSUME PendingAssumption == MaxPending \in Nat
ASSUME FlagsAssumption == Optimizes \in BOOLEAN /\ CanBreak \in BOOLEAN

VARIABLES
    ins,        \* where run_with_rate is
    submitted,  \* batches read from the dataset
    executing,  \* executing_futures, by batch
    inserted,   \* batches the database took
    broken,     \* batches given up after their retries
    sigIdx,     \* sig_idx: batches inserted that no signal tells of
    q,          \* the queue of signals
    searcher,   \* where run_search_by_sig is
    stage,      \* index of the stage the searcher is at
    start,      \* rounds the searcher knows to be inserted
    result,     \* its result: the stages searched
    main,       \* where run_read_write is
    report      \* the stages of the metric

inserter == <<ins, submitted, executing, sigIdx>>
searching == <<searcher, stage, start, result>>
vars == <<inserter, inserted, broken, q, searching, main, report>>

-----------------------------------------------------------------------------
Batches == 1..Volume

\* The signals: abnormal exit, progress, normal exit.
None == "None"
Signals == {None, "False", "True"}

Inserters == {"init", "submit", "check", "drain", "stopping", "aborting",
              "ended", "raised", "aborted"}
Searchers == {"wait", "search", "gaveup", "ended"}
Mains == {"insert", "stream", "end", "optimize", "after", "shutdown", "returned"}

\* The marks of the two searches that follow the stages.
EndMark == 100
OptimizedMark == 110

\* int(n * stage): the product of a number with a float, cut off.
Share(n, percent) ==
    (n * percent) \div 100 - (IF <<n, percent>> \in RoundedDown THEN 1 ELSE 0)

\* math.ceil(data_volume / insert_rate), int(total_batch * stage), int(stage * 100).
TotalBatch == (Volume + Rate - 1) \div Rate
TargetBatch(i) == Share(TotalBatch, Stages[i])
Perc(i) == Share(100, Stages[i])

Settled == inserted \union broken

Init ==
    /\ ins = "init" /\ submitted = 0 /\ executing = {} /\ sigIdx = 0
    /\ inserted = {} /\ broken = {}
    /\ q = <<>>
    /\ searcher = "wait" /\ stage = 1 /\ start = 0 /\ result = <<>>
    /\ main = "insert" /\ report = <<>>

-----------------------------------------------------------------------------
(***************************************************************************)
(* The inserter.                                                           *)
(***************************************************************************)
Open ==
    /\ ins = "init"
    /\ ins' = "submit"
    /\ UNCHANGED <<submitted, executing, sigIdx, inserted, broken, q, searching, main, report>>

\* db.init() raises.
OpenFails ==
    /\ CanBreak
    /\ ins = "init"
    /\ ins' = "aborted"
    /\ UNCHANGED <<submitted, executing, sigIdx, inserted, broken, q, searching, main, report>>

Submits(n) ==
    /\ submitted' = submitted + n
    /\ executing' = executing \union (submitted + 1 .. submitted + n)
    /\ UNCHANGED <<sigIdx, inserted, broken, q, searching, main, report>>

\* submit_by_rate: a full round, or what is left of the dataset.
Submit ==
    /\ ins = "submit"
    /\ Cardinality(executing) <= MaxPending
    /\ submitted < Volume
    /\ Submits(Min({Rate, Volume - submitted}))
    /\ ins' = "check"

SkipRound ==
    /\ ins = "submit"
    /\ Cardinality(executing) > MaxPending
    /\ Submits(0)
    /\ ins' = "check"

\* A round that finds nothing to submit is the end of the dataset.
EndOfDataset ==
    /\ ins = "submit"
    /\ Cardinality(executing) <= MaxPending
    /\ submitted = Volume
    /\ Submits(0)
    /\ ins' = "drain"

\* Reading the dataset raises in the middle of a round; leaving the thread
\* pool's with block waits for what was submitted.
ReadFails ==
    /\ CanBreak
    /\ ins = "submit"
    /\ Cardinality(executing) <= MaxPending
    /\ \E n \in 0 .. Min({Rate - 1, Volume - submitted}) : Submits(n)
    /\ ins' = "aborting"

Insert(b) ==
    /\ b \in executing \ Settled
    /\ \/ inserted' = inserted \union {b} /\ UNCHANGED broken
       \/ broken' = broken \union {b} /\ UNCHANGED inserted
    /\ UNCHANGED <<inserter, q, searching, main, report>>

\* One signal per Rate batches; the last one of the insertion says so.
SignalsFor(n, last) ==
    [i \in 1 .. n |-> IF last /\ i = n THEN "True" ELSE "False"]

\* Where check_and_send_signal is called, and where it returns to.
Looking == ins = "check" \/ (ins = "drain" /\ executing # {})
Resumes == ins' = IF ins = "check" THEN "submit" ELSE ins

\* The futures that are done are forgotten and told of.
Tell(finished) ==
    LET done == executing \intersect Settled
        told == sigIdx + Cardinality(done)
    IN  /\ executing' = executing \ done
        /\ sigIdx' = told % Rate
        /\ q' = q \o SignalsFor(told \div Rate, finished /\ executing \subseteq done)
        /\ UNCHANGED <<submitted, inserted, broken, searching, main, report>>

\* Mutant: a batch given up counts as done.
CheckAndSendSignalBlind == Looking /\ Tell(ins = "drain") /\ Resumes

CheckAndSendSignal ==
    /\ Looking
    /\ executing \intersect broken = {}
    /\ Tell(ins = "drain")
    /\ Resumes

\* The pool is shut down; the futures not yet running are cancelled.
Cancels ==
    /\ ins' = "stopping"
    /\ \E running \in SUBSET (executing \ Settled) : executing' = running
    /\ UNCHANGED <<submitted, sigIdx, inserted, broken, searching, main, report>>

\* Mutant: the failure is not signalled.
CheckFailsSilently ==
    Looking /\ executing \intersect broken # {} /\ UNCHANGED q /\ Cancels

CheckFails ==
    /\ Looking
    /\ executing \intersect broken # {}
    /\ q' = Append(q, None)
    /\ Cancels

\* The pool's with block has waited for the futures that run.
Stop ==
    /\ ins \in {"stopping", "aborting"}
    /\ executing \subseteq Settled
    /\ ins' = IF ins = "stopping" THEN "raised" ELSE "aborted"
    /\ UNCHANGED <<submitted, executing, sigIdx, inserted, broken, q, searching, main, report>>

EndInsert ==
    /\ ins = "drain"
    /\ executing = {}
    /\ ins' = "ended"
    /\ UNCHANGED <<submitted, executing, sigIdx, inserted, broken, q, searching, main, report>>

-----------------------------------------------------------------------------
(***************************************************************************)
(* The searcher.                                                           *)
(***************************************************************************)
AtStage == searcher = "wait" /\ stage <= Len(Stages)

GetSignal ==
    /\ AtStage /\ start < TargetBatch(stage)
    /\ q # <<>>
    /\ q' = Tail(q)
    /\ IF Head(q) = "False"
         THEN start' = start + 1 /\ UNCHANGED <<searcher, stage, result>>
         ELSE searcher' = "gaveup" /\ result' = <<>> /\ UNCHANGED <<stage, start>>
    /\ UNCHANGED <<inserter, inserted, broken, main, report>>

\* Mutant: the search starts a round early.
BeginSearchEarly ==
    /\ AtStage /\ start + 1 >= TargetBatch(stage)
    /\ searcher' = "search"
    /\ UNCHANGED <<stage, start, result, inserter, inserted, broken, q, main, report>>

BeginSearch ==
    /\ AtStage /\ start >= TargetBatch(stage)
    /\ searcher' = "search"
    /\ UNCHANGED <<stage, start, result, inserter, inserted, broken, q, main, report>>

\* A search that fails is recorded too, with zeros.
EndSearch ==
    /\ searcher = "search"
    /\ searcher' = "wait"
    /\ result' = Append(result, Perc(stage))
    /\ start' = TargetBatch(stage)
    /\ stage' = stage + 1
    /\ UNCHANGED <<inserter, inserted, broken, q, main, report>>

\* No stage left: the queue is drained and the result returned.
ReturnResult ==
    /\ searcher = "wait" /\ stage > Len(Stages)
    /\ q' = <<>>
    /\ searcher' = "ended"
    /\ UNCHANGED <<stage, start, result, inserter, inserted, broken, main, report>>

-----------------------------------------------------------------------------
(***************************************************************************)
(* The main process.                                                       *)
(***************************************************************************)
MainTo(place) ==
    /\ main' = place
    /\ UNCHANGED <<inserter, inserted, broken, q, searching>>

\* insert_future.result(), then streaming_search_future.result()
InsertDone ==
    /\ main = "insert"
    /\ ins = "ended"
    /\ MainTo("stream")
    /\ UNCHANGED report

InsertRaised ==
    /\ main = "insert"
    /\ ins \in {"raised", "aborted"}
    /\ MainTo("shutdown")
    /\ UNCHANGED report

StreamDone ==
    /\ main = "stream"
    /\ searcher \in {"ended", "gaveup"}
    /\ MainTo("end")
    /\ UNCHANGED report

\* The metric is filled in from every search at once.
EndSearchDone ==
    /\ main = "end"
    /\ IF Optimizes
         THEN MainTo("optimize") /\ UNCHANGED report
         ELSE MainTo("returned") /\ report' = Append(result, EndMark)

OptimizeDone ==
    /\ main = "optimize"
    /\ MainTo("after")
    /\ UNCHANGED report

OptimizedSearchDone ==
    /\ main = "after"
    /\ MainTo("returned")
    /\ report' = result \o <<EndMark, OptimizedMark>>

MainRaises ==
    /\ main \in {"end", "optimize", "after"}
    /\ MainTo("shutdown")
    /\ UNCHANGED report

\* executor.shutdown(wait=True): the error is swallowed, the metric empty.
ShutDown ==
    /\ main = "shutdown"
    /\ searcher \in {"ended", "gaveup"}
    /\ MainTo("returned")
    /\ UNCHANGED report

-----------------------------------------------------------------------------
Inserter ==
    \/ Open \/ OpenFails
    \/ Submit \/ SkipRound \/ EndOfDataset \/ ReadFails
    \/ CheckAndSendSignal \/ CheckFails \/ Stop \/ EndInsert

Searcher == GetSignal \/ BeginSearch \/ EndSearch \/ ReturnResult

Main ==
    \/ InsertDone \/ InsertRaised \/ StreamDone
    \/ EndSearchDone \/ OptimizeDone \/ OptimizedSearchDone \/ MainRaises
    \/ ShutDown

Next ==
    \/ Inserter
    \/ \E b \in Batches : Insert(b)
    \/ Searcher
    \/ Main

Spec == Init /\ [][Next]_vars

(***************************************************************************)
(* Only the program's own steps are fair.  A call of the database has no   *)
(* deadline here, nor has a search, whose processes may wait for each      *)
(* other for ever (mp_runner.py 142, 209 and 353): opening the connection, *)
(* an insertion, a search and the optimize may return, raise or hang.      *)
(***************************************************************************)
FairSpec ==
    /\ Spec
    /\ WF_vars(ins # "init" /\ Inserter)
    /\ WF_vars(GetSignal \/ BeginSearch \/ ReturnResult)
    /\ WF_vars(InsertDone \/ InsertRaised \/ StreamDone \/ ShutDown)

-----------------------------------------------------------------------------
TypeOK ==
    /\ ins \in Inserters
    /\ submitted \in 0..Volume
    /\ executing \subseteq 1..submitted
    /\ inserted \subseteq 1..submitted
    /\ broken \subseteq (1..submitted) \ inserted
    /\ sigIdx \in 0..(Rate - 1)
    /\ q \in Seq(Signals)
    /\ searcher \in Searchers
    /\ stage \in 1..(Len(Stages) + 1)
    /\ start \in 0..TotalBatch
    /\ result \in Seq(0..99)
    /\ main \in Mains
    /\ report \in Seq(0..OptimizedMark)

Searched == {report[i] : i \in DOMAIN report}

(***************************************************************************)
(* A stage is searched only when the rounds it stands for are in the       *)
(* database, however the insertions overtake each other and however late   *)
(* the signals are read.                                                   *)
(***************************************************************************)
NoStageBeforeItsData ==
    searcher = "search" => Cardinality(inserted) >= TargetBatch(stage) * Rate

(***************************************************************************)
(* The signals neither invent batches nor lose them: what the searcher has *)
(* counted, the progress in the queue and the remainder are the batches    *)
(* the futures told of, as long as the searcher counts.                    *)
(***************************************************************************)
SignalsCountBatches ==
    (AtStage /\ ins \in {"submit", "check", "drain"})
        => (start + Len(q)) * Rate + sigIdx = submitted - Cardinality(executing)

(***************************************************************************)
(* The signals a stage waits for tell the truth: none is missing, none is   *)
(* early, and the stage it opens finds its rounds in the database           *)
(* (rate_runner.py 60-128, read_write_runner.py 206-262).                   *)
(***************************************************************************)
StagesFollowData == NoStageBeforeItsData /\ SignalsCountBatches

(***************************************************************************)
(* The search at the end is made of a database that has the whole dataset. *)
(***************************************************************************)
EndSearchSeesAll ==
    main \in {"end", "optimize", "after"} => inserted = Batches

\* The last whole round of a dataset is announced as its end, also to a stage that
\* still waits for it: so it is when the dataset is no whole number of rounds.
WaitsForTheEnd ==
    stage <= Len(Stages) /\ TargetBatch(stage) > 0 /\ TargetBatch(stage) >= Volume \div Rate

(***************************************************************************)
(* A metric that has the search at the end has that of every stage, unless *)
(* the searcher was told of the end while its stage still waited for the   *)
(* last whole round (read_write_runner.py 246-251).                        *)
(***************************************************************************)
AllStagesSearched ==
    EndMark \in Searched
        => \/ \A i \in DOMAIN Stages : Perc(i) \in Searched
           \/ searcher = "gaveup" /\ WaitsForTheEnd

(***************************************************************************)
(* A metric is complete: every stage, and the whole dataset at the end.    *)
(***************************************************************************)
MetricIsComplete == EndSearchSeesAll /\ AllStagesSearched

\* A call that never comes back: opening the connection, an insertion, a search or
\* the optimize.
NeverReturns ==
    \/ <>[](ins = "init")
    \/ \E b \in Batches : <>[](b \in executing \ Settled)
    \/ <>[](searcher = "search")
    \/ <>[](main \in {"end", "optimize", "after"})

(***************************************************************************)
(* Whatever batch or search fails, the case ends if the calls it made      *)
(* come back: the searcher that waits for data that will not come is told  *)
(* so.  Only an inserter that fails outside an insertion leaves without a  *)
(* word, and the searcher waits for ever (rate_runner.py 116).             *)
(***************************************************************************)
EndsUnlessAborted == <>(main = "returned" \/ ins = "aborted") \/ NeverReturns
=============================================================================
