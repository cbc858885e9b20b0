------------------------------ MODULE ClientRun ------------------------------
(*******************************************************************************)
(* One performance or cloud insert case against one database, whichever it is:   *)
(* the calls that CaseRunner (backend/task_runner.py) and ConcurrentInsertRunner  *)
(* (backend/runner/concurrent_runner.py) make on the client, what the client      *)
(* does with the rows, and the database that makes them visible and indexes them   *)
(* in its own time.  Faults: a failing call, an answer that is lost after the rows *)
(* were written, rows that are lost silently where the client cannot see it.        *)
(*                                                                               *)
(* One worker, so one batch at a time: ConcurrentInsert has the many.  A row of    *)
(* an earlier run is a row of the same dataset, or (extra) of another one.         *)
(*******************************************************************************)
EXTENDS InsertAttempt

CONSTANTS
  Databases,         \* the databases to run against
  Profile,           \* what the client of each of them does
  NumRows,           \* rows of the dataset
  BatchSize,         \* insert_batch_size
  MaxRetry,          \* config.MAX_INSERT_RETRY
  MaxFaults,         \* faults of a run
  ReadinessTimeout   \* whether readiness_timeout is set (by default it is None)

Rows == 1 .. NumRows

ASSUME ClientRunAssumption ==
  /\ Profile \in [Databases -> ClientProfiles]
  /\ NumRows \in Nat \ {0} /\ BatchSize \in Nat \ {0}
  /\ MaxRetry \in Nat /\ MaxFaults \in Nat
  /\ MaxCopies \in Nat \ {0} /\ Chunk \in Nat \ {0} /\ Workers \in Nat
  /\ ReadinessTimeout \in BOOLEAN

VARIABLES
  db,        \* the database of the case
  task,      \* a performance case or a cloud insert case
  drop,      \* "old": drop_old, so the old rows go (and, in a performance case, new ones come)
  pc, why,   \* where the case is, and in which call it failed
  container, \* the collection, table or index is there, or missing
  copies,    \* how often each row of the dataset is stored
  extra,     \* rows of another dataset that are stored too
  shown,     \* stored rows of the dataset that a query or a count sees
  index,     \* the index is complete, or rows are pending
  next,      \* the first row of the batch to send
  loaded,    \* rows counted as inserted
  tries,     \* attempts at this batch that failed
  conn,      \* the connection the load uses
  answers,   \* what the searches were answered with
  faults     \* faults so far

choice == <<db, task, drop>>
stored == <<container, copies, extra>>
service == <<shown, index>>
load == <<next, loaded, tries, conn>>
vars == <<choice, pc, why, stored, service, load, answers, faults>>

client == Profile[db]

dropOld == drop = "old"
present == container = "there"
indexed == index = "complete"

Stored == {x \in Rows \X (1 .. MaxCopies) : x[2] <= copies[x[1]]}

\* The number of rows the database answers with when asked.
Counted == shown + extra

Batch == next .. Least(next + BatchSize - 1, NumRows)

-------------------------------------------------------------------------------
Fail(call) == pc' = "failed" /\ why' = call

Fault == faults < MaxFaults /\ faults' = faults + 1

\* An earlier run left nothing, or the same rows, with or without rows of another.
Init ==
  /\ db \in Databases /\ task \in {"performance", "cloud_insert"} /\ drop \in {"old", "nothing"}
  /\ pc = "prepare" /\ why = "none"
  /\ container \in {"there", "missing"}
  /\ extra \in IF present THEN {0, 1} ELSE {0}
  /\ copies \in {[r \in Rows |-> n] : n \in IF present THEN {0, 1} ELSE {0}}
  /\ shown = Cardinality(Stored) /\ index = IF present THEN "complete" ELSE "pending"
  /\ next = 1 /\ loaded = 0 /\ tries = 0 /\ conn = "usable"
  /\ answers = "none" /\ faults = 0

-------------------------------------------------------------------------------
\* CaseRunner.run: a performance case loads only when it drops the old rows.
AfterPrepare ==
  pc' = IF task = "performance" /\ ~dropOld THEN "search" ELSE "load"

\* init_db: the client's constructor.
PrepareDropping ==
  /\ pc = "prepare" /\ dropOld
  /\ client.prepare.make = "never" => present
  /\ IF client.prepare.old = "drop"
     THEN /\ container' = IF client.prepare.make = "at_write" THEN "missing" ELSE "there"
          /\ copies' = [r \in Rows |-> 0] /\ extra' = 0
          /\ shown' = 0 /\ index' = "pending"
     ELSE container' = "there" /\ UNCHANGED <<copies, extra, service>>
  /\ AfterPrepare
  /\ UNCHANGED <<choice, why, load, answers, faults>>

PrepareKeeping ==
  /\ pc = "prepare" /\ ~dropOld /\ ~client.prepare.fresh
  /\ container' = IF client.prepare.make = "missing" THEN "there" ELSE container
  /\ AfterPrepare
  /\ UNCHANGED <<choice, why, copies, extra, service, load, answers, faults>>

PrepareFails ==
  /\ pc = "prepare"
  /\ \/ Fault
     \/ dropOld /\ client.prepare.make = "never" /\ ~present /\ UNCHANGED faults
     \/ ~dropOld /\ client.prepare.fresh /\ UNCHANGED faults
  /\ IF dropOld /\ present /\ client.prepare.oldFails = "ignore"
     THEN AfterPrepare /\ UNCHANGED why
     ELSE Fail("prepare")
  /\ UNCHANGED <<choice, stored, service, load, answers>>

-------------------------------------------------------------------------------
\* _insert_batch_with_retry takes the answer to one insert_embeddings.
TakeSuccess(answer) ==
  /\ next' = next + Cardinality(Batch)
  /\ loaded' = loaded + answer.count
  /\ tries' = 0
  /\ UNCHANGED <<pc, why, conn>>

\* Mutant: the rows reported with the error are counted, and sent again all the same.
TakeFailureCounting(answer) ==
  /\ \/ client.insert.fails = "again" /\ UNCHANGED <<pc, why, tries>>
     \/ client.insert.fails = "report" /\ tries < MaxRetry /\ tries' = tries + 1
        /\ UNCHANGED <<pc, why>>
     \/ client.insert.fails = "report" /\ tries >= MaxRetry /\ Fail("insert") /\ UNCHANGED tries
     \/ client.insert.fails \in {"raise", "final"} /\ Fail("insert") /\ UNCHANGED tries
  /\ conn' = client.insert.after /\ loaded' = loaded + answer.count
  /\ UNCHANGED next

\* Mutant: the first failure is the last.
TakeFailureOnce(answer) ==
  /\ IF client.insert.fails = "again" THEN UNCHANGED <<pc, why>> ELSE Fail("insert")
  /\ conn' = client.insert.after
  /\ UNCHANGED <<next, loaded, tries>>

\* Mutant: the attempts are not counted.
TakeFailureForever(answer) ==
  /\ IF client.insert.fails \in {"report", "again"} THEN UNCHANGED <<pc, why>> ELSE Fail("insert")
  /\ conn' = client.insert.after
  /\ UNCHANGED <<next, loaded, tries>>

\* The whole batch again, on the same connection, MAX_INSERT_RETRY times.
TakeFailure(answer) ==
  /\ \/ client.insert.fails = "again" /\ UNCHANGED <<pc, why, tries>>
     \/ client.insert.fails = "report" /\ tries < MaxRetry /\ tries' = tries + 1
        /\ UNCHANGED <<pc, why>>
     \/ client.insert.fails = "report" /\ tries >= MaxRetry /\ Fail("insert") /\ UNCHANGED tries
     \/ client.insert.fails \in {"raise", "final"} /\ Fail("insert") /\ UNCHANGED tries
  /\ conn' = client.insert.after
  /\ UNCHANGED <<next, loaded>>

TakeAnswer(answer) ==
  /\ copies' = answer.copies
  /\ container' = IF answer.copies # copies THEN "there" ELSE container
  /\ IF answer.ok THEN TakeSuccess(answer) ELSE TakeFailure(answer)
  /\ UNCHANGED <<choice, extra, service, answers>>

\* A container that nothing makes, or a connection in an aborted transaction.
Refused ==
  \/ conn = "aborted"
  \/ ~present /\ client.prepare.make # "at_write"

Refusal == [copies |-> copies, count |-> 0, ok |-> FALSE]

\* What the client raises before it writes, whatever it does with later errors.
Raises ==
  \/ TooFew(client.insert, Batch)
  \/ client.insert.raises = "first" /\ Refused

SendBatch ==
  /\ pc = "load" /\ next <= NumRows /\ ~Raises
  /\ \E answer \in IF Refused THEN {Refusal} ELSE Undisturbed(client.insert, copies, Batch) :
       TakeAnswer(answer)
  /\ UNCHANGED faults

SendBatchFails ==
  /\ pc = "load" /\ next <= NumRows /\ ~Refused /\ ~Raises
  /\ \E answer \in Faulty(client.insert, copies, Batch) : TakeAnswer(answer)
  /\ Fault

SendBatchRaises ==
  /\ pc = "load" /\ next <= NumRows
  /\ \/ Raises /\ UNCHANGED faults
     \/ client.insert.raises = "first" /\ Fault
  /\ Fail("insert")
  /\ UNCHANGED <<choice, stored, service, load, answers>>

\* What was written is not indexed yet.
LoadEnds ==
  /\ pc = "load" /\ next > NumRows
  /\ pc' = IF task = "performance" THEN "optimize" ELSE "searchable"
  /\ index' = "pending"
  /\ UNCHANGED <<choice, why, stored, shown, load, answers, faults>>

-------------------------------------------------------------------------------
\* What optimize(data_size) waits for.
Optimized ==
  /\ client.optimize \in {"call", "poll", "capped_raise"} => indexed
  /\ client.optimize = "row_count" => Counted = NumRows
  /\ client.optimize # "broken"

Optimize ==
  /\ pc = "optimize" /\ Optimized
  /\ pc' = "search"
  /\ UNCHANGED <<choice, why, stored, service, load, answers, faults>>

\* A failing statement, the end of a capped wait, or the case's optimize_timeout.
OptimizeFails ==
  /\ pc = "optimize"
  /\ \/ Fault
     \/ client.optimize \in {"broken", "capped_raise"} /\ ~Optimized /\ UNCHANGED faults
  /\ Fail("optimize")
  /\ UNCHANGED <<choice, stored, service, load, answers>>

OptimizeTimesOut ==
  /\ pc = "optimize" /\ ~Optimized
  /\ Fail("optimize_timeout")
  /\ UNCHANGED <<choice, stored, service, load, answers, faults>>

-------------------------------------------------------------------------------
\* poll_insert_readiness(count), the count being the rows counted as inserted.
\* Mutant: the rows that were written, seen or not.
CountWritten == Cardinality(Stored) >= loaded

CountReached == Counted >= loaded

FullySearchable == client.readiness \in {"counted", "fresh"} => CountReached

FullyIndexed ==
  /\ client.readiness = "fresh" => CountReached
  /\ client.readiness \in {"counted", "bytes"} => indexed

PollReadiness ==
  /\ \/ pc = "searchable" /\ FullySearchable /\ pc' = "indexed"
     \/ pc = "indexed" /\ FullyIndexed /\ pc' = "done"
  /\ UNCHANGED <<choice, why, stored, service, load, answers, faults>>

PollFails ==
  /\ pc \in {"searchable", "indexed"}
  /\ \/ Fault
     \/ ReadinessTimeout /\ ~(IF pc = "searchable" THEN FullySearchable ELSE FullyIndexed)
        /\ UNCHANGED faults
  /\ Fail("readiness")
  /\ UNCHANGED <<choice, stored, service, load, answers>>

-------------------------------------------------------------------------------
\* search_embedding, for all queries of the case.
SearchIs(answer) ==
  /\ answers' = answer /\ pc' = "done" /\ UNCHANGED why

\* Mutant: every client answers a failing search with nothing.
SearchFailsQuietly(part) == SearchIs("empty")

SearchFailsIn(part) ==
  IF part \in client.search.swallows
  THEN SearchIs("empty")
  ELSE Fail("search") /\ UNCHANGED answers

\* The client has a statement that searches, for some metric.
HasSearch == \E m \in Metrics : client.search[m] # "none"

Search ==
  /\ pc = "search"
  /\ \/ present /\ HasSearch /\ SearchIs(IF Stored = {} /\ extra = 0 THEN "empty" ELSE "rows")
     \/ ~(present /\ HasSearch) /\ SearchFailsIn("call")
     \/ ~present /\ HasSearch /\ client.prepare.make = "at_write" /\ SearchIs("empty")
  /\ UNCHANGED <<choice, stored, service, load, faults>>

SearchFails ==
  /\ pc = "search"
  /\ Fault
  /\ \E part \in {"call", "answer"} : SearchFailsIn(part)
  /\ UNCHANGED <<choice, stored, service, load>>

-------------------------------------------------------------------------------
\* The database, between the load and the end of the case.
ShowRow ==
  /\ pc \in {"optimize", "search", "searchable", "indexed"}
  /\ shown < Cardinality(Stored) /\ shown' = shown + 1
  /\ UNCHANGED <<choice, pc, why, stored, index, load, answers, faults>>

FinishIndex ==
  /\ pc \in {"optimize", "search", "searchable", "indexed"}
  /\ present /\ shown = Cardinality(Stored) /\ ~indexed /\ index' = "complete"
  /\ UNCHANGED <<choice, pc, why, stored, shown, load, answers, faults>>

Ended == pc \in {"done", "failed"} /\ UNCHANGED vars

Runner ==
  \/ PrepareDropping \/ PrepareKeeping \/ PrepareFails
  \/ SendBatch \/ SendBatchFails \/ SendBatchRaises \/ LoadEnds
  \/ Optimize \/ OptimizeFails \/ OptimizeTimesOut
  \/ PollReadiness \/ PollFails
  \/ Search \/ SearchFails

Next == Runner \/ ShowRow \/ FinishIndex \/ Ended

Spec == Init /\ [][Next]_vars

\* The case goes on as long as it can, and so does the database.
FairSpec == Spec /\ WF_vars(Runner) /\ WF_vars(ShowRow) /\ WF_vars(FinishIndex)

-------------------------------------------------------------------------------
TypeOK ==
  /\ db \in Databases /\ task \in {"performance", "cloud_insert"} /\ drop \in {"old", "nothing"}
  /\ pc \in {"prepare", "load", "optimize", "searchable", "indexed", "search", "done", "failed"}
  /\ why \in {"none", "prepare", "insert", "optimize", "optimize_timeout", "readiness", "search"}
  /\ container \in {"there", "missing"} /\ extra \in {0, 1} /\ index \in {"complete", "pending"}
  /\ copies \in [Rows -> 0 .. MaxCopies] /\ shown \in Nat
  /\ next \in 1 .. NumRows + 1 /\ loaded \in Nat
  /\ tries \in 0 .. MaxRetry /\ conn \in {"usable", "aborted"}
  /\ answers \in {"none", "empty", "rows"} /\ faults \in 0 .. MaxFaults

\* The clients that can neither keep old rows, nor lose rows without an error, nor add a
\* row again when a batch is sent again, nor count rows that are not there.
Exact(p) ==
  /\ p.prepare.old = "drop" /\ p.prepare.oldFails = "raise"
  /\ ~p.insert.quiet /\ p.insert.counts # "chunks"
  /\ \/ p.insert.again # "add"
     \/ p.insert.fails \in {"raise", "final"}
     \/ p.insert.after = "aborted"

\* After the load of a run that drops the old rows, the database of an exact client
\* holds every row of the dataset once and no other, and the count is that of the rows:
\* whatever failed, was retried or was written before the answer was lost.
StoredAsCounted ==
  (Exact(client) /\ dropOld /\ pc \in {"optimize", "searchable", "indexed", "search", "done"})
    => /\ copies = [r \in Rows |-> 1] /\ extra = 0
       /\ loaded = NumRows

\* The clients whose batch can be sent again after any failure.
Resendable(p) ==
  /\ p.insert.again \in {"once", "add"} /\ p.insert.after = "usable"
  /\ p.insert.fails \in {"report", "again"} /\ p.insert.raises = "nothing"

\* A load that such a client does not survive met more failures than
\* _insert_batch_with_retry makes attempts.
RetriesAreUsed == (Resendable(client) /\ dropOld /\ why = "insert") => faults > MaxRetry

\* A cloud insert case reports the rows searchable when all are, and indexed when the index
\* is complete; a performance case searches a complete index: where the client can tell.
MeasuredWhenReady ==
  /\ (Exact(client) /\ dropOld /\ client.readiness \in {"counted", "fresh"} /\ pc \in {"indexed", "done"}
        /\ task = "cloud_insert")
       => shown = NumRows
  /\ (client.readiness \in {"counted", "bytes"} /\ pc = "done" /\ task = "cloud_insert") => indexed
  /\ (client.optimize \in {"call", "poll", "capped_raise"} /\ dropOld /\ pc \in {"search", "done"}
        /\ task = "performance")
       => indexed /\ shown = Cardinality(Stored)

\* A search that is answered with nothing, and counted, is one of a client that turns
\* failures into empty answers or loses rows silently, or a search-only run on a container
\* that the client has made itself or that nobody misses.
AnswerIsReal ==
  (pc = "done" /\ answers = "empty")
    => \/ client.search.swallows # {}
       \/ client.insert.quiet
       \/ ~dropOld /\ (client.prepare.make \in {"missing", "at_write"} \/ present)

\* Every case ends, the cloud insert case without a readiness timeout too.
RunEnds == <>(pc \in {"done", "failed"})

===============================================================================
