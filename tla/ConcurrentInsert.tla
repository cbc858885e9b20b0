--------------------------- MODULE ConcurrentInsert ---------------------------
(***************************************************************************)
(* ConcurrentInsertRunner: workers pull batches from one shared iterator   *)
(* and insert them, with retries, until it is exhausted, one of them fails *)
(* or, for a cloud insert, the duration is over.  The main thread waits    *)
(* for the workers in the order it submitted them.                         *)
(*                                                                         *)
(* Three callers: run() of a vector load, in a process of its own that the *)
(* load timeout kills; run() of a full-text load, in the case's process,   *)
(* where the timeout is a signal handled by the main thread; and task() of *)
(* a cloud insert, without a timeout.  A batch stands for its rows, a      *)
(* count of rows for the set of batches counted.                           *)
(***************************************************************************)
EXTENDS Naturals, Sequences, FiniteSets

CONSTANTS
    NumWorkers,   \* max_workers; workers are numbered in submission order
    NumBatches,   \* batches the dataset iterator yields
    MaxRetry      \* config.MAX_INSERT_RETRY

ASSUME NumWorkersAssumption == NumWorkers \in Nat \ {0}
ASSUME NumBatchesAssumption == NumBatches \in Nat
ASSUME MaxRetryAssumption == MaxRetry \in Nat

VARIABLES
    mode,       \* which of the three callers
    next,       \* the batch the iterator yields next
    prefetched, \* _prefetched_fts_batch, 0 for None
    stop,       \* _stop_event
    expired,    \* the deadline of a cloud insert has passed
    rang,       \* the load timeout has struck
    lock,       \* holder of _iter_lock, 0 for none
    pc,         \* per worker, where in _worker_loop it is
    batch,      \* per worker, the batch it holds
    retry,      \* per worker, retry_idx
    total,      \* per worker, the batches it has counted
    main,       \* where the main thread is
    waiting,    \* the worker whose future it waits for
    errors,     \* what the failed futures gave, in the order waited for
    outcome,    \* how the load ended
    count,      \* the count it returned
    (* external *)
    stored,     \* the batches with rows in the database
    whole,      \* the batches with all their rows there
    (* observation only *)
    pulled,     \* the batches handed out
    late        \* pulls since stop was set, since the deadline (per worker)

worker == <<pc, batch, retry, total>>
iterator == <<next, prefetched, lock, pulled, late>>
waiter == <<main, waiting, errors, outcome, count>>
database == <<stored, whole>>
vars == <<mode, iterator, stop, expired, rang, worker, waiter, database>>

-----------------------------------------------------------------------------
Workers == 1..NumWorkers
Batches == 1..NumBatches
Modes == {"vector", "fulltext", "cloud"}
NoBatch == 0

PCs == {"idle", "test", "acquire", "take", "insert",
        "done", "raised", "killed"}
Mains == {"prime", "wait", "join", "ended"}
Outcomes == {"none", "count", "error", "timeout"}

Over == {"idle", "done", "raised", "killed"}

Goto(w, place) == pc' = [pc EXCEPT ![w] = place]

Init ==
    /\ mode \in Modes
    /\ next = 1
    /\ prefetched = NoBatch
    /\ stop = FALSE
    /\ expired = FALSE
    /\ rang = FALSE
    /\ lock = 0
    /\ pc = [w \in Workers |-> "idle"]
    /\ batch = [w \in Workers |-> NoBatch]
    /\ retry = [w \in Workers |-> 0]
    /\ total = [w \in Workers |-> {}]
    /\ main = "prime"
    /\ waiting = 1
    /\ errors = <<>>
    /\ outcome = "none"
    /\ count = {}
    /\ stored = {}
    /\ whole = {}
    /\ pulled = {}
    /\ late = [stop |-> 0, expired |-> [w \in Workers |-> 0]]

-----------------------------------------------------------------------------
(***************************************************************************)
(* task: prime the iterator (full text only), open the database, submit.   *)
(***************************************************************************)
Submit ==
    /\ main = "prime"
    /\ main' = "wait"
    /\ pc' = [w \in Workers |-> "test"]
    /\ IF mode = "fulltext" /\ next <= NumBatches
          THEN prefetched' = next /\ next' = next + 1
          ELSE UNCHANGED <<prefetched, next>>
    /\ UNCHANGED <<mode, lock, pulled, late, stop, expired, rang, batch, retry,
                   total, waiting, errors, outcome, count, database>>

Ends(result, counted) ==
    /\ main' = "ended"
    /\ outcome' = result
    /\ count' = counted

SubmitFails ==
    /\ main = "prime"
    /\ Ends("error", {})
    /\ UNCHANGED <<mode, iterator, stop, expired, rang, worker, waiting, errors,
                   database>>

-----------------------------------------------------------------------------
(***************************************************************************)
(* _next_batch                                                             *)
(***************************************************************************)

\* Mutant: the deadline is not looked at.
TestStopOnly(w) ==
    /\ pc[w] = "test"
    /\ Goto(w, IF stop THEN "done" ELSE "acquire")
    /\ UNCHANGED <<mode, iterator, stop, expired, rang, batch, retry, total,
                   waiter, database>>

\* The first look, outside the lock.
Test(w) ==
    /\ pc[w] = "test"
    /\ Goto(w, IF stop \/ expired THEN "done" ELSE "acquire")
    /\ UNCHANGED <<mode, iterator, stop, expired, rang, batch, retry, total,
                   waiter, database>>

\* Mutant: the event is not looked at again under the lock.
AcquireRegardless(w) ==
    /\ pc[w] = "acquire"
    /\ lock = 0
    /\ lock' = w
    /\ Goto(w, "take")
    /\ UNCHANGED <<mode, next, prefetched, pulled, late, stop, expired, rang,
                   batch, retry, total, waiter, database>>

\* The lock, and the second look under it: at the event only, not at the
\* deadline.  A failure that comes after this look does not keep the worker
\* from its batch.
Acquire(w) ==
    /\ pc[w] = "acquire"
    /\ lock = 0
    /\ lock' = IF stop THEN 0 ELSE w
    /\ Goto(w, IF stop THEN "done" ELSE "take")
    /\ UNCHANGED <<mode, next, prefetched, pulled, late, stop, expired, rang,
                   batch, retry, total, waiter, database>>

Exhausted == prefetched = NoBatch /\ next > NumBatches

NextBatch == IF prefetched # NoBatch THEN prefetched ELSE next

Counted(flag, n) == IF flag THEN n + 1 ELSE n

HandOut(w) ==
    /\ batch' = [batch EXCEPT ![w] = NextBatch]
    /\ pulled' = pulled \cup {NextBatch}
    /\ late' = [stop |-> Counted(stop, late.stop),
                expired |-> [late.expired EXCEPT ![w] = Counted(expired, @)]]
    /\ Goto(w, "insert")
    /\ lock' = 0

\* Mutant: the prefetched batch is left in place.
TakeKeepingPrefetched(w) ==
    /\ pc[w] = "take"
    /\ ~Exhausted
    /\ HandOut(w)
    /\ next' = IF prefetched # NoBatch THEN next ELSE next + 1
    /\ UNCHANGED <<mode, prefetched, stop, expired, rang, retry, total, waiter,
                   database>>

Take(w) ==
    /\ pc[w] = "take"
    /\ ~Exhausted
    /\ HandOut(w)
    /\ prefetched' = NoBatch
    /\ next' = IF prefetched # NoBatch THEN next ELSE next + 1
    /\ UNCHANGED <<mode, stop, expired, rang, retry, total, waiter,
                   database>>

\* Mutant: the lock is not given back at the end of the data.
TakeNothingKeepsLock(w) ==
    /\ pc[w] = "take"
    /\ Exhausted
    /\ Goto(w, "done")
    /\ UNCHANGED <<mode, iterator, stop, expired, rang, batch, retry, total,
                   waiter, database>>

TakeNothing(w) ==
    /\ pc[w] = "take"
    /\ Exhausted
    /\ Goto(w, "done")
    /\ lock' = 0
    /\ UNCHANGED <<mode, next, prefetched, pulled, late, stop, expired, rang,
                   batch, retry, total, waiter, database>>

\* The worker's exception handler: tell the others, then raise.
Raises(w) ==
    /\ Goto(w, "raised")
    /\ stop' = TRUE

\* Reading the dataset fails; a generator that raised is exhausted.
TakeFails(w) ==
    /\ pc[w] = "take"
    /\ prefetched = NoBatch /\ next <= NumBatches
    /\ next' = NumBatches + 1
    /\ lock' = 0
    /\ Raises(w)
    /\ UNCHANGED <<mode, prefetched, pulled, late, expired, rang, batch, retry,
                   total, waiter, database>>

-----------------------------------------------------------------------------
(***************************************************************************)
(* _insert_batch_with_retry                                                *)
(***************************************************************************)
Insert(w) ==
    /\ pc[w] = "insert"
    /\ stored' = stored \cup {batch[w]}
    /\ whole' = whole \cup {batch[w]}
    /\ total' = [total EXCEPT ![w] = @ \cup {batch[w]}]
    /\ batch' = [batch EXCEPT ![w] = NoBatch]
    /\ retry' = [retry EXCEPT ![w] = 0]
    /\ Goto(w, "test")
    /\ UNCHANGED <<mode, iterator, stop, expired, rang, waiter>>

\* What a failed attempt leaves behind: no row, some rows, or all of them.
LeftBehind(w) ==
    \/ UNCHANGED database
    \/ stored' = stored \cup {batch[w]} /\ UNCHANGED whole
    \/ stored' = stored \cup {batch[w]} /\ whole' = whole \cup {batch[w]}

\* The whole batch is inserted again, whatever the attempt left.
Retry(w) ==
    /\ pc[w] = "insert"
    /\ retry[w] < MaxRetry
    /\ LeftBehind(w)
    /\ retry' = [retry EXCEPT ![w] = @ + 1]
    /\ UNCHANGED <<mode, iterator, stop, expired, rang, pc, batch, total, waiter>>

\* Mutant: a worker that gives up returns what it has counted.
GiveUpQuietly(w) ==
    /\ pc[w] = "insert"
    /\ LeftBehind(w)
    /\ Goto(w, "done")
    /\ stop' = TRUE
    /\ retry' = [retry EXCEPT ![w] = 0]
    /\ UNCHANGED <<mode, iterator, expired, rang, batch, total, waiter>>

\* The last retry failed, the error is not retryable, or the client raised.
GiveUp(w) ==
    /\ pc[w] = "insert"
    /\ LeftBehind(w)
    /\ Raises(w)
    /\ retry' = [retry EXCEPT ![w] = 0]
    /\ UNCHANGED <<mode, iterator, expired, rang, batch, total, waiter>>

-----------------------------------------------------------------------------
(***************************************************************************)
(* wait_all in submission order, the executor's shutdown, and the result.  *)
(***************************************************************************)
WaitFor ==
    /\ main = "wait"
    /\ waiting <= NumWorkers
    /\ pc[waiting] \in {"done", "raised"}
    /\ errors' = IF pc[waiting] = "raised" THEN Append(errors, "error") ELSE errors
    /\ waiting' = waiting + 1
    /\ UNCHANGED <<mode, iterator, stop, expired, rang, worker, main, outcome,
                   count, database>>

Join ==
    /\ main = "wait"
    /\ waiting > NumWorkers
    /\ \A w \in Workers : pc[w] \in Over
    /\ main' = "join"
    /\ UNCHANGED <<mode, iterator, stop, expired, rang, worker, waiting, errors,
                   outcome, count, database>>

Return ==
    /\ main = "join"
    /\ errors = <<>>
    /\ Ends("count", UNION {total[w] : w \in Workers})
    /\ UNCHANGED <<mode, iterator, stop, expired, rang, worker, waiting, errors,
                   database>>

\* The first error in submission order is raised.
Raise ==
    /\ main = "join"
    /\ errors # <<>>
    /\ Ends(Head(errors), {})
    /\ UNCHANGED <<mode, iterator, stop, expired, rang, worker, waiting, errors,
                   database>>

-----------------------------------------------------------------------------
(***************************************************************************)
(* The clock                                                               *)
(***************************************************************************)
Expire ==
    /\ mode = "cloud"
    /\ main \in {"wait", "join"}
    /\ ~expired
    /\ expired' = TRUE
    /\ UNCHANGED <<mode, iterator, stop, rang, worker, waiter, database>>

\* Mutant: the timeout is reported, the process left to itself.
TimeoutLeavesProcess ==
    /\ mode = "vector"
    /\ main # "ended"
    /\ rang' = TRUE
    /\ Ends("timeout", {})
    /\ UNCHANGED <<mode, iterator, stop, expired, worker, waiting, errors, database>>

\* Vector load: future.result times out, the process and its workers die.
Timeout ==
    /\ mode = "vector"
    /\ main # "ended"
    /\ rang' = TRUE
    /\ pc' = [w \in Workers |-> "killed"]
    /\ batch' = [w \in Workers |-> NoBatch]
    /\ retry' = [w \in Workers |-> 0]
    /\ total' = [w \in Workers |-> {}]
    /\ Ends("timeout", {})
    /\ UNCHANGED <<mode, iterator, stop, expired, waiting, errors, database>>

\* Full-text load: the signal raises LoadTimeoutError in the main thread.
\* While that waits for a future, wait_all takes it for the worker's error.
Ring ==
    /\ mode = "fulltext"
    /\ ~rang
    /\ rang' = TRUE
    /\ \/ /\ main = "wait"
          /\ waiting <= NumWorkers
          /\ errors' = Append(errors, "timeout")
          /\ waiting' = waiting + 1
          /\ UNCHANGED <<main, outcome, count>>
       \/ /\ main \in {"prime", "join"}
          /\ Ends("timeout", {})
          /\ UNCHANGED <<waiting, errors>>
    /\ UNCHANGED <<mode, iterator, stop, expired, worker, database>>

-----------------------------------------------------------------------------
Worker(w) ==
    \/ Test(w) \/ Acquire(w)
    \/ Take(w) \/ TakeNothing(w) \/ TakeFails(w)
    \/ Insert(w) \/ Retry(w) \/ GiveUp(w)

Main == Submit \/ SubmitFails \/ WaitFor \/ Join \/ Return \/ Raise

Clock == Expire \/ Timeout \/ Ring

Next == (\E w \in Workers : Worker(w)) \/ Main \/ Clock

Spec == Init /\ [][Next]_vars

\* Threads are scheduled; no timeout is needed for a load to end.
Fairness == (\A w \in Workers : WF_vars(Worker(w))) /\ WF_vars(Main)

FairSpec == Spec /\ Fairness

-----------------------------------------------------------------------------
(***************************************************************************)
(* Properties                                                              *)
(***************************************************************************)

\* Types of the runner's fields and of the positions of its threads.
TypeOK ==
    /\ mode \in Modes
    /\ next \in 1..(NumBatches + 1)
    /\ prefetched \in {NoBatch} \cup Batches
    /\ stop \in BOOLEAN
    /\ expired \in BOOLEAN
    /\ rang \in BOOLEAN
    /\ lock \in 0..NumWorkers
    /\ pc \in [Workers -> PCs]
    /\ batch \in [Workers -> {NoBatch} \cup Batches]
    /\ retry \in [Workers -> 0..MaxRetry]
    /\ total \in [Workers -> SUBSET Batches]
    /\ main \in Mains
    /\ waiting \in 1..(NumWorkers + 1)
    /\ errors \in Seq({"error", "timeout"})
    /\ outcome \in Outcomes
    /\ count \in SUBSET Batches
    /\ stored \in SUBSET Batches
    /\ whole \in SUBSET Batches
    /\ pulled \in SUBSET Batches
    /\ late \in [stop: Nat, expired: [Workers -> Nat]]
    /\ \A w \in Workers : pc[w] = "insert" => batch[w] # NoBatch

\* A load that returns a count has all the rows of every batch in the
\* database and counted every one; cut short by its duration, it counted
\* what is there (concurrent_runner.py 282-295).
ReturnedMeansLoaded ==
    outcome = "count" =>
        /\ count \subseteq whole
        /\ stored \subseteq count
        /\ ~expired => count = Batches

Holds(w) == total[w] \cup ({batch[w]} \ {NoBatch})

\* No batch is given to two workers, and none is handed out again after it
\* was counted: no row is counted twice (concurrent_runner.py 172-179,
\* 216-227).
EachBatchOnce ==
    /\ \A v, w \in Workers : v # w => Holds(v) \cap Holds(w) = {}
    /\ \A w \in Workers : batch[w] \notin total[w]

\* Once a worker has failed at most one more batch is taken off the
\* iterator, whichever workers were already past their first look.
StopsPulling == late.stop <= 1

\* After the deadline each worker takes at most one more batch.
DeadlineStopsPulling == \A w \in Workers : late.expired[w] <= 1

\* Neither a failure nor the deadline leaves the workers pulling.
EndsStopPulling == StopsPulling /\ DeadlineStopsPulling

(***************************************************************************)
(* The strengthening the proofs use.                                       *)
(***************************************************************************)

\* The iterator is in the hands of the lock's holder; what was handed out is
\* behind it, and is not the prefetched batch.
IteratorInv ==
    /\ \A w \in Workers : pc[w] = "take" => lock = w
    /\ prefetched # NoBatch => prefetched < next
    /\ \A w \in Workers : \A b \in Holds(w) : b < next /\ b # prefetched
    /\ \A w \in Workers : pc[w] \in {"idle", "test", "acquire", "take", "done"}
                             => batch[w] = NoBatch

\* A worker between its look at the stop event, or at the deadline, and its
\* batch has not yet taken one too many.
LateInv ==
    /\ ~stop => late.stop = 0
    /\ \A w \in Workers : pc[w] = "take" => late.stop = 0
    /\ ~expired => \A w \in Workers : late.expired[w] = 0
    /\ \A w \in Workers : pc[w] \in {"acquire", "take"} => late.expired[w] = 0

Counts == main # "ended" \/ outcome = "count"

\* While the count still matters, every row stored is in a batch some worker
\* holds, what is counted is whole, and nothing handed out is forgotten.
AccountInv ==
    Counts =>
        /\ \A w \in Workers : total[w] \subseteq whole
        /\ \A b \in stored : \E w \in Workers : b \in Holds(w)
        /\ ~stop => \A b \in 1..(next - 1) :
                       b = prefetched \/ \E w \in Workers : b \in Holds(w)

\* Why a worker is done, and what the main thread knows when it has met no
\* error.
WhyInv ==
    Counts =>
        /\ stop => \E w \in Workers : pc[w] = "raised"
        /\ \A w \in Workers : pc[w] = "done" => stop \/ expired \/ Exhausted
        /\ errors = <<>> => \A w \in Workers : w < waiting => pc[w] = "done"

\* How far the main thread is.
MainInv ==
    /\ main = "prime" =>
          /\ next = 1 /\ prefetched = NoBatch /\ waiting = 1
          /\ ~stop
          /\ \A w \in Workers : pc[w] = "idle"
    /\ main \in {"join", "ended"} => \A w \in Workers : pc[w] \in Over
    /\ main = "join" => waiting > NumWorkers
    /\ outcome = "none" <=> main # "ended"
    /\ outcome = "count" =>
          /\ errors = <<>>
          /\ waiting > NumWorkers
          /\ count = UNION {total[w] : w \in Workers}

LoadInv ==
    /\ TypeOK
    /\ IteratorInv
    /\ LateInv
    /\ AccountInv
    /\ WhyInv
    /\ MainInv
    /\ EachBatchOnce
    /\ StopsPulling
    /\ DeadlineStopsPulling

\* A load that has returned or raised has left no thread behind that goes
\* on inserting.
NothingAfterTheEnd == [][main = "ended" => UNCHANGED database]_vars

\* Every load ends, with a count or with an error.
LoadEnds == <>(main = "ended")
=============================================================================
