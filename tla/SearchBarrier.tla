---------------------------- MODULE SearchBarrier ----------------------------
(***************************************************************************)
(* MultiProcessingSearchRunner: for each concurrency level a pool of       *)
(* processes is started; each puts a token in a queue and waits on a       *)
(* condition; the main process polls the queue until every token is there, *)
(* notifies the condition once, and collects the results.  A level that    *)
(* fails ends the test; the levels measured so far are returned if one of  *)
(* them had a positive throughput, else the error is raised.               *)
(*                                                                         *)
(* The queue and the condition live in the manager's process, so a token   *)
(* put and a lock taken are one step each.  run() polls the queue with a   *)
(* timeout, run_by_dur() without.                                          *)
(***************************************************************************)
EXTENDS Naturals, Sequences, FiniteSets

CONSTANTS
    Concurrencies,  \* the concurrency levels, in order
    HasTimeout,     \* run() with a positive concurrency_timeout
    CanCrash        \* whether a search process may be killed

ASSUME ConcurrenciesAssumption == Concurrencies \in Seq(Nat \ {0})
ASSUME HasTimeoutAssumption == HasTimeout \in BOOLEAN
ASSUME CanCrashAssumption == CanCrash \in BOOLEAN

VARIABLES
    level,    \* the concurrency level at work
    pc,       \* per process of the level, where in search it is
    tokens,   \* q.qsize()
    main,     \* where the main process is
    error,    \* an exception is on its way out of the level
    results,  \* per level collected, how many of its processes counted a query
    outcome   \* how the test ended

vars == <<level, pc, tokens, main, error, results, outcome>>

-----------------------------------------------------------------------------
Conc == Concurrencies[level]
Processes == 1..Conc

PCs == {"boot", "arrived", "waiting", "search", "found", "nothing",
        "failed", "dead"}
Mains == {"fill", "notify", "collect", "exit", "ended"}
Over == {"found", "nothing", "failed", "dead"}

Goto(p, place) == pc' = [pc EXCEPT ![p] = place]

\* submit: the processes of a level; a new queue and a new condition.
Pool(l) == [p \in 1..Concurrencies[l] |-> "boot"]

Init ==
    /\ level = 1
    /\ Len(Concurrencies) > 0
    /\ pc = Pool(1)
    /\ tokens = 0
    /\ main = "fill"
    /\ error = FALSE
    /\ results = <<>>
    /\ outcome = "none"

-----------------------------------------------------------------------------
(***************************************************************************)
(* search, search_by_dur                                                   *)
(***************************************************************************)
Put(p) ==
    /\ pc[p] = "boot"
    /\ tokens' = tokens + 1
    /\ Goto(p, "arrived")
    /\ UNCHANGED <<level, main, error, results, outcome>>

\* with cond: cond.wait(), some time after the token was put.
Wait(p) ==
    /\ pc[p] = "arrived"
    /\ Goto(p, "waiting")
    /\ UNCHANGED <<level, tokens, main, error, results, outcome>>

\* Queries run for the duration; one that fails is only not counted.
Search(p) ==
    /\ pc[p] = "search"
    /\ Goto(p, "found") \/ Goto(p, "nothing")
    /\ UNCHANGED <<level, tokens, main, error, results, outcome>>

\* Opening the database raises, or there is no query to send.
SearchFails(p) ==
    /\ pc[p] = "search"
    /\ Goto(p, "failed")
    /\ UNCHANGED <<level, tokens, main, error, results, outcome>>

\* A process that dies breaks the pool, which takes the others with it.
Crash ==
    /\ CanCrash
    /\ main # "ended"
    /\ \E p \in Processes : pc[p] \notin Over
    /\ pc' = [p \in Processes |-> IF pc[p] \in Over THEN pc[p] ELSE "dead"]
    /\ UNCHANGED <<level, tokens, main, error, results, outcome>>

-----------------------------------------------------------------------------
(***************************************************************************)
(* _run_all_concurrencies_mem_efficient, _run_by_dur                       *)
(***************************************************************************)

\* Mutant: one token too few will do.
FillShort ==
    /\ main = "fill"
    /\ tokens + 1 >= Conc
    /\ main' = "notify"
    /\ UNCHANGED <<level, pc, tokens, error, results, outcome>>

Fill ==
    /\ main = "fill"
    /\ tokens >= Conc
    /\ main' = "notify"
    /\ UNCHANGED <<level, pc, tokens, error, results, outcome>>

\* _wait_for_queue_fill gives up: ConcurrencySlotTimeoutError.
FillTimesOut ==
    /\ main = "fill"
    /\ HasTimeout
    /\ tokens < Conc
    /\ error' = TRUE
    /\ main' = "exit"
    /\ UNCHANGED <<level, pc, tokens, results, outcome>>

\* notify_all wakes those that wait now, and no one later.
Notify ==
    /\ main = "notify"
    /\ pc' = [p \in Processes |-> IF pc[p] = "waiting" THEN "search" ELSE pc[p]]
    /\ main' = "collect"
    /\ UNCHANGED <<level, tokens, error, results, outcome>>

Counted == Cardinality({p \in Processes : pc[p] = "found"})

\* Mutant: the results there are will do.
CollectSome ==
    /\ main = "collect"
    /\ \E p \in Processes : pc[p] \in {"found", "nothing"}
    /\ results' = Append(results, Counted)
    /\ main' = "exit"
    /\ UNCHANGED <<level, pc, tokens, error, outcome>>

\* r.result() of every future, all there.
Collect ==
    /\ main = "collect"
    /\ \A p \in Processes : pc[p] \in {"found", "nothing"}
    /\ results' = Append(results, Counted)
    /\ main' = "exit"
    /\ UNCHANGED <<level, pc, tokens, error, outcome>>

\* Mutant: only the first future is asked.
CollectFailsFirst ==
    /\ main = "collect"
    /\ pc[1] \in {"failed", "dead"}
    /\ error' = TRUE
    /\ main' = "exit"
    /\ UNCHANGED <<level, pc, tokens, results, outcome>>

\* r.result() raises at the first future, in order, that failed.
CollectFails ==
    /\ main = "collect"
    /\ \E p \in Processes :
          /\ pc[p] \in {"failed", "dead"}
          /\ \A q \in 1..(p - 1) : pc[q] \in {"found", "nothing"}
    /\ error' = TRUE
    /\ main' = "exit"
    /\ UNCHANGED <<level, pc, tokens, results, outcome>>

\* Leaving the executor's with block waits for every process of the pool.
PoolOver == main = "exit" /\ \A p \in Processes : pc[p] \in Over

NextLevel ==
    /\ PoolOver
    /\ ~error
    /\ level < Len(Concurrencies)
    /\ level' = level + 1
    /\ pc' = Pool(level + 1)
    /\ tokens' = 0
    /\ main' = "fill"
    /\ UNCHANGED <<error, results, outcome>>

\* max_qps: some level counted a query.
SomeThroughput == \E l \in DOMAIN results : results[l] > 0

Ends(result) ==
    /\ outcome' = result
    /\ main' = "ended"
    /\ UNCHANGED <<level, pc, tokens, error, results>>

Return ==
    /\ PoolOver
    /\ error => SomeThroughput
    /\ ~error => level = Len(Concurrencies)
    /\ Ends("returned")

Raise ==
    /\ PoolOver
    /\ error /\ ~SomeThroughput
    /\ Ends("raised")

-----------------------------------------------------------------------------
Process(p) == Put(p) \/ Wait(p) \/ Search(p) \/ SearchFails(p)

Main == Fill \/ Notify \/ Collect \/ CollectFails \/ NextLevel \/ Return \/ Raise

Next ==
    \/ \E p \in Processes : Process(p)
    \/ Crash
    \/ Main \/ FillTimesOut

Spec == Init /\ [][Next]_vars

(***************************************************************************)
(* A process that may go on does, and so does the main process; the        *)
(* polling loop counts its own sleeps, so its timeout comes.  Nothing makes *)
(* a process die or fail.                                                  *)
(***************************************************************************)
AnyProcess == UNION {1..Concurrencies[l] : l \in DOMAIN Concurrencies}

Fairness ==
    /\ \A p \in AnyProcess : WF_vars(p \in Processes /\ Process(p))
    /\ WF_vars(Main)
    /\ WF_vars(FillTimesOut)

FairSpec == Spec /\ Fairness

-----------------------------------------------------------------------------
TypeOK ==
    /\ level \in 1..Len(Concurrencies)
    /\ pc \in [Processes -> PCs]
    /\ tokens \in 0..Conc
    /\ main \in Mains
    /\ error \in BOOLEAN
    /\ results \in Seq(Nat)
    /\ Len(results) <= Len(Concurrencies)
    /\ outcome \in {"none", "returned", "raised"}

(***************************************************************************)
(* A level is measured at its concurrency: no process sends a query while  *)
(* another of its level has not even come up.                              *)
(***************************************************************************)
NobodyStartsEarly ==
    (\E p \in Processes : pc[p] \in {"search", "found", "nothing", "failed"})
        => \A p \in Processes : pc[p] # "boot"

(***************************************************************************)
(* The number recorded for a level counts every process of the level, each *)
(* of which has searched to the end of the duration.                       *)
(***************************************************************************)
LevelCountsEveryProcess ==
    (main = "exit" /\ ~error)
        => /\ Len(results) = level
           /\ \A p \in Processes : pc[p] \in {"found", "nothing"}
           /\ results[level] = Counted

(***************************************************************************)
(* The test that returns has, for a prefix of the concurrencies, a result  *)
(* each, the prefix being all of them unless a level failed; levels and    *)
(* numbers are reported side by side.                                      *)
(***************************************************************************)
ReturnsAPrefix ==
    outcome = "returned" =>
        IF error THEN Len(results) = level - 1 /\ SomeThroughput
                 ELSE Len(results) = Len(Concurrencies)

(***************************************************************************)
(* The numbers of the test are whole: each of all its processes, and the   *)
(* list of a prefix of the levels.                                         *)
(***************************************************************************)
LevelsAreWhole == LevelCountsEveryProcess /\ ReturnsAPrefix

\* A process of the level waits for a notification that will not come.
Stranded ==
    /\ main \notin {"fill", "notify", "ended"}
    /\ \E p \in Processes : pc[p] \in {"arrived", "waiting"}

(***************************************************************************)
(* Whatever fails, times out or dies, the test ends, unless a process was  *)
(* left waiting at the barrier.                                            *)
(***************************************************************************)
HangsOnlyAtTheBarrier == <>(main = "ended" \/ Stranded)
=============================================================================
