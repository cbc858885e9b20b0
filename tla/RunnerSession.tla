--------------------------- MODULE RunnerSession ---------------------------
(***************************************************************************)
(* BenchMarkRunner, the one object of a process that every caller shares:  *)
(* the command line, the REST handlers, the threads of the web pages.  A   *)
(* run is a child process that executes the cases and reports through a    *)
(* pipe; the parent learns of its progress only when a caller polls        *)
(* has_running.  Nothing in the object is locked.                          *)
(*                                                                         *)
(* Each accepted call of run makes a pipe; runs, pipes and children are    *)
(* numbered by it.  A caller's operation is split where another caller's   *)
(* may come between its reads and writes of the shared fields.  races      *)
(* notes the two overlaps of callers that do harm; what the properties say *)
(* of the runner they say of every behaviour up to the first of those.     *)
(***************************************************************************)
EXTENDS Naturals, Sequences, FiniteSets

CONSTANTS
    Callers,    \* threads that use the shared runner
    NumCases,   \* cases of a run
    MaxRuns,    \* bound: pipes ever made
    CanStop     \* whether a child may die or hang, with no final signal

ASSUME NumCasesAssumption == NumCases \in Nat \ {0}
ASSUME MaxRunsAssumption == MaxRuns \in Nat
ASSUME CanStopAssumption == CanStop \in BOOLEAN

VARIABLES
    running_task,   \* the run held as running, 0 for None
    receive_conn,   \* the pipe polled, 0 for None
    latest_error,   \* the run whose error is shown, 0 for "" or None
    finished,       \* per run, the cases its parent copy has as FINISHED
    pipes,          \* number of pipes made
    signals,        \* per pipe, what was sent and not yet received
    child,          \* per pipe, its child: the task it runs, what it has done
    pc,             \* per caller, where in its operation it is
    mine,           \* per caller, the pipe it made or is blocked on
    received,       \* per caller, the signal it is handling
    (* observation only *)
    succeeded,      \* runs whose SUCCESS was handled
    races           \* the harmful overlaps of callers there have been

shared == <<running_task, receive_conn, latest_error>>
callers == <<pc, mine, received>>
vars == <<shared, finished, pipes, signals, child, callers, succeeded, races>>

-----------------------------------------------------------------------------
Runs == 1..MaxRuns
Cases == 1..NumCases

WIP(i) == [sig |-> "WIP", of |-> i]
SUCCESS == [sig |-> "SUCCESS", of |-> 0]
ERROR(r) == [sig |-> "ERROR", of |-> r]
NoSignal == [sig |-> "none", of |-> 0]

Signals == {WIP(i) : i \in Cases} \cup {SUCCESS} \cup {ERROR(r) : r \in 0..MaxRuns}

PCs == {"idle", "accepted", "assemble", "submit", "poll", "recv", "blocked",
        "handle", "drop", "kill", "forget", "close"}

ChildStates == {"none", "alive", "hung", "ended", "dead"}

NoChild == [state |-> "none", task |-> 0, at |-> 0]

Alive(p) == child[p].state \in {"alive", "hung"}

Goto(c, place) == pc' = [pc EXCEPT ![c] = place]

\* An operation of a caller begins only when it is in none.
Begin(c, place) == pc[c] = "idle" /\ Goto(c, place)

\* The operation returns, or raises: what it held is gone.
Leave(c) ==
    /\ Goto(c, "idle")
    /\ mine' = [mine EXCEPT ![c] = 0]
    /\ received' = [received EXCEPT ![c] = NoSignal]

Init ==
    /\ running_task = 0
    /\ receive_conn = 0
    /\ latest_error = 0
    /\ finished = [r \in Runs |-> {}]
    /\ pipes = 0
    /\ signals = [r \in Runs |-> <<>>]
    /\ child = [r \in Runs |-> NoChild]
    /\ pc = [c \in Callers |-> "idle"]
    /\ mine = [c \in Callers |-> 0]
    /\ received = [c \in Callers |-> NoSignal]
    /\ succeeded = {}
    /\ races = {}

-----------------------------------------------------------------------------
(***************************************************************************)
(* The overlaps.  A run starts in steps, from the check that no task is    *)
(* held to the child it submits; another caller settles a run in steps,    *)
(* with a signal of it in hand or on its way, or stopping it.              *)
(***************************************************************************)
Starting(c) == pc[c] \in {"accepted", "assemble", "submit"}

Settling(c) ==
    \/ pc[c] \in {"handle", "drop", "kill", "forget", "close"}
    \/ pc[c] = "blocked" /\ mine[c] # receive_conn

StartsOverlap ==
    \E c, d \in Callers : c # d /\ Starting(c) /\ (Starting(d) \/ Settling(d))

ReportsOverlap ==
    \E c, d \in Callers : c # d /\ pc[c] = "handle" /\ pc[d] = "handle"

Overlaps == {k \in {"start", "report"} : IF k = "start" THEN StartsOverlap
                                                       ELSE ReportsOverlap}

-----------------------------------------------------------------------------
(***************************************************************************)
(* run: refuse while a task is held, or an empty list of tasks; else a new *)
(* pipe replaces the old one.                                              *)
(***************************************************************************)
RunRefused(c) ==
    /\ pc[c] = "idle"
    /\ latest_error' = 0
    /\ UNCHANGED <<running_task, receive_conn, finished, pipes, signals, child,
                   callers, succeeded>>

\* Mutant: the check of running_task is dropped.
RunUnchecked(c) ==
    /\ pipes < MaxRuns
    /\ latest_error' = 0
    /\ Begin(c, "accepted")
    /\ UNCHANGED <<running_task, receive_conn, finished, pipes, signals, child,
                   mine, received, succeeded>>

RunAccepted(c) ==
    /\ running_task = 0
    /\ pipes < MaxRuns
    /\ latest_error' = 0
    /\ Begin(c, "accepted")
    /\ UNCHANGED <<running_task, receive_conn, finished, pipes, signals, child,
                   mine, received, succeeded>>

OpenPipe(c) ==
    /\ pc[c] = "accepted"
    /\ pipes < MaxRuns
    /\ pipes' = pipes + 1
    /\ receive_conn' = pipes'
    /\ latest_error' = 0
    /\ mine' = [mine EXCEPT ![c] = pipes']
    /\ Goto(c, "assemble")
    /\ UNCHANGED <<running_task, finished, signals, child, received, succeeded>>

\* The task is held from here on, before its child exists.
AssembleTask(c) ==
    /\ pc[c] = "assemble"
    /\ running_task' = mine[c]
    /\ Goto(c, "submit")
    /\ UNCHANGED <<receive_conn, latest_error, finished, pipes, signals, child,
                   mine, received, succeeded>>

\* A missing client or an unsupported filter is an error to show; anything
\* else raises.  No task is held either way.
AssembleFails(c) ==
    /\ pc[c] = "assemble"
    /\ latest_error' \in {latest_error, mine[c]}
    /\ Leave(c)
    /\ UNCHANGED <<running_task, receive_conn, finished, pipes, signals, child,
                   succeeded>>

\* _run_async hands the child whatever task is held now, with the caller's
\* own pipe; with none held it raises.
Submit(c) ==
    /\ pc[c] = "submit"
    /\ child' = IF running_task = 0 THEN child
                ELSE [child EXCEPT ![mine[c]] =
                         [state |-> "alive", task |-> running_task, at |-> 0]]
    /\ Leave(c)
    /\ UNCHANGED <<shared, finished, pipes, signals, succeeded>>

-----------------------------------------------------------------------------
(***************************************************************************)
(* has_running: drain the pipe, handling each signal.                      *)
(***************************************************************************)
Readable(p) == p # 0 /\ signals[p] # <<>>

\* Nobody is left, or will come, to write to the pipe.
AtEnd(p) ==
    /\ p # 0
    /\ signals[p] = <<>>
    /\ \/ child[p].state \in {"ended", "dead"}
       \/ child[p].state = "none" /\ \A c \in Callers : ~(Starting(c) /\ mine[c] = p)

PollBegin(c) ==
    /\ running_task # 0
    /\ Begin(c, "poll")
    /\ UNCHANGED <<shared, finished, pipes, signals, child, mine, received,
                   succeeded>>

\* The while test: nothing to read (or no pipe), and has_running returns.
PollEnds(c) ==
    /\ pc[c] = "poll"
    /\ ~Readable(receive_conn) /\ ~AtEnd(receive_conn)
    /\ Leave(c)
    /\ UNCHANGED <<shared, finished, pipes, signals, child, succeeded>>

\* poll is also true at the end of file.
PollSees(c) ==
    /\ pc[c] = "poll"
    /\ Readable(receive_conn) \/ AtEnd(receive_conn)
    /\ Goto(c, "recv")
    /\ UNCHANGED <<shared, finished, pipes, signals, child, mine, received,
                   succeeded>>

\* The pipe a receiver reads: receive_conn is read again, and once the call
\* waits it keeps to the pipe it found.
ReadEnd(c) == IF pc[c] = "blocked" THEN mine[c] ELSE receive_conn

Receive(c) ==
    /\ pc[c] \in {"recv", "blocked"}
    /\ Readable(ReadEnd(c))
    /\ received' = [received EXCEPT ![c] = Head(signals[ReadEnd(c)])]
    /\ signals' = [signals EXCEPT ![ReadEnd(c)] = Tail(@)]
    /\ mine' = [mine EXCEPT ![c] = 0]
    /\ Goto(c, "handle")
    /\ UNCHANGED <<shared, finished, pipes, child, succeeded>>

\* Another caller took the signal that poll saw.
ReceiveBlocks(c) ==
    /\ pc[c] = "recv"
    /\ receive_conn # 0
    /\ ~Readable(receive_conn) /\ ~AtEnd(receive_conn)
    /\ mine' = [mine EXCEPT ![c] = receive_conn]
    /\ Goto(c, "blocked")
    /\ UNCHANGED <<shared, finished, pipes, signals, child, received, succeeded>>

\* The end of file, a pipe another caller took away, or one closed under the
\* reader, raises out of has_running; what it would have answered is still
\* "running".
ReceiveRaises(c) ==
    /\ pc[c] \in {"recv", "blocked"}
    /\ \/ ReadEnd(c) = 0
       \/ AtEnd(ReadEnd(c))
       \/ Readable(ReadEnd(c)) /\ ReadEnd(c) # receive_conn
    /\ Leave(c)
    /\ UNCHANGED <<shared, finished, pipes, signals, child, succeeded>>

\* set_finished on the task held now; with none held it raises.
HandleWip(c) ==
    /\ pc[c] = "handle"
    /\ received[c].sig = "WIP"
    /\ finished' = IF running_task = 0 THEN finished
                   ELSE [finished EXCEPT ![running_task] = @ \cup {received[c].of}]
    /\ Goto(c, IF running_task = 0 THEN "idle" ELSE "poll")
    /\ received' = [received EXCEPT ![c] = NoSignal]
    /\ UNCHANGED <<shared, pipes, signals, child, mine, succeeded>>

\* Mutant: only the pipe is given up.
HandleSuccessKeepsTask(c) ==
    /\ pc[c] = "handle"
    /\ received[c] = SUCCESS
    /\ Goto(c, "drop")
    /\ received' = [received EXCEPT ![c] = NoSignal]
    /\ UNCHANGED <<shared, finished, pipes, signals, child, mine, succeeded>>

HandleSuccess(c) ==
    /\ pc[c] = "handle"
    /\ received[c] = SUCCESS
    /\ running_task' = 0
    /\ succeeded' = succeeded \cup ({running_task} \ {0})
    /\ Goto(c, "drop")
    /\ received' = [received EXCEPT ![c] = NoSignal]
    /\ UNCHANGED <<receive_conn, latest_error, finished, pipes, signals, child,
                   mine>>

DropPipe(c) ==
    /\ pc[c] = "drop"
    /\ receive_conn' = 0
    /\ Goto(c, "poll")
    /\ UNCHANGED <<running_task, latest_error, finished, pipes, signals, child,
                   mine, received, succeeded>>

StartClear == IF running_task # 0 THEN "kill" ELSE "close"

HandleError(c) ==
    /\ pc[c] = "handle"
    /\ received[c].sig = "ERROR"
    /\ latest_error' = received[c].of
    /\ Goto(c, StartClear)
    /\ UNCHANGED <<running_task, receive_conn, finished, pipes, signals, child,
                   mine, received, succeeded>>

-----------------------------------------------------------------------------
(***************************************************************************)
(* stop_running, and _clear_running_task, which handling an ERROR shares.  *)
(***************************************************************************)
StopBegin(c) ==
    /\ Begin(c, StartClear)
    /\ UNCHANGED <<shared, finished, pipes, signals, child, mine, received,
                   succeeded>>

Killed(p) == IF Alive(p) THEN [child[p] EXCEPT !.state = "dead"] ELSE child[p]

\* kill_proc_tree: every child of the process, whoever started it.
Kill(c) ==
    /\ pc[c] = "kill"
    /\ running_task # 0
    /\ child' = [p \in Runs |-> Killed(p)]
    /\ Goto(c, "forget")
    /\ UNCHANGED <<shared, finished, pipes, signals, mine, received, succeeded>>

\* Another caller let go of the task whose runners this one stops first.
KillRaises(c) ==
    /\ pc[c] = "kill"
    /\ running_task = 0
    /\ Leave(c)
    /\ UNCHANGED <<shared, finished, pipes, signals, child, succeeded>>

Forget(c) ==
    /\ pc[c] = "forget"
    /\ running_task' = 0
    /\ Goto(c, "close")
    /\ UNCHANGED <<receive_conn, latest_error, finished, pipes, signals, child,
                   mine, received, succeeded>>

\* Back in _try_get_signal if an ERROR brought us here.
Close(c) ==
    /\ pc[c] = "close"
    /\ receive_conn' = 0
    /\ Goto(c, IF received[c].sig = "ERROR" THEN "poll" ELSE "idle")
    /\ received' = [received EXCEPT ![c] = NoSignal]
    /\ UNCHANGED <<running_task, latest_error, finished, pipes, signals, child,
                   mine, succeeded>>

-----------------------------------------------------------------------------
(***************************************************************************)
(* The child: one WIP per case, whatever became of it, then one final      *)
(* signal.  It holds a copy of both ends of the pipe (it is sent the       *)
(* runner itself), so that it goes on sending whatever the parent closes.  *)
(***************************************************************************)
Send(p, s, state, at) ==
    /\ signals' = [signals EXCEPT ![p] = Append(@, s)]
    /\ child' = [child EXCEPT ![p] =
                     [state |-> state, task |-> child[p].task, at |-> at]]
    /\ UNCHANGED <<shared, finished, pipes, callers, succeeded>>

\* Mutant: the WIP is sent before the case has run.
ChildAnnounces(p) ==
    /\ child[p].state = "alive"
    /\ child[p].at < NumCases
    /\ Send(p, WIP(child[p].at + 1), "alive",
            IF child[p].at = 0 /\ signals[p] = <<>> THEN 0 ELSE child[p].at + 1)

ChildCase(p) ==
    /\ child[p].state = "alive"
    /\ child[p].at < NumCases
    /\ Send(p, WIP(child[p].at + 1), "alive", child[p].at + 1)

\* Mutant: success once any case is through.
ChildSucceedsEarly(p) ==
    /\ child[p].state = "alive"
    /\ child[p].at > 0
    /\ Send(p, SUCCESS, "ended", child[p].at)

ChildSucceeds(p) ==
    /\ child[p].state = "alive"
    /\ child[p].at = NumCases
    /\ Send(p, SUCCESS, "ended", child[p].at)

\* The flush fails, or what precedes or follows a case does; the message names
\* the run.
ChildErrs(p) ==
    /\ child[p].state = "alive"
    /\ Send(p, ERROR(child[p].task), "ended", child[p].at)

\* Killed by the system or interrupted at the terminal; or a case waits for ever.
ChildStops(p) ==
    /\ CanStop
    /\ child[p].state = "alive"
    /\ \E how \in {"dead", "hung"} : child' = [child EXCEPT ![p].state = how]
    /\ UNCHANGED <<shared, finished, pipes, signals, callers, succeeded>>

-----------------------------------------------------------------------------
Run(c) == RunRefused(c) \/ RunAccepted(c) \/ OpenPipe(c) \/ AssembleTask(c)
          \/ AssembleFails(c) \/ Submit(c)

Reading(c) == PollEnds(c) \/ PollSees(c) \/ Receive(c) \/ ReceiveBlocks(c)
              \/ ReceiveRaises(c)

Handling(c) == HandleWip(c) \/ HandleSuccess(c) \/ DropPipe(c) \/ HandleError(c)

StopRunning(c) == StopBegin(c) \/ Kill(c) \/ KillRaises(c) \/ Forget(c) \/ Close(c)

Caller(c) == Run(c) \/ PollBegin(c) \/ Reading(c) \/ Handling(c) \/ StopRunning(c)

Child(p) == ChildCase(p) \/ ChildSucceeds(p) \/ ChildErrs(p)

\* A step of anyone, and the overlap it makes.
Noted(step) == step /\ races' = races \cup Overlaps'

Next ==
    \/ \E c \in Callers : Noted(Caller(c))
    \/ \E p \in Runs : Noted(Child(p) \/ ChildStops(p))

Spec == Init /\ [][Next]_vars

\* A child that neither died nor hangs goes on; a caller that began an operation
\* goes on with it; and some caller keeps polling, as the command line and the
\* page do.
Ongoing(c) ==
    \/ OpenPipe(c) \/ AssembleTask(c) \/ AssembleFails(c) \/ Submit(c)
    \/ Reading(c) \/ Handling(c)
    \/ Kill(c) \/ KillRaises(c) \/ Forget(c) \/ Close(c)

Fairness ==
    /\ \A p \in Runs : WF_vars(Noted(Child(p)))
    /\ \A c \in Callers : WF_vars(Noted(Ongoing(c)))
    /\ WF_vars(\E c \in Callers : Noted(PollBegin(c)))

FairSpec == Spec /\ Fairness

-----------------------------------------------------------------------------
(***************************************************************************)
(* Properties                                                              *)
(***************************************************************************)

\* Types of the shared fields, the pipes and the callers' positions.
TypeOK ==
    /\ running_task \in 0..pipes
    /\ receive_conn \in 0..pipes
    /\ latest_error \in 0..MaxRuns
    /\ finished \in [Runs -> SUBSET Cases]
    /\ pipes \in 0..MaxRuns
    /\ signals \in [Runs -> Seq(Signals)]
    /\ child \in [Runs -> [state: ChildStates, task: 0..pipes, at: 0..NumCases]]
    /\ pc \in [Callers -> PCs]
    /\ mine \in [Callers -> 0..pipes]
    /\ received \in [Callers -> Signals \cup {NoSignal}]
    /\ succeeded \subseteq 1..pipes
    /\ races \subseteq {"start", "report"}

\* Two benchmarks never run at once, and a process that holds no task has no
\* benchmark at work: whatever ended the run, and whichever callers polled or
\* stopped it meanwhile, its child is gone (interface.py 66-68, 240-250).  Only
\* a run that starts while another caller starts or settles one breaks it.
ChildBelongsToTask ==
    "start" \notin races =>
        /\ \A p, q \in Runs : Alive(p) /\ Alive(q) => p = q
        /\ running_task = 0 => \A p \in Runs : ~Alive(p)

\* The cases shown as finished are, of that very run, the first few, and
\* its child has been through them (interface.py 122-123, 216).
ProgressIsHonest ==
    \A r \in Runs : \E n \in 0..child[r].at : finished[r] = 1..n

\* A run that is taken as successful went through every case, and the
\* parent has seen them all finished: no signal overtook another.
SuccessSawEveryCase ==
    \A r \in succeeded : finished[r] = Cases /\ child[r].at = NumCases

\* The error shown is of the run accepted last, never of one before it
\* (interface.py 65, 82, 115).
ErrorIsOfLastRun == latest_error \in {0, pipes}

\* What a caller is shown of a run, its progress, its success and its error,
\* is that run's, for any number of callers that poll and stop, as long as no
\* two of them handle signals at once and none starts a run meanwhile.
ReportsAreTrue ==
    /\ races = {} => ProgressIsHonest /\ SuccessSawEveryCase
    /\ "start" \notin races => ErrorIsOfLastRun

\* A held run is listened to: has_running polls its pipe, and the child that
\* writes there works on it and no other, or is about to be made
\* (interface.py 81, 119-121, 250-254).  What one caller clears is never what
\* another started, but for a start that overlaps the clearing.
HeldRunIsHeard ==
    "start" \notin races /\ running_task # 0 =>
        /\ receive_conn = running_task
        /\ \/ child[running_task].task = running_task
           \/ \E c \in Callers : pc[c] = "submit" /\ mine[c] = running_task

Verdict(r) ==
    IF r \in succeeded THEN "success"
    ELSE IF child[r].task # 0 /\ running_task # r THEN "failed" ELSE "running"

Seen(r) == INSTANCE RunPromise WITH
               cases <- NumCases, done <- Cardinality(finished[r]),
               verdict <- Verdict(r)

\* What the callers see of each run is a run that keeps its promise, up to the
\* first harmful overlap: its progress goes up by one, and it succeeds only
\* after its last case.
SeenRunsKeepPromise ==
    /\ \A r \in Runs : Seen(r)!Init
    /\ [][races' = {} => \A r \in Runs : [Seen(r)!Next]_(Seen(r)!vars)]_vars

\* A run whose child ends with a signal does not stay running: the signal
\* reaches a caller that polls, whatever the callers start, stop or take from
\* each other meanwhile.  A child that dies or hangs sends none, and the run
\* stays; so it may once a run was started across another's start or end.
EndsUnlessChildStops ==
    \A r \in Runs :
        running_task = r ~> \/ running_task # r
                            \/ child[r].state \in {"dead", "hung"}
                            \/ "start" \in races
=============================================================================
