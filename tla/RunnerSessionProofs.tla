------------------------ MODULE RunnerSessionProofs ------------------------
(***************************************************************************)
(* Proofs about RunnerSession for any number of callers, cases and runs,   *)
(* with children that fail, die or hang at any point.  What is proved of   *)
(* the callers' overlaps is where they do no harm: everything but a run    *)
(* that starts while another caller starts or settles one and, for the     *)
(* order of progress, two callers that handle signals at once.             *)
(***************************************************************************)
EXTENDS RunnerSession, FiniteSetTheorems, TLAPS

USE NumCasesAssumption, MaxRunsAssumption, CanStopAssumption

-----------------------------------------------------------------------------
(* The inductive invariant                                                 *)

\* The pipe polled, the task held and the error shown are the last made, or none.
HeldInv ==
    /\ receive_conn \in {0, pipes}
    /\ running_task # 0 => running_task = pipes /\ receive_conn = pipes
    /\ latest_error \in {0, pipes}

\* Where a caller is tells which of them there are, and what is in its hands is
\* of the last pipe.
CallerInv(c) ==
    /\ pc[c] \in {"assemble", "submit"}
           => pipes # 0 /\ mine[c] = pipes /\ receive_conn = pipes
              /\ child[pipes] = NoChild
    /\ pc[c] \in {"accepted", "assemble", "drop", "close"} => running_task = 0
    /\ pc[c] = "submit" => running_task # 0
    /\ pc[c] = "blocked" => mine[c] = pipes /\ pipes # 0
    /\ pc[c] = "forget" => \A p \in Runs : ~Alive(p)
    /\ pc[c] = "handle" => received[c] # NoSignal
    /\ pc[c] = "handle" /\ received[c] = SUCCESS => \A p \in Runs : ~Alive(p)
    /\ pc[c] = "handle" /\ received[c].sig = "ERROR" => received[c].of = pipes

\* A child works on the task of its own pipe, and only the held one's is at work;
\* what is in a pipe its child sent, and the last of it when it had ended.
ChildInv(p) ==
    /\ Alive(p) => p = running_task
    /\ child[p].state = "none" => child[p] = NoChild /\ signals[p] = <<>>
    /\ child[p].state # "none" => child[p].task = p
    /\ p > pipes => child[p].state = "none"
    /\ \A i \in 1..Len(signals[p]) :
           /\ signals[p][i] = SUCCESS => ~Alive(p)
           /\ signals[p][i].sig = "ERROR" => signals[p][i].of = p

\* The task held has its child, or a caller is about to make it.
HeldHasChild ==
    running_task # 0 =>
        \/ child[running_task].state # "none"
        \/ \E c \in Callers : pc[c] = "submit" /\ mine[c] = running_task

CoreInv ==
    /\ HeldInv
    /\ HeldHasChild
    /\ \A c \in Callers : CallerInv(c)
    /\ \A p \in Runs : ChildInv(p)
    /\ ~StartsOverlap

\* The signals s, once n cases are received of a child that has been through the
\* first at: the next cases, then what it ended with.
InOrder(s, n, at, state, r) ==
    /\ n <= at /\ at <= n + Len(s) /\ n + Len(s) <= at + 1
    /\ n + Len(s) = at + 1 => state = "ended"
    /\ \A i \in 1..Len(s) :
           /\ n + i <= at => s[i] = WIP(n + i)
           /\ n + i = at + 1 => /\ s[i] \in {SUCCESS, ERROR(r)}
                                /\ s[i] = SUCCESS => at = NumCases

PipeInOrder(r, n) ==
    InOrder(signals[r], n, child[r].at, child[r].state, r)

\* A case received but not yet taken down.
HandHolds == \E c \in Callers : pc[c] = "handle" /\ received[c].sig = "WIP"
InHand == IF HandHolds THEN 1 ELSE 0

\* What a caller has in hand of run r, n cases of which are taken down.
HandInv(c, r, n) ==
    pc[c] = "handle" =>
        /\ received[c] \in {WIP(n + 1), SUCCESS, ERROR(r)}
        /\ received[c] # WIP(n + 1) => child[r].state = "ended"
        /\ received[c] = SUCCESS => n = NumCases

\* What is taken down, in hand and in the pipe of the held run are together what
\* its child sent.
StreamOf(r, n) ==
    /\ finished[r] = 1..n
    /\ n <= child[r].at
    /\ r = running_task => /\ PipeInOrder(r, n + InHand)
                           /\ \A c \in Callers : HandInv(c, r, n)

StreamInv == \A r \in Runs : \E n \in 0..NumCases : StreamOf(r, n)

SucceededInv ==
    \A r \in succeeded :
        /\ finished[r] = Cases
        /\ child[r].at = NumCases
        /\ child[r].state = "ended"

SessionInv ==
    /\ TypeOK
    /\ "start" \notin races => CoreInv
    /\ races = {} => StreamInv /\ SucceededInv /\ ~ReportsOverlap


-----------------------------------------------------------------------------
(* Types                                                                   *)

LEMMA SignalTypes ==
    /\ SUCCESS \in Signals
    /\ \A r \in 0..MaxRuns : ERROR(r) \in Signals
    /\ \A i \in Cases : WIP(i) \in Signals
BY DEF Signals

\* What tells the signals apart.
LEMMA SignalKinds ==
    /\ \A i : WIP(i).sig = "WIP" /\ WIP(i).of = i
    /\ SUCCESS.sig = "SUCCESS" /\ SUCCESS.of = 0
    /\ \A r : ERROR(r).sig = "ERROR" /\ ERROR(r).of = r
    /\ NoSignal.sig = "none"
    /\ "WIP" # "SUCCESS" /\ "WIP" # "ERROR" /\ "SUCCESS" # "ERROR"
    /\ "none" # "WIP" /\ "none" # "ERROR" /\ "none" # "SUCCESS"
BY DEF WIP, SUCCESS, ERROR, NoSignal

LEMMA SignalCases ==
    ASSUME NEW s \in Signals \cup {NoSignal}
    PROVE  /\ s.sig = "WIP" => s.of \in Cases /\ s = WIP(s.of)
           /\ s.sig = "SUCCESS" => s = SUCCESS
           /\ s.sig = "ERROR" => s.of \in 0..MaxRuns /\ s = ERROR(s.of)
           /\ s # NoSignal => s \in Signals
           /\ s \in Signals => s.sig \in {"WIP", "SUCCESS", "ERROR"}
BY SignalKinds DEF Signals

\* A caller's step touches no other caller's position.
Others(c) ==
    \A d \in Callers \ {c} :
        pc'[d] = pc[d] /\ mine'[d] = mine[d] /\ received'[d] = received[d]

\* Leaving an operation.
LEMMA Leaves ==
    ASSUME TypeOK, NEW c \in Callers, Leave(c)
    PROVE  /\ pc'[c] = "idle" /\ mine'[c] = 0 /\ received'[c] = NoSignal
           /\ Others(c)
           /\ pc' \in [Callers -> PCs] /\ mine' \in [Callers -> 0..pipes]
           /\ received' \in [Callers -> Signals \cup {NoSignal}]
BY DEF Leave, Goto, Others, TypeOK, PCs

\* A caller's step within run.
LEMMA RunTypes ==
    ASSUME TypeOK, NEW c \in Callers, Run(c), races' \subseteq {"start", "report"}
    PROVE  TypeOK'
<1>1. CASE RunRefused(c)
  BY <1>1 DEF RunRefused, callers, TypeOK
<1>2. CASE RunAccepted(c)
  BY <1>2 DEF RunAccepted, Begin, Goto, TypeOK, PCs
<1>3. CASE OpenPipe(c)
  <2>1. /\ pipes' = pipes + 1 /\ pipes' \in 1..MaxRuns
        /\ running_task' = running_task /\ latest_error' = 0 /\ receive_conn' = pipes'
    BY <1>3 DEF OpenPipe, TypeOK
  <2>2. /\ mine' = [mine EXCEPT ![c] = pipes']
        /\ pc' = [pc EXCEPT ![c] = "assemble"]
        /\ UNCHANGED <<finished, signals, child, received, succeeded>>
    BY <1>3 DEF OpenPipe, Goto
  <2>3. 0..pipes \subseteq 0..pipes' /\ 1..pipes \subseteq 1..pipes'
    BY <2>1 DEF TypeOK
  <2>4. /\ running_task' \in 0..pipes' /\ receive_conn' \in 0..pipes'
        /\ latest_error' \in 0..MaxRuns /\ pipes' \in 0..MaxRuns
        /\ succeeded' \subseteq 1..pipes'
    BY <2>1, <2>2, <2>3 DEF TypeOK
  <2>5. pc' \in [Callers -> PCs] /\ mine' \in [Callers -> 0..pipes']
    BY <2>1, <2>2, <2>3 DEF TypeOK, PCs
  <2>6. child' \in [Runs -> [state: ChildStates, task: 0..pipes', at: 0..NumCases]]
    BY <2>2, <2>3 DEF TypeOK
  <2>7. QED
    BY <2>2, <2>4, <2>5, <2>6 DEF TypeOK
<1>4. CASE AssembleTask(c)
  BY <1>4 DEF AssembleTask, Goto, TypeOK, PCs
<1>5. CASE AssembleFails(c)
  BY <1>5, Leaves DEF AssembleFails, TypeOK
<1>6. CASE Submit(c)
  <2>1. running_task \in 0..pipes /\ mine[c] \in 0..pipes
    BY DEF TypeOK
  <2>2. [state |-> "alive", task |-> running_task, at |-> 0]
            \in [state: ChildStates, task: 0..pipes, at: 0..NumCases]
    BY <2>1 DEF ChildStates
  <2>3. child' \in [Runs -> [state: ChildStates, task: 0..pipes, at: 0..NumCases]]
    BY <1>6, <2>2 DEF Submit, TypeOK
  <2>4. QED
    BY <1>6, <2>3, Leaves DEF Submit, shared, TypeOK
<1>7. QED
  BY <1>1, <1>2, <1>3, <1>4, <1>5, <1>6 DEF Run

\* A caller's step within has_running.
LEMMA PollTypes ==
    ASSUME TypeOK, NEW c \in Callers, PollBegin(c) \/ Reading(c) \/ Handling(c),
           races' \subseteq {"start", "report"}
    PROVE  TypeOK'
<1>1. CASE PollBegin(c) \/ PollSees(c)
  BY <1>1 DEF PollBegin, PollSees, Begin, Goto, shared, TypeOK, PCs
<1>2. CASE PollEnds(c) \/ ReceiveRaises(c)
  BY <1>2, Leaves DEF PollEnds, ReceiveRaises, shared, TypeOK
<1>3. CASE ReceiveBlocks(c)
  BY <1>3 DEF ReceiveBlocks, Goto, shared, TypeOK, PCs
<1>4. CASE Receive(c)
  <2> DEFINE p == ReadEnd(c)
  <2>0. receive_conn \in 0..MaxRuns /\ mine[c] \in 0..MaxRuns
    BY DEF TypeOK
  <2>1. p \in Runs /\ signals[p] \in Seq(Signals) /\ signals[p] # <<>>
    <3>1. p # 0 /\ signals[p] # <<>>
      BY <1>4 DEF Receive, Readable
    <3>2. p \in 0..MaxRuns
      BY <2>0 DEF ReadEnd
    <3>3. p \in Runs
      BY <3>1, <3>2 DEF Runs
    <3>4. QED
      BY <3>1, <3>3 DEF TypeOK
  <2>2. Head(signals[p]) \in Signals /\ Tail(signals[p]) \in Seq(Signals)
    BY <2>1
  <2>3. received' = [received EXCEPT ![c] = Head(signals[p])]
        /\ signals' = [signals EXCEPT ![p] = Tail(signals[p])]
    BY <1>4 DEF Receive
  <2> HIDE DEF p
  <2>4. signals' \in [Runs -> Seq(Signals)] /\ received' \in [Callers -> Signals \cup {NoSignal}]
    BY <2>1, <2>2, <2>3 DEF TypeOK
  <2>5. pc' \in [Callers -> PCs] /\ mine' \in [Callers -> 0..pipes]
    BY <1>4 DEF Receive, Goto, TypeOK, PCs
  <2>6. QED
    BY <1>4, <2>4, <2>5 DEF Receive, shared, TypeOK
<1>5. CASE HandleWip(c)
  <2>1. received[c].of \in Cases
    BY <1>5, SignalCases DEF HandleWip, TypeOK
  <2>2. finished' \in [Runs -> SUBSET Cases]
    BY <1>5, <2>1 DEF HandleWip, TypeOK, Runs
  <2>3. pc' \in [Callers -> PCs] /\ received' \in [Callers -> Signals \cup {NoSignal}]
    BY <1>5 DEF HandleWip, Goto, TypeOK, PCs
  <2>4. QED
    BY <1>5, <2>2, <2>3 DEF HandleWip, shared, TypeOK
<1>6. CASE HandleSuccess(c)
  BY <1>6 DEF HandleSuccess, Goto, TypeOK, PCs
<1>7. CASE DropPipe(c)
  BY <1>7 DEF DropPipe, Goto, TypeOK, PCs
<1>8. CASE HandleError(c)
  <2>1. received[c].of \in 0..MaxRuns
    BY <1>8, SignalCases DEF HandleError, TypeOK
  <2>2. QED
    BY <1>8, <2>1 DEF HandleError, StartClear, Goto, TypeOK, PCs
<1>9. QED
  BY <1>1, <1>2, <1>3, <1>4, <1>5, <1>6, <1>7, <1>8 DEF Reading, Handling

\* A caller's step within stop_running.
LEMMA StopTypes ==
    ASSUME TypeOK, NEW c \in Callers, StopRunning(c), races' \subseteq {"start", "report"}
    PROVE  TypeOK'
<1>1. CASE StopBegin(c)
  BY <1>1 DEF StopBegin, Begin, StartClear, Goto, shared, TypeOK, PCs
<1>2. CASE Kill(c)
  <2>1. \A p \in Runs : Killed(p) \in [state: ChildStates, task: 0..pipes, at: 0..NumCases]
    BY DEF Killed, TypeOK, ChildStates
  <2>2. child' \in [Runs -> [state: ChildStates, task: 0..pipes, at: 0..NumCases]]
    BY <1>2, <2>1 DEF Kill
  <2>3. QED
    BY <1>2, <2>2 DEF Kill, Goto, shared, TypeOK, PCs
<1>3. CASE KillRaises(c)
  BY <1>3, Leaves DEF KillRaises, shared, TypeOK
<1>4. CASE Forget(c)
  BY <1>4 DEF Forget, Goto, TypeOK, PCs
<1>5. CASE Close(c)
  BY <1>5 DEF Close, Goto, TypeOK, PCs
<1>6. QED
  BY <1>1, <1>2, <1>3, <1>4, <1>5 DEF StopRunning

LEMMA SendTypes ==
    ASSUME TypeOK, NEW p \in Runs, NEW s \in Signals, NEW state \in ChildStates,
           NEW at \in 0..NumCases, Send(p, s, state, at), races' \subseteq {"start", "report"}
    PROVE  TypeOK'
<1>1. child' \in [Runs -> [state: ChildStates, task: 0..pipes, at: 0..NumCases]]
  <2>1. [state |-> state, task |-> child[p].task, at |-> at]
            \in [state: ChildStates, task: 0..pipes, at: 0..NumCases]
    BY DEF TypeOK
  <2>2. QED
    BY <2>1 DEF Send, TypeOK
<1>2. Append(signals[p], s) \in Seq(Signals)
  BY DEF TypeOK
<1>3. signals' \in [Runs -> Seq(Signals)]
  BY <1>2 DEF Send, TypeOK
<1>4. QED
  BY <1>1, <1>3 DEF Send, shared, callers, TypeOK

LEMMA ChildTypes ==
    ASSUME TypeOK, NEW p \in Runs, ChildCase(p) \/ ChildSucceeds(p) \/ ChildErrs(p) \/ ChildStops(p),
           races' \subseteq {"start", "report"}
    PROVE  TypeOK'
<1>1. child[p].at \in 0..NumCases
  BY DEF TypeOK
<1>2. CASE ChildCase(p)
  <2>1. child[p].at + 1 \in Cases /\ WIP(child[p].at + 1) \in Signals
    BY <1>1, <1>2, SignalTypes DEF ChildCase, Cases
  <2>2. QED
    BY <1>1, <1>2, <2>1, SendTypes DEF ChildCase, ChildStates, Cases
<1>3. CASE ChildSucceeds(p)
  BY <1>1, <1>3, SignalTypes, SendTypes DEF ChildSucceeds, ChildStates
<1>4. CASE ChildErrs(p)
  <2>1. child[p].task \in 0..MaxRuns
    BY DEF TypeOK
  <2>2. QED
    BY <1>1, <1>4, <2>1, SignalTypes, SendTypes DEF ChildErrs, ChildStates
<1>5. CASE ChildStops(p)
  <2>1. child' \in [Runs -> [state: ChildStates, task: 0..pipes, at: 0..NumCases]]
    <3>1. PICK how \in {"dead", "hung"} : child' = [child EXCEPT ![p].state = how]
      BY <1>5 DEF ChildStops
    <3>2. [child[p] EXCEPT !.state = how]
              \in [state: ChildStates, task: 0..pipes, at: 0..NumCases]
      BY DEF TypeOK, ChildStates
    <3>3. QED
      BY <3>1, <3>2 DEF TypeOK
  <2>2. QED
    BY <1>5, <2>1 DEF ChildStops, shared, callers, TypeOK
<1>6. QED
  BY <1>2, <1>3, <1>4, <1>5

LEMMA InitTypes == Init => TypeOK
<1> SUFFICES ASSUME Init PROVE TypeOK
  OBVIOUS
<1>1. child \in [Runs -> [state: ChildStates, task: 0..pipes, at: 0..NumCases]]
  BY DEF Init, NoChild, ChildStates
<1>2. QED
  BY <1>1 DEF Init, TypeOK, PCs, Runs

\* What a step notes.
LEMMA NotedRaces ==
    ASSUME TypeOK, races' = races \cup Overlaps'
    PROVE  /\ races' \subseteq {"start", "report"}
           /\ "start" \notin races' => "start" \notin races /\ ~StartsOverlap'
           /\ races' = {} => races = {} /\ ~StartsOverlap' /\ ~ReportsOverlap'
<1>1. /\ Overlaps' \subseteq {"start", "report"}
      /\ StartsOverlap' => "start" \in Overlaps'
      /\ ReportsOverlap' => "report" \in Overlaps'
  BY DEF Overlaps
<1>2. QED
  BY <1>1 DEF TypeOK

LEMMA TypeStep == TypeOK /\ [Next]_vars => TypeOK'
<1> SUFFICES ASSUME TypeOK, [Next]_vars PROVE TypeOK'
  OBVIOUS
<1>1. CASE UNCHANGED vars
  BY <1>1 DEF vars, shared, callers, TypeOK
<1>2. ASSUME NEW c \in Callers, Noted(Caller(c)) PROVE TypeOK'
  <2>1. Caller(c) /\ races' \subseteq {"start", "report"}
    BY <1>2, NotedRaces DEF Noted
  <2>2. QED
    BY <2>1, RunTypes, PollTypes, StopTypes DEF Caller
<1>3. ASSUME NEW p \in Runs, Noted(Child(p) \/ ChildStops(p)) PROVE TypeOK'
  <2>1. (Child(p) \/ ChildStops(p)) /\ races' \subseteq {"start", "report"}
    BY <1>3, NotedRaces DEF Noted
  <2>2. QED
    BY <2>1, ChildTypes DEF Child
<1>4. QED
  BY <1>1, <1>2, <1>3 DEF Next

\* Every reachable state is well typed.
THEOREM TypeCorrect == Spec => []TypeOK
<1>1. QED
  BY InitTypes, TypeStep, PTL DEF Spec


-----------------------------------------------------------------------------
(* Signals in order                                                        *)

\* The first signal of a stream is the next case, or the end after the last one.
LEMMA StreamHead ==
    ASSUME NEW s \in Seq(Signals), s # <<>>, NEW n \in Nat, NEW at \in Nat,
           NEW state, NEW r, InOrder(s, n, at, state, r)
    PROVE  \/ /\ n + 1 <= at /\ Head(s) = WIP(n + 1)
              /\ InOrder(Tail(s), n + 1, at, state, r)
           \/ /\ n = at /\ state = "ended" /\ Head(s) \in {SUCCESS, ERROR(r)}
              /\ Head(s) = SUCCESS => at = NumCases
              /\ InOrder(Tail(s), n, at, state, r)
<1> DEFINE t == Tail(s)
<1>1. /\ Len(s) \in Nat /\ Len(s) >= 1 /\ Len(t) = Len(s) - 1 /\ Head(s) = s[1]
  OBVIOUS
<1>2. \A i \in 1..Len(t) : t[i] = s[i + 1]
  BY <1>1
<1> HIDE DEF t
<1>3. \A i \in 1..Len(t) : i + 1 \in 1..Len(s)
  BY <1>1
<1>4. CASE n + 1 <= at
  <2>1. Head(s) = WIP(n + 1)
    <3>1. 1 \in 1..Len(s)
      BY <1>1
    <3>2. QED
      BY <1>1, <1>4, <3>1 DEF InOrder
  <2>2. ASSUME NEW i \in 1..Len(t)
        PROVE  /\ (n + 1) + i <= at => t[i] = WIP((n + 1) + i)
               /\ (n + 1) + i = at + 1 => /\ t[i] \in {SUCCESS, ERROR(r)}
                                          /\ t[i] = SUCCESS => at = NumCases
    <3>1. i \in Nat /\ n + (i + 1) = (n + 1) + i
      BY <1>1
    <3>2. /\ n + (i + 1) <= at => s[i + 1] = WIP(n + (i + 1))
          /\ n + (i + 1) = at + 1 => /\ s[i + 1] \in {SUCCESS, ERROR(r)}
                                     /\ s[i + 1] = SUCCESS => at = NumCases
      BY <1>3 DEF InOrder
    <3>3. QED
      BY <1>2, <3>1, <3>2
  <2>3. InOrder(t, n + 1, at, state, r)
    BY <1>1, <1>4, <2>2 DEF InOrder
  <2>4. QED
    BY <1>4, <2>1, <2>3 DEF t
<1>5. CASE n = at
  <2>1. Len(s) = 1 /\ state = "ended"
    BY <1>1, <1>5 DEF InOrder
  <2>2. Head(s) \in {SUCCESS, ERROR(r)} /\ (Head(s) = SUCCESS => at = NumCases)
    BY <1>1, <1>5, <2>1 DEF InOrder
  <2>3. InOrder(t, n, at, state, r)
    BY <1>1, <1>5, <2>1 DEF InOrder
  <2>4. QED
    BY <1>5, <2>1, <2>2, <2>3 DEF t
<1>6. QED
  BY <1>4, <1>5 DEF InOrder

\* A child at work may send the next case, or its end.
LEMMA StreamAppend ==
    ASSUME NEW s \in Seq(Signals), NEW n \in Nat, NEW at \in Nat,
           NEW state, NEW r, state # "ended", InOrder(s, n, at, state, r), NEW x \in Signals
    PROVE  /\ x = WIP(at + 1) => InOrder(Append(s, x), n, at + 1, state, r)
           /\ x \in {SUCCESS, ERROR(r)} /\ (x = SUCCESS => at = NumCases)
                  => InOrder(Append(s, x), n, at, "ended", r)
<1> DEFINE t == Append(s, x)
<1>1. Len(s) \in Nat /\ Len(t) = Len(s) + 1 /\ t[Len(s) + 1] = x
  OBVIOUS
<1>2. \A i \in 1..Len(s) : t[i] = s[i]
  OBVIOUS
<1> HIDE DEF t
<1>3. n + Len(s) = at
  BY <1>1 DEF InOrder
<1>4. \A i \in 1..Len(s) : n + i <= at /\ t[i] = WIP(n + i)
  BY <1>1, <1>2, <1>3 DEF InOrder
<1>5. ASSUME x = WIP(at + 1) PROVE InOrder(t, n, at + 1, state, r)
  <2>1. \A i \in 1..Len(t) : n + i <= at + 1 /\ t[i] = WIP(n + i)
    BY <1>1, <1>3, <1>4, <1>5
  <2>2. QED
    BY <1>1, <1>3, <2>1 DEF InOrder
<1>6. ASSUME x \in {SUCCESS, ERROR(r)}, x = SUCCESS => at = NumCases
      PROVE  InOrder(t, n, at, "ended", r)
  <2>1. \A i \in 1..Len(t) : i \in 1..Len(s) \/ (i = Len(s) + 1 /\ t[i] = x)
    BY <1>1
  <2>2. \A i \in 1..Len(t) : n + i = at + 1 => i = Len(s) + 1
    BY <1>1, <1>3
  <2>3. \A i \in 1..Len(t) : n + i <= at => i \in 1..Len(s)
    BY <1>1, <1>3
  <2>4. QED
    BY <1>1, <1>3, <1>4, <1>6, <2>1, <2>2, <2>3 DEF InOrder
<1>7. QED
  BY <1>5, <1>6 DEF t


-----------------------------------------------------------------------------
(* What is held, and by whom                                               *)

\* A caller that starts a run is alone in starting or settling one.
LEMMA StartsAlone ==
    ASSUME ~StartsOverlap, NEW c \in Callers, NEW d \in Callers, c # d, Starting(c)
    PROVE  ~Starting(d) /\ ~Settling(d)
BY DEF StartsOverlap

LEMMA StartsAloneNext ==
    ASSUME ~StartsOverlap', NEW c \in Callers, NEW d \in Callers, c # d, Starting(c)'
    PROVE  ~Starting(d)' /\ ~Settling(d)'
BY DEF StartsOverlap

\* The last pipe is the one a caller reads.
LEMMA ReadsLastPipe ==
    ASSUME TypeOK, CoreInv, NEW c \in Callers, pc[c] \in {"recv", "blocked"}, ReadEnd(c) # 0
    PROVE  ReadEnd(c) = pipes /\ pipes \in Runs
BY DEF CoreInv, HeldInv, CallerInv, ReadEnd, TypeOK, Runs

\* A caller goes on, and nothing it shares changes but the error shown.
LEMMA CoreMoves ==
    ASSUME TypeOK, CoreInv, NEW c \in Callers, Others(c), pc[c] # "submit",
           UNCHANGED <<running_task, receive_conn, pipes, signals, child>>,
           latest_error' \in {0, pipes}, CallerInv(c)', ~StartsOverlap'
    PROVE  CoreInv'
<1>1. HeldInv'
  BY DEF CoreInv, HeldInv
<1>2. HeldHasChild'
  <2>1. \A d \in Callers : pc[d] = "submit" => d # c
    OBVIOUS
  <2>2. QED
    BY <2>1 DEF CoreInv, HeldHasChild, Others
<1>3. ASSUME NEW d \in Callers, d # c PROVE CallerInv(d)'
  <2>1. pc'[d] = pc[d] /\ mine'[d] = mine[d] /\ received'[d] = received[d] /\ CallerInv(d)
    BY <1>3 DEF Others, CoreInv
  <2>2. QED
    BY <2>1 DEF CallerInv, Alive
<1>4. \A p \in Runs : ChildInv(p)'
  BY DEF CoreInv, ChildInv, Alive
<1>5. QED
  BY <1>1, <1>2, <1>3, <1>4 DEF CoreInv

\* The task is let go, or is none: no child works.
LEMMA CoreLets ==
    ASSUME TypeOK, CoreInv, NEW c \in Callers, Others(c), Settling(c),
           running_task' = 0, receive_conn' \in {0, receive_conn},
           UNCHANGED <<latest_error, pipes, signals, child>>,
           \A p \in Runs : ~Alive(p), CallerInv(c)', ~StartsOverlap'
    PROVE  CoreInv'
<1>1. HeldInv' /\ HeldHasChild'
  BY DEF CoreInv, HeldInv, HeldHasChild
<1>2. ASSUME NEW d \in Callers, d # c PROVE CallerInv(d)'
  <2>1. pc'[d] = pc[d] /\ mine'[d] = mine[d] /\ received'[d] = received[d] /\ CallerInv(d)
    BY <1>2 DEF Others, CoreInv
  <2>2. ~Starting(d)
    BY <1>2, StartsAlone DEF CoreInv
  <2>3. QED
    BY <2>1, <2>2 DEF CallerInv, Alive, Starting
<1>3. \A p \in Runs : ChildInv(p)'
  BY DEF CoreInv, ChildInv, Alive
<1>4. QED
  BY <1>1, <1>2, <1>3 DEF CoreInv

LEMMA CoreRun ==
    ASSUME TypeOK, CoreInv, NEW c \in Callers, Run(c), ~StartsOverlap'
    PROVE  CoreInv'
<1>0. CallerInv(c) /\ HeldInv
  BY DEF CoreInv
<1>1. CASE RunRefused(c)
  <2>1. CallerInv(c)'
    BY <1>0, <1>1 DEF RunRefused, callers, CallerInv, Alive
  <2>2. Others(c)
    BY <1>1 DEF RunRefused, callers, Others
  <2>3. QED
    BY <1>1, <2>1, <2>2, CoreMoves DEF RunRefused
<1>2. CASE RunAccepted(c)
  <2>1. CallerInv(c)' /\ Others(c)
    BY <1>2 DEF RunAccepted, Begin, Goto, CallerInv, Others, TypeOK
  <2>2. QED
    BY <1>2, <2>1, CoreMoves DEF RunAccepted, Begin
<1>3. CASE AssembleFails(c)
  <2>1. CallerInv(c)' /\ Others(c)
    BY <1>3, Leaves DEF AssembleFails, CallerInv
  <2>2. latest_error' \in {0, pipes} /\ pc[c] # "submit"
    BY <1>0, <1>3 DEF AssembleFails, CallerInv, HeldInv
  <2>3. QED
    BY <1>3, <2>1, <2>2, CoreMoves DEF AssembleFails
<1>4. CASE OpenPipe(c)
  <2>1. /\ pc[c] = "accepted" /\ pc'[c] = "assemble" /\ mine'[c] = pipes'
        /\ pipes \in Nat /\ pipes' = pipes + 1 /\ pipes' \in Runs /\ receive_conn' = pipes'
        /\ running_task = 0 /\ latest_error' = 0 /\ Others(c)
        /\ UNCHANGED <<running_task, signals, child>>
    BY <1>0, <1>4 DEF OpenPipe, Goto, Others, CallerInv, TypeOK, Runs
  <2>2. child[pipes'] = NoChild
    BY <2>1 DEF CoreInv, ChildInv
  <2>3. HeldInv' /\ HeldHasChild' /\ CallerInv(c)'
    BY <2>1, <2>2 DEF HeldInv, HeldHasChild, CallerInv
  <2>4. ASSUME NEW d \in Callers, d # c PROVE CallerInv(d)'
    <3>1. pc'[d] = pc[d] /\ mine'[d] = mine[d] /\ received'[d] = received[d] /\ CallerInv(d)
      BY <2>1, <2>4 DEF Others, CoreInv
    <3>2. ~Starting(d)' /\ ~Settling(d)'
      BY <2>1, <2>4, StartsAloneNext DEF Starting
    <3>3. pc[d] # "blocked"
      BY <2>1, <3>1, <3>2 DEF Settling, CallerInv
    <3>4. pc[d] \notin {"accepted", "assemble", "submit", "handle", "drop", "kill", "forget", "close"}
      BY <3>1, <3>2 DEF Settling, Starting
    <3>5. QED
      BY <3>1, <3>3, <3>4 DEF CallerInv
  <2>5. \A p \in Runs : ChildInv(p)'
    BY <2>1 DEF CoreInv, ChildInv, Alive, Runs
  <2>6. QED
    BY <2>3, <2>4, <2>5 DEF CoreInv
<1>5. CASE AssembleTask(c)
  <2>1. /\ pc[c] = "assemble" /\ pc'[c] = "submit" /\ mine'[c] = pipes /\ pipes # 0
        /\ running_task = 0 /\ running_task' = pipes /\ receive_conn = pipes
        /\ child[pipes] = NoChild /\ Others(c)
        /\ UNCHANGED <<receive_conn, latest_error, pipes, signals, child>>
    BY <1>0, <1>5 DEF AssembleTask, Goto, Others, CallerInv, TypeOK
  <2>2. HeldInv' /\ HeldHasChild' /\ CallerInv(c)'
    BY <1>0, <2>1 DEF HeldInv, HeldHasChild, CallerInv
  <2>3. ASSUME NEW d \in Callers, d # c PROVE CallerInv(d)'
    <3>1. pc'[d] = pc[d] /\ mine'[d] = mine[d] /\ received'[d] = received[d] /\ CallerInv(d)
      BY <2>1, <2>3 DEF Others, CoreInv
    <3>2. ~Starting(d) /\ ~Settling(d)
      BY <2>1, <2>3, StartsAlone DEF Starting, CoreInv
    <3>3. QED
      BY <2>1, <3>1, <3>2 DEF CallerInv, Alive, Starting, Settling
  <2>4. \A p \in Runs : ChildInv(p)'
    BY <2>1 DEF CoreInv, ChildInv, Alive, Runs
  <2>5. QED
    BY <2>2, <2>3, <2>4 DEF CoreInv
<1>6. CASE Submit(c)
  <2>1. /\ pc[c] = "submit" /\ pc'[c] = "idle" /\ Others(c)
        /\ pipes \in Runs /\ running_task = pipes /\ mine[c] = pipes
        /\ child[pipes] = NoChild
        /\ UNCHANGED <<running_task, receive_conn, latest_error, pipes, signals>>
    <3>1. /\ pc[c] = "submit" /\ pc'[c] = "idle" /\ Others(c)
          /\ UNCHANGED <<shared, pipes, signals>>
      BY <1>6, Leaves DEF Submit
    <3>2. /\ pipes # 0 /\ running_task = pipes /\ mine[c] = pipes /\ child[pipes] = NoChild
      BY <1>0, <3>1 DEF CallerInv, HeldInv
    <3>3. pipes \in Runs
      BY <3>2 DEF TypeOK, Runs
    <3>4. QED
      BY <3>1, <3>2, <3>3 DEF shared
  <2>2. child' = [child EXCEPT ![pipes] = [state |-> "alive", task |-> pipes, at |-> 0]]
    BY <1>6, <2>1 DEF Submit, Runs
  <2>3. \A p \in Runs :
            child'[p] = IF p = pipes THEN [state |-> "alive", task |-> pipes, at |-> 0]
                                     ELSE child[p]
    BY <2>2 DEF TypeOK
  <2>4. signals[pipes] = <<>> /\ Len(signals[pipes]) = 0
    BY <2>1 DEF CoreInv, ChildInv, NoChild
  <2>5. HeldInv' /\ HeldHasChild' /\ CallerInv(c)'
    BY <1>0, <2>1, <2>3 DEF HeldInv, HeldHasChild, CallerInv
  <2>6. ASSUME NEW d \in Callers, d # c PROVE CallerInv(d)'
    <3>1. pc'[d] = pc[d] /\ mine'[d] = mine[d] /\ received'[d] = received[d] /\ CallerInv(d)
      BY <2>1, <2>6 DEF Others, CoreInv
    <3>2. ~Starting(d) /\ ~Settling(d)
      BY <2>1, <2>6, StartsAlone DEF Starting, CoreInv
    <3>3. QED
      BY <2>1, <3>1, <3>2 DEF CallerInv, Starting, Settling
  <2>7. ASSUME NEW p \in Runs PROVE ChildInv(p)'
    <3>1. CASE p = pipes
      <4>1. child'[p].task = p /\ child'[p].state = "alive" /\ signals'[p] = <<>>
            /\ Len(signals'[p]) = 0 /\ running_task' = p /\ pipes' = p /\ p \in Nat
        BY <2>1, <2>3, <2>4, <3>1 DEF Runs
      <4>2. QED
        BY <4>1 DEF ChildInv, Alive
    <3>2. CASE p # pipes
      BY <2>1, <2>3, <3>2 DEF CoreInv, ChildInv, Alive
    <3>3. QED
      BY <3>1, <3>2
  <2>8. QED
    BY <2>5, <2>6, <2>7 DEF CoreInv
<1>7. QED
  BY <1>1, <1>2, <1>3, <1>4, <1>5, <1>6 DEF Run

LEMMA CoreReading ==
    ASSUME TypeOK, TypeOK', CoreInv, NEW c \in Callers, PollBegin(c) \/ Reading(c), ~StartsOverlap'
    PROVE  CoreInv'
<1>0. CallerInv(c) /\ HeldInv
  BY DEF CoreInv
<1>1. CASE PollBegin(c) \/ PollEnds(c) \/ PollSees(c) \/ ReceiveRaises(c)
  <2>1. pc[c] # "submit" /\ pc'[c] \in {"idle", "poll", "recv"} /\ Others(c)
        /\ UNCHANGED <<shared, pipes, signals, child>>
    BY <1>1, Leaves DEF PollBegin, PollEnds, PollSees, ReceiveRaises, Begin, Goto, Others, TypeOK
  <2>2. CallerInv(c)'
    BY <2>1 DEF CallerInv
  <2>3. QED
    BY <1>0, <2>1, <2>2, CoreMoves DEF shared, HeldInv
<1>2. CASE ReceiveBlocks(c)
  <2>1. pc[c] = "recv" /\ pc'[c] = "blocked" /\ mine'[c] = receive_conn /\ receive_conn # 0
        /\ Others(c) /\ UNCHANGED <<shared, pipes, signals, child>>
    BY <1>2 DEF ReceiveBlocks, Goto, Others, TypeOK
  <2>2. CallerInv(c)'
    BY <1>0, <2>1 DEF CallerInv, HeldInv
  <2>3. QED
    BY <1>0, <2>1, <2>2, CoreMoves DEF shared, HeldInv
<1>3. CASE Receive(c)
  <2> DEFINE s == signals[pipes]
  <2>1. pc[c] \in {"recv", "blocked"} /\ ReadEnd(c) # 0 /\ signals[ReadEnd(c)] # <<>>
    BY <1>3 DEF Receive, Readable
  <2>2. ReadEnd(c) = pipes /\ pipes \in Runs
    BY <2>1, ReadsLastPipe
  <2>3. s # <<>> /\ s \in Seq(Signals)
    BY <2>1, <2>2 DEF TypeOK
  <2>4. /\ pc'[c] = "handle" /\ received'[c] = Head(s) /\ Others(c)
        /\ signals' = [signals EXCEPT ![pipes] = Tail(s)]
        /\ UNCHANGED <<shared, pipes, child>>
    BY <1>3, <2>2 DEF Receive, Goto, Others, TypeOK
  <2>5. \A p \in Runs : signals'[p] = IF p = pipes THEN Tail(s) ELSE signals[p]
    BY <2>4 DEF TypeOK
  <2>6. /\ Len(s) \in Nat /\ Len(s) >= 1 /\ Len(Tail(s)) = Len(s) - 1 /\ Head(s) = s[1]
        /\ Head(s) \in Signals /\ \A i \in 1..Len(Tail(s)) : Tail(s)[i] = s[i + 1]
    BY <2>3
  <2> HIDE DEF s
  <2>7. ChildInv(pipes) /\ child[pipes].state # "none"
    <3>1. ChildInv(pipes)
      BY <2>2 DEF CoreInv
    <3>2. QED
      BY <2>3, <3>1 DEF ChildInv, s
  <2>8. /\ s[1] = SUCCESS => ~Alive(pipes)
        /\ s[1].sig = "ERROR" => s[1].of = pipes
    BY <2>6, <2>7 DEF ChildInv, s
  <2>9. \A p \in Runs : Alive(p) => p = pipes
    BY <1>0 DEF CoreInv, ChildInv, HeldInv, Runs
  <2>10. CallerInv(c)'
    <3>1. received'[c] # NoSignal
      BY <2>4, <2>6, SignalCases, SignalKinds
    <3>2. received'[c] = SUCCESS => \A p \in Runs : ~Alive(p)'
      BY <2>4, <2>6, <2>8, <2>9 DEF Alive
    <3>3. received'[c].sig = "ERROR" => received'[c].of = pipes'
      BY <2>4, <2>6, <2>8
    <3>4. QED
      BY <2>4, <3>1, <3>2, <3>3 DEF CallerInv
  <2>11. HeldInv' /\ HeldHasChild'
    <3>1. running_task # 0 => child[running_task].state # "none"
      BY <1>0, <2>7 DEF HeldInv
    <3>2. QED
      BY <1>0, <2>4, <3>1 DEF HeldInv, HeldHasChild, shared
  <2>12. ASSUME NEW d \in Callers, d # c PROVE CallerInv(d)'
    <3>1. pc'[d] = pc[d] /\ mine'[d] = mine[d] /\ received'[d] = received[d] /\ CallerInv(d)
      BY <2>4, <2>12 DEF Others, CoreInv
    <3>2. QED
      BY <2>4, <3>1 DEF CallerInv, Alive, shared
  <2>13. ASSUME NEW p \in Runs PROVE ChildInv(p)'
    <3>0. ChildInv(p)
      BY DEF CoreInv
    <3>1. CASE p = pipes
      <4>1. signals'[p] = Tail(s)
        BY <2>5, <3>1
      <4>2. ASSUME NEW i \in 1..Len(Tail(s))
            PROVE  /\ Tail(s)[i] = SUCCESS => ~Alive(p)
                   /\ Tail(s)[i].sig = "ERROR" => Tail(s)[i].of = p
        <5>1. i + 1 \in 1..Len(s) /\ Tail(s)[i] = s[i + 1]
          BY <2>6
        <5>2. QED
          BY <2>7, <3>1, <5>1 DEF ChildInv, s
      <4>3. QED
        BY <2>4, <2>7, <3>0, <3>1, <4>1, <4>2 DEF ChildInv, Alive, shared
    <3>2. CASE p # pipes
      <4>1. signals'[p] = signals[p]
        BY <2>5, <3>2
      <4>2. QED
        BY <2>4, <3>0, <4>1 DEF ChildInv, Alive, shared
    <3>3. QED
      BY <3>1, <3>2
  <2>14. QED
    BY <2>10, <2>11, <2>12, <2>13 DEF CoreInv
<1>4. QED
  BY <1>1, <1>2, <1>3 DEF Reading

LEMMA CoreHandling ==
    ASSUME TypeOK, CoreInv, NEW c \in Callers, Handling(c), ~StartsOverlap'
    PROVE  CoreInv'
<1>0. CallerInv(c) /\ HeldInv
  BY DEF CoreInv
<1>1. CASE HandleWip(c)
  <2>1. pc[c] = "handle" /\ pc'[c] \in {"idle", "poll"} /\ Others(c)
        /\ UNCHANGED <<shared, pipes, signals, child>>
    BY <1>1 DEF HandleWip, Goto, Others, TypeOK
  <2>2. CallerInv(c)'
    BY <2>1 DEF CallerInv
  <2>3. QED
    BY <1>0, <2>1, <2>2, CoreMoves DEF shared, HeldInv
<1>2. CASE HandleSuccess(c)
  <2>1. pc[c] = "handle" /\ received[c] = SUCCESS /\ pc'[c] = "drop" /\ Others(c)
        /\ running_task' = 0 /\ UNCHANGED <<receive_conn, latest_error, pipes, signals, child>>
    BY <1>2 DEF HandleSuccess, Goto, Others, TypeOK
  <2>2. \A p \in Runs : ~Alive(p)
    BY <1>0, <2>1 DEF CallerInv
  <2>3. CallerInv(c)' /\ Settling(c)
    BY <2>1 DEF CallerInv, Settling
  <2>4. QED
    BY <2>1, <2>2, <2>3, CoreLets
<1>3. CASE DropPipe(c)
  <2>1. pc[c] = "drop" /\ pc'[c] = "poll" /\ Others(c) /\ receive_conn' = 0
        /\ UNCHANGED <<running_task, latest_error, pipes, signals, child>>
    BY <1>3 DEF DropPipe, Goto, Others, TypeOK
  <2>2. running_task = 0 /\ \A p \in Runs : ~Alive(p)
    BY <1>0, <2>1 DEF CallerInv, CoreInv, ChildInv, Runs
  <2>3. CallerInv(c)' /\ Settling(c)
    BY <2>1 DEF CallerInv, Settling
  <2>4. QED
    BY <2>1, <2>2, <2>3, CoreLets
<1>4. CASE HandleError(c)
  <2>1. /\ pc[c] = "handle" /\ pc'[c] = StartClear /\ Others(c)
        /\ latest_error' = received[c].of /\ received[c].sig = "ERROR"
        /\ UNCHANGED <<running_task, receive_conn, pipes, signals, child>>
    BY <1>4 DEF HandleError, Goto, Others, TypeOK
  <2>2. latest_error' = pipes
    BY <1>0, <2>1 DEF CallerInv
  <2>3. CallerInv(c)'
    BY <2>1 DEF CallerInv, StartClear
  <2>4. QED
    BY <2>1, <2>2, <2>3, CoreMoves
<1>5. QED
  BY <1>1, <1>2, <1>3, <1>4 DEF Handling

LEMMA CoreStops ==
    ASSUME TypeOK, CoreInv, NEW c \in Callers, StopRunning(c), ~StartsOverlap'
    PROVE  CoreInv'
<1>0. CallerInv(c) /\ HeldInv
  BY DEF CoreInv
<1>1. CASE StopBegin(c)
  <2>1. pc[c] = "idle" /\ pc'[c] = StartClear /\ Others(c)
        /\ UNCHANGED <<shared, pipes, signals, child>>
    BY <1>1 DEF StopBegin, Begin, Goto, Others, TypeOK
  <2>2. CallerInv(c)'
    BY <2>1 DEF CallerInv, StartClear, shared
  <2>3. QED
    BY <1>0, <2>1, <2>2, CoreMoves DEF shared, HeldInv
<1>2. CASE KillRaises(c)
  <2>1. pc[c] = "kill" /\ pc'[c] = "idle" /\ Others(c)
        /\ UNCHANGED <<shared, pipes, signals, child>>
    BY <1>2, Leaves DEF KillRaises
  <2>2. CallerInv(c)'
    BY <2>1 DEF CallerInv
  <2>3. QED
    BY <1>0, <2>1, <2>2, CoreMoves DEF shared, HeldInv
<1>3. CASE Kill(c)
  <2>1. /\ pc[c] = "kill" /\ pc'[c] = "forget" /\ Others(c)
        /\ UNCHANGED <<running_task, receive_conn, latest_error, pipes, signals>>
    BY <1>3 DEF Kill, Goto, Others, shared, TypeOK
  <2>2. \A p \in Runs : /\ child[p] \in [state: ChildStates, task: 0..pipes, at: 0..NumCases]
                        /\ child'[p] = Killed(p)
    BY <1>3 DEF Kill, TypeOK
  <2>3. \A p \in Runs :
            /\ ~Alive(p)' /\ child'[p].task = child[p].task
            /\ child'[p].state = "none" <=> child[p].state = "none"
            /\ child[p].state = "none" => child'[p] = child[p]
    BY <2>2 DEF Killed, Alive
  <2>4. CallerInv(c)'
    BY <2>1, <2>3 DEF CallerInv
  <2>5. HeldInv'
    BY <1>0, <2>1 DEF HeldInv
  <2>6. HeldHasChild'
    <3>1. running_task \in Runs \cup {0}
      BY DEF TypeOK, Runs
    <3>2. \A d \in Callers : pc[d] = "submit" => d # c
      BY <2>1
    <3>3. QED
      BY <2>1, <2>3, <3>1, <3>2 DEF CoreInv, HeldHasChild, Others
  <2>7. ASSUME NEW d \in Callers, d # c PROVE CallerInv(d)'
    <3>1. pc'[d] = pc[d] /\ mine'[d] = mine[d] /\ received'[d] = received[d] /\ CallerInv(d)
      BY <2>1, <2>7 DEF Others, CoreInv
    <3>2. ~Starting(d)
      BY <2>1, <2>7, StartsAlone DEF CoreInv, Settling
    <3>3. QED
      BY <2>1, <2>3, <3>1, <3>2 DEF CallerInv, Starting
  <2>8. \A p \in Runs : ChildInv(p)'
    BY <2>1, <2>3 DEF CoreInv, ChildInv
  <2>9. QED
    BY <2>4, <2>5, <2>6, <2>7, <2>8 DEF CoreInv
<1>4. CASE Forget(c)
  <2>1. pc[c] = "forget" /\ pc'[c] = "close" /\ Others(c) /\ running_task' = 0
        /\ UNCHANGED <<receive_conn, latest_error, pipes, signals, child>>
    BY <1>4 DEF Forget, Goto, Others, TypeOK
  <2>2. \A p \in Runs : ~Alive(p)
    BY <1>0, <2>1 DEF CallerInv
  <2>3. CallerInv(c)' /\ Settling(c)
    BY <2>1 DEF CallerInv, Settling
  <2>4. QED
    BY <2>1, <2>2, <2>3, CoreLets
<1>5. CASE Close(c)
  <2>1. pc[c] = "close" /\ pc'[c] \in {"poll", "idle"} /\ Others(c) /\ receive_conn' = 0
        /\ UNCHANGED <<running_task, latest_error, pipes, signals, child>>
    BY <1>5 DEF Close, Goto, Others, TypeOK
  <2>2. running_task = 0 /\ \A p \in Runs : ~Alive(p)
    BY <1>0, <2>1 DEF CallerInv, CoreInv, ChildInv, Runs
  <2>3. CallerInv(c)' /\ Settling(c)
    BY <2>1 DEF CallerInv, Settling
  <2>4. QED
    BY <2>1, <2>2, <2>3, CoreLets
<1>6. QED
  BY <1>1, <1>2, <1>3, <1>4, <1>5 DEF StopRunning

\* A child at work sends, and goes on or ends.
LEMMA CoreSends ==
    ASSUME TypeOK, CoreInv, NEW p \in Runs, child[p].state = "alive", NEW x \in Signals,
           NEW state \in {"alive", "ended"}, NEW at \in 0..NumCases,
           x = SUCCESS => state = "ended",
           x.sig = "ERROR" => x.of = p,
           Send(p, x, state, at), ~StartsOverlap'
    PROVE  CoreInv'
<1>1. UNCHANGED <<running_task, receive_conn, latest_error, pipes, pc, mine, received>>
  BY DEF Send, shared, callers
<1>2. p = running_task /\ p = pipes /\ Alive(p)
  <2>1. Alive(p) /\ ChildInv(p)
    BY DEF CoreInv, Alive
  <2>2. p = running_task /\ p # 0
    BY <2>1 DEF ChildInv, Runs
  <2>3. QED
    BY <2>1, <2>2 DEF CoreInv, HeldInv
<1>3. /\ \A r \in Runs \ {p} : child'[r] = child[r] /\ signals'[r] = signals[r]
      /\ child'[p].state = state /\ child'[p].task = child[p].task
      /\ signals'[p] = Append(signals[p], x)
  BY DEF Send, TypeOK
<1>4. \A r \in Runs : Alive(r)' => Alive(r)
  BY <1>2, <1>3 DEF Alive
<1>5. HeldInv'
  BY <1>1 DEF CoreInv, HeldInv
<1>6. HeldHasChild'
  BY <1>1, <1>2, <1>3 DEF HeldHasChild
<1>7. ASSUME NEW d \in Callers PROVE CallerInv(d)'
  <2>1. CallerInv(d)
    BY DEF CoreInv
  <2>2. child[pipes] # NoChild
    BY <1>2 DEF Alive, NoChild
  <2>3. pc[d] \notin {"assemble", "submit"}
    BY <2>1, <2>2 DEF CallerInv
  <2>4. QED
    BY <1>1, <1>4, <2>1, <2>3 DEF CallerInv
<1>8. ASSUME NEW r \in Runs PROVE ChildInv(r)'
  <2>1. ChildInv(r)
    BY DEF CoreInv
  <2>2. CASE r = p
    <3>1. /\ Len(signals[p]) \in Nat /\ Len(Append(signals[p], x)) = Len(signals[p]) + 1
          /\ Append(signals[p], x)[Len(signals[p]) + 1] = x
          /\ \A i \in 1..Len(signals[p]) : Append(signals[p], x)[i] = signals[p][i]
      BY DEF TypeOK
    <3>2. ASSUME NEW i \in 1..Len(Append(signals[p], x))
          PROVE  /\ Append(signals[p], x)[i] = SUCCESS => state # "alive"
                 /\ Append(signals[p], x)[i].sig = "ERROR" => Append(signals[p], x)[i].of = p
      <4>1. CASE i = Len(signals[p]) + 1
        BY <3>1, <4>1
      <4>2. CASE i # Len(signals[p]) + 1
        <5>1. i \in 1..Len(signals[p])
          BY <3>1, <4>2
        <5>2. QED
          BY <1>2, <2>1, <2>2, <3>1, <5>1 DEF ChildInv
      <4>3. QED
        BY <4>1, <4>2
    <3>3. \A i \in 1..Len(signals'[p]) :
              /\ signals'[p][i] = SUCCESS => state # "alive"
              /\ signals'[p][i].sig = "ERROR" => signals'[p][i].of = p
      BY <1>3, <3>2
    <3>4. child[p].task = p /\ ~(p > pipes) /\ state \notin {"none", "hung"}
      BY <1>2, <2>1, <2>2 DEF ChildInv, Alive, Runs
    <3>5. QED
      BY <1>1, <1>2, <1>3, <2>2, <3>3, <3>4 DEF ChildInv, Alive
  <2>3. CASE r # p
    BY <1>1, <1>3, <2>1, <2>3 DEF ChildInv, Alive
  <2>4. QED
    BY <2>2, <2>3
<1>9. QED
  BY <1>5, <1>6, <1>7, <1>8 DEF CoreInv

\* What a child's step is: what it sends, and what becomes of it.
Sends(p, x, state, at) ==
    /\ child[p].state = "alive"
    /\ x \in Signals /\ at \in 0..NumCases
    /\ \/ x = WIP(child[p].at + 1) /\ at = child[p].at + 1 /\ state = "alive"
       \/ x = SUCCESS /\ at = NumCases /\ at = child[p].at /\ state = "ended"
       \/ x = ERROR(child[p].task) /\ at = child[p].at /\ state = "ended"
    /\ Send(p, x, state, at)

LEMMA ChildSends ==
    ASSUME TypeOK, NEW p \in Runs, Child(p)
    PROVE  \E x \in Signals, state \in {"alive", "ended"}, at \in 0..NumCases :
               Sends(p, x, state, at)
<1>1. child[p].at \in 0..NumCases /\ child[p].task \in 0..MaxRuns
  BY DEF TypeOK
<1>2. CASE ChildCase(p)
  <2>1. child[p].at + 1 \in 0..NumCases /\ WIP(child[p].at + 1) \in Signals
    BY <1>1, <1>2, SignalTypes DEF ChildCase, Cases
  <2>2. Sends(p, WIP(child[p].at + 1), "alive", child[p].at + 1)
    BY <1>2, <2>1 DEF ChildCase, Sends
  <2>3. QED
    BY <2>1, <2>2
<1>3. CASE ChildSucceeds(p)
  <2>1. Sends(p, SUCCESS, "ended", child[p].at)
    BY <1>1, <1>3, SignalTypes DEF ChildSucceeds, Sends
  <2>2. QED
    BY <1>1, <2>1, SignalTypes
<1>4. CASE ChildErrs(p)
  <2>1. Sends(p, ERROR(child[p].task), "ended", child[p].at)
    BY <1>1, <1>4, SignalTypes DEF ChildErrs, Sends
  <2>2. QED
    BY <1>1, <2>1, SignalTypes
<1>5. QED
  BY <1>2, <1>3, <1>4 DEF Child

LEMMA CoreChild ==
    ASSUME TypeOK, CoreInv, NEW p \in Runs, Child(p) \/ ChildStops(p), ~StartsOverlap'
    PROVE  CoreInv'
<1>1. CASE Child(p)
  <2>1. PICK x \in Signals, state \in {"alive", "ended"}, at \in 0..NumCases :
            Sends(p, x, state, at)
    BY <1>1, ChildSends
  <2>2. child[p].state = "alive" /\ Send(p, x, state, at)
    BY <2>1 DEF Sends
  <2>3. child[p].task = p
    BY <2>2 DEF CoreInv, ChildInv
  <2>4. x = SUCCESS => state = "ended"
    <3>1. x = WIP(child[p].at + 1) => x # SUCCESS
      BY SignalKinds
    <3>2. QED
      BY <2>1, <3>1 DEF Sends
  <2>5. x.sig = "ERROR" => x.of = p
    <3>1. x \in {WIP(child[p].at + 1), SUCCESS, ERROR(p)}
      BY <2>1, <2>3 DEF Sends
    <3>2. QED
      BY <3>1, SignalKinds
  <2>6. QED
    BY <2>2, <2>4, <2>5, CoreSends
<1>2. CASE ChildStops(p)
  <2>1. PICK how \in {"dead", "hung"} : child' = [child EXCEPT ![p].state = how]
    BY <1>2 DEF ChildStops
  <2>2. UNCHANGED <<running_task, receive_conn, latest_error, pipes, signals, pc, mine, received>>
        /\ child[p].state = "alive"
    BY <1>2 DEF ChildStops, shared, callers
  <2>3. \A r \in Runs :
            /\ child'[r].task = child[r].task
            /\ child'[r].state = IF r = p THEN how ELSE child[r].state
            /\ r # p => child'[r] = child[r]
    BY <2>1 DEF TypeOK
  <2>4. \A r \in Runs : /\ Alive(r)' => Alive(r)
                        /\ child'[r].state = "none" <=> child[r].state = "none"
                        /\ child[r].state = "none" => child'[r] = child[r]
    BY <2>2, <2>3 DEF Alive
  <2>5. HeldInv'
    BY <2>2 DEF CoreInv, HeldInv
  <2>6. HeldHasChild'
    <3>1. running_task \in Runs \cup {0}
      BY DEF TypeOK, Runs
    <3>2. QED
      BY <2>2, <2>4, <3>1 DEF CoreInv, HeldHasChild
  <2>7. ASSUME NEW d \in Callers PROVE CallerInv(d)'
    <3>1. CallerInv(d)
      BY DEF CoreInv
    <3>2. child[pipes] = NoChild /\ pipes # 0 => child'[pipes] = NoChild
      <4>1. pipes # 0 => pipes \in Runs
        BY DEF TypeOK, Runs
      <4>2. NoChild.state = "none"
        BY DEF NoChild
      <4>3. QED
        BY <2>4, <4>1, <4>2
    <3>3. QED
      BY <2>2, <2>4, <3>1, <3>2 DEF CallerInv
  <2>8. \A r \in Runs : ChildInv(r)'
    BY <2>2, <2>3, <2>4 DEF CoreInv, ChildInv
  <2>9. QED
    BY <2>5, <2>6, <2>7, <2>8 DEF CoreInv
<1>3. QED
  BY <1>1, <1>2

\* What is held, and by whom, as long as no start overlaps another.
LEMMA CoreStep ==
    ASSUME TypeOK, TypeOK', CoreInv, [Next]_vars, "start" \notin races'
    PROVE  CoreInv'
<1>1. CASE UNCHANGED vars
  <2> USE <1>1 DEF vars, shared, callers
  <2>1. HeldInv' /\ HeldHasChild'
    BY DEF CoreInv, HeldInv, HeldHasChild
  <2>2. \A c \in Callers : CallerInv(c)'
    BY DEF CoreInv, CallerInv, Alive
  <2>3. \A p \in Runs : ChildInv(p)'
    BY DEF CoreInv, ChildInv, Alive
  <2>4. ~StartsOverlap'
    BY DEF CoreInv, StartsOverlap, Starting, Settling
  <2>5. QED
    BY <2>1, <2>2, <2>3, <2>4 DEF CoreInv
<1>2. ASSUME NEW c \in Callers, Noted(Caller(c)) PROVE CoreInv'
  <2>1. Caller(c) /\ ~StartsOverlap'
    BY <1>2, NotedRaces DEF Noted
  <2>2. QED
    BY <2>1, CoreRun, CoreReading, CoreHandling, CoreStops DEF Caller
<1>3. ASSUME NEW p \in Runs, Noted(Child(p) \/ ChildStops(p)) PROVE CoreInv'
  <2>1. (Child(p) \/ ChildStops(p)) /\ ~StartsOverlap'
    BY <1>3, NotedRaces DEF Noted
  <2>2. QED
    BY <2>1, CoreChild
<1>4. QED
  BY <1>1, <1>2, <1>3 DEF Next


-----------------------------------------------------------------------------
(* What is taken down of a run, while no two callers handle signals        *)

\* A child that had ended stays so, with what it has been through.
ChildrenGoOn ==
    \A r \in Runs :
        /\ child'[r].at = child[r].at
        /\ child[r].state = "ended" => child'[r].state = "ended"

\* A step that takes nothing down, nor adds to the hands or the pipe of a run
\* that stays held.
LEMMA StreamKept ==
    ASSUME StreamInv, ChildrenGoOn, UNCHANGED <<finished, signals>>,
           running_task' \in {0, running_task},
           \A d \in Callers : pc'[d] = "handle" => pc[d] = "handle" /\ received'[d] = received[d],
           running_task' # 0 => (HandHolds <=> HandHolds')
    PROVE  StreamInv'
<1> SUFFICES ASSUME NEW r \in Runs
             PROVE  \E n \in 0..NumCases : StreamOf(r, n)'
  BY DEF StreamInv
<1>1. PICK n \in 0..NumCases : StreamOf(r, n)
  BY DEF StreamInv
<1>2. finished'[r] = 1..n /\ n <= child'[r].at
  BY <1>1 DEF StreamOf, ChildrenGoOn
<1>3. ASSUME r = running_task'
      PROVE  PipeInOrder(r, n + InHand)' /\ \A d \in Callers : HandInv(d, r, n)'
  <2>1. r = running_task /\ InHand' = InHand
    BY <1>3 DEF Runs, InHand
  <2>2. PICK m : m = n + InHand
    OBVIOUS
  <2>3. InOrder(signals[r], m, child[r].at, child[r].state, r)
    BY <1>1, <2>1, <2>2 DEF StreamOf, PipeInOrder
  <2>4. InOrder(signals'[r], m, child'[r].at, child'[r].state, r)
    BY <2>3 DEF InOrder, ChildrenGoOn
  <2>5. n + InHand' = m
    BY <2>1, <2>2
  <2>6. PipeInOrder(r, n + InHand)'
    BY <2>4, <2>5 DEF PipeInOrder
  <2>7. ASSUME NEW d \in Callers PROVE HandInv(d, r, n)'
    <3>1. HandInv(d, r, n)
      BY <1>1, <2>1 DEF StreamOf
    <3>2. QED
      BY <3>1 DEF HandInv, ChildrenGoOn
  <2>8. QED
    BY <2>6, <2>7
<1>4. QED
  BY <1>1, <1>2, <1>3 DEF StreamOf

\* A step that takes nothing down keeps what is known of successful runs.
LEMMA SucceededKept ==
    ASSUME TypeOK, SucceededInv, ChildrenGoOn, UNCHANGED <<finished, succeeded>>
    PROVE  SucceededInv'
<1>1. succeeded \subseteq Runs
  BY DEF TypeOK, Runs
<1>2. QED
  BY <1>1 DEF SucceededInv, ChildrenGoOn

\* Who handles a signal does so alone.
LEMMA HandlesAlone ==
    ASSUME ~ReportsOverlap, NEW c \in Callers, pc[c] = "handle"
    PROVE  /\ HandHolds <=> received[c].sig = "WIP"
           /\ \A d \in Callers : pc[d] = "handle" => d = c
BY DEF ReportsOverlap, HandHolds

StreamAll == StreamInv /\ SucceededInv /\ ~ReportsOverlap

\* A caller's step that takes nothing from the hands or the pipe but to let go.
LEMMA StreamMoves ==
    ASSUME TypeOK, StreamAll, NEW c \in Callers, Others(c),
           ChildrenGoOn, UNCHANGED <<finished, signals, succeeded>>,
           running_task' \in {0, running_task}, pc'[c] # "handle",
           running_task' # 0 /\ pc[c] = "handle" => received[c].sig # "WIP"
    PROVE  StreamInv' /\ SucceededInv'
<1>1. SucceededInv'
  BY SucceededKept DEF StreamAll
<1>2. \A d \in Callers : pc'[d] = "handle" => pc[d] = "handle" /\ received'[d] = received[d]
  BY DEF Others
<1>3. ASSUME running_task' # 0 PROVE HandHolds <=> HandHolds'
  <2>1. ASSUME NEW d \in Callers, pc[d] = "handle", received[d].sig = "WIP"
        PROVE  pc'[d] = "handle" /\ received'[d].sig = "WIP"
    BY <1>3, <2>1 DEF Others
  <2>2. QED
    BY <1>2, <2>1 DEF HandHolds
<1>4. QED
  BY <1>1, <1>2, <1>3, StreamKept DEF StreamAll

LEMMA StreamRun ==
    ASSUME TypeOK, CoreInv, StreamAll, NEW c \in Callers, Run(c)
    PROVE  StreamInv' /\ SucceededInv'
<1>0. CallerInv(c) /\ HeldInv
  BY DEF CoreInv
<1>1. CASE RunRefused(c)
  <2>1. ChildrenGoOn /\ running_task' = running_task
        /\ UNCHANGED <<finished, signals, succeeded, pc, mine, received>>
    BY <1>1 DEF RunRefused, callers, ChildrenGoOn
  <2>2. HandHolds' <=> HandHolds
    BY <2>1 DEF HandHolds
  <2>3. QED
    BY <2>1, <2>2, StreamKept, SucceededKept DEF StreamAll
<1>2. CASE RunAccepted(c) \/ OpenPipe(c)
  <2>1. Others(c) /\ pc[c] # "handle" /\ pc'[c] # "handle"
        /\ UNCHANGED <<running_task, finished, signals, child, succeeded>>
    BY <1>2 DEF RunAccepted, OpenPipe, Begin, Goto, Others, TypeOK
  <2>2. QED
    BY <2>1, StreamMoves DEF ChildrenGoOn
<1>3. CASE AssembleFails(c)
  <2>1. Others(c) /\ pc[c] # "handle" /\ pc'[c] # "handle"
        /\ UNCHANGED <<running_task, finished, signals, child, succeeded>>
    BY <1>3, Leaves DEF AssembleFails
  <2>2. QED
    BY <2>1, StreamMoves DEF ChildrenGoOn
<1>4. CASE Submit(c)
  <2>1. Others(c) /\ pc[c] = "submit" /\ pc'[c] = "idle"
        /\ UNCHANGED <<running_task, finished, signals, succeeded>>
    BY <1>4, Leaves DEF Submit, shared
  <2>2. pipes \in Runs /\ running_task = pipes /\ mine[c] = pipes /\ child[pipes] = NoChild
    <3>1. pipes # 0
      BY <1>0, <2>1 DEF CallerInv
    <3>2. QED
      BY <1>0, <2>1, <3>1 DEF CallerInv, HeldInv, TypeOK, Runs
  <2>3. child' = [child EXCEPT ![pipes] = [state |-> "alive", task |-> pipes, at |-> 0]]
    BY <1>4, <2>2 DEF Submit, Runs
  <2>4. ChildrenGoOn
    BY <2>2, <2>3 DEF ChildrenGoOn, NoChild, TypeOK
  <2>5. QED
    BY <2>1, <2>4, StreamMoves
<1>5. CASE AssembleTask(c)
  <2>1. /\ pc[c] = "assemble" /\ pc'[c] = "submit" /\ Others(c)
        /\ running_task' = pipes /\ pipes # 0 /\ child[pipes] = NoChild /\ pipes \in Runs
        /\ UNCHANGED <<finished, signals, child, succeeded>>
    BY <1>0, <1>5 DEF AssembleTask, Goto, Others, CallerInv, TypeOK, Runs
  <2>2. SucceededInv'
    BY <2>1, SucceededKept DEF StreamAll, ChildrenGoOn
  <2>3. \A d \in Callers : pc'[d] # "handle"
    <3>1. ASSUME NEW d \in Callers, d # c PROVE pc'[d] # "handle"
      BY <2>1, <3>1, StartsAlone DEF Others, CoreInv, Starting, Settling
    <3>2. QED
      BY <2>1, <3>1
  <2>4. InHand' = 0
    BY <2>3 DEF InHand, HandHolds
  <2>5. signals[pipes] = <<>> /\ Len(signals[pipes]) = 0 /\ child[pipes].at = 0
    BY <2>1 DEF CoreInv, ChildInv, NoChild
  <2>6. ASSUME NEW r \in Runs PROVE \E n \in 0..NumCases : StreamOf(r, n)'
    <3>1. PICK n \in 0..NumCases : StreamOf(r, n)
      BY DEF StreamAll, StreamInv
    <3>2. finished'[r] = 1..n /\ n <= child'[r].at
      BY <2>1, <3>1 DEF StreamOf
    <3>3. ASSUME r = running_task' PROVE PipeInOrder(r, n + InHand)'
      <4>1. n = 0 /\ child'[r].at = 0 /\ Len(signals'[r]) = 0
        BY <2>1, <2>5, <3>2, <3>3
      <4>2. n + InHand' = 0
        BY <2>4, <4>1
      <4>3. InOrder(signals'[r], 0, child'[r].at, child'[r].state, r)
        BY <4>1 DEF InOrder
      <4>4. QED
        BY <4>2, <4>3 DEF PipeInOrder
    <3>4. \A d \in Callers : HandInv(d, r, n)'
      BY <2>3 DEF HandInv
    <3>5. QED
      BY <3>1, <3>2, <3>3, <3>4 DEF StreamOf
  <2>7. QED
    BY <2>2, <2>6 DEF StreamInv
<1>6. QED
  BY <1>1, <1>2, <1>3, <1>4, <1>5 DEF Run

\* What comes next in a pipe is the next case, or the end after the last one.
LEMMA StreamReceive ==
    ASSUME TypeOK, CoreInv, StreamAll, NEW c \in Callers, Receive(c), ~ReportsOverlap'
    PROVE  StreamInv' /\ SucceededInv'
<1>1. ReadEnd(c) = pipes /\ pipes \in Runs
  BY ReadsLastPipe DEF Receive, Readable
<1>2. /\ pc'[c] = "handle" /\ received'[c] = Head(signals[pipes]) /\ Others(c)
      /\ signals[pipes] # <<>> /\ pc[c] # "handle"
      /\ signals' = [signals EXCEPT ![pipes] = Tail(signals[pipes])]
      /\ UNCHANGED <<running_task, finished, child, succeeded>>
  BY <1>1 DEF Receive, Readable, Goto, Others, shared, TypeOK
<1>3. SucceededInv'
  BY <1>2, SucceededKept DEF StreamAll, ChildrenGoOn
<1>4. \A d \in Callers : pc'[d] = "handle" => d = c
  BY <1>2 DEF ReportsOverlap
<1>5. ~HandHolds
  BY <1>2, <1>4 DEF HandHolds, Others
<1>6. ASSUME NEW r \in Runs PROVE \E n \in 0..NumCases : StreamOf(r, n)'
  <2>1. PICK n \in 0..NumCases : StreamOf(r, n)
    BY DEF StreamAll, StreamInv
  <2>2. finished'[r] = 1..n /\ n <= child'[r].at
    BY <1>2, <2>1 DEF StreamOf
  <2>3. ASSUME r = running_task'
        PROVE  PipeInOrder(r, n + InHand)' /\ \A d \in Callers : HandInv(d, r, n)'
    <3>1. r = running_task /\ r = pipes
      BY <1>2, <2>3 DEF CoreInv, HeldInv, Runs
    <3>2. InHand = 0 /\ PipeInOrder(r, n)
      BY <1>5, <2>1, <3>1 DEF InHand, StreamOf
    <3>3. /\ InOrder(signals[r], n, child[r].at, child[r].state, r)
          /\ signals[r] \in Seq(Signals) /\ signals[r] # <<>>
          /\ n \in Nat /\ child[r].at \in Nat
      BY <1>2, <3>1, <3>2 DEF PipeInOrder, TypeOK
    <3>4. signals'[r] = Tail(signals[r]) /\ child'[r] = child[r]
          /\ received'[c] = Head(signals[r])
      BY <1>2, <3>1 DEF TypeOK
    <3>5. HandHolds' <=> received'[c].sig = "WIP"
      BY <1>2, <1>4 DEF HandHolds
    <3>6. CASE Head(signals[r]) = WIP(n + 1)
               /\ InOrder(Tail(signals[r]), n + 1, child[r].at, child[r].state, r)
      <4>1. InHand' = 1 /\ received'[c] # SUCCESS
        BY <3>4, <3>5, <3>6, SignalKinds DEF InHand
      <4>2. n + InHand' = n + 1
        BY <4>1
      <4>3. PipeInOrder(r, n + InHand)'
        BY <3>4, <3>6, <4>2 DEF PipeInOrder
      <4>4. \A d \in Callers : HandInv(d, r, n)'
        BY <1>4, <3>4, <3>6, <4>1 DEF HandInv
      <4>5. QED
        BY <4>3, <4>4
    <3>7. CASE /\ n = child[r].at /\ child[r].state = "ended"
               /\ Head(signals[r]) \in {SUCCESS, ERROR(r)}
               /\ Head(signals[r]) = SUCCESS => child[r].at = NumCases
               /\ InOrder(Tail(signals[r]), n, child[r].at, child[r].state, r)
      <4>1. InHand' = 0
        BY <3>4, <3>5, <3>7, SignalKinds DEF InHand
      <4>2. n + InHand' = n
        BY <4>1
      <4>3. PipeInOrder(r, n + InHand)'
        BY <3>4, <3>7, <4>2 DEF PipeInOrder
      <4>4. \A d \in Callers : HandInv(d, r, n)'
        BY <1>4, <3>4, <3>7 DEF HandInv
      <4>5. QED
        BY <4>3, <4>4
    <3>8. \/ /\ n + 1 <= child[r].at /\ Head(signals[r]) = WIP(n + 1)
             /\ InOrder(Tail(signals[r]), n + 1, child[r].at, child[r].state, r)
          \/ /\ n = child[r].at /\ child[r].state = "ended"
             /\ Head(signals[r]) \in {SUCCESS, ERROR(r)}
             /\ Head(signals[r]) = SUCCESS => child[r].at = NumCases
             /\ InOrder(Tail(signals[r]), n, child[r].at, child[r].state, r)
      BY ONLY <3>3, StreamHead
    <3>9. QED
      BY <3>6, <3>7, <3>8
  <2>4. QED
    BY <2>1, <2>2, <2>3 DEF StreamOf
<1>7. QED
  BY <1>3, <1>6 DEF StreamInv

\* A case is taken down: the next one.
LEMMA StreamWip ==
    ASSUME TypeOK, CoreInv, StreamAll, NEW c \in Callers, HandleWip(c)
    PROVE  StreamInv' /\ SucceededInv'
<1> DEFINE of == received[c].of
           v == running_task
<1>1. /\ pc[c] = "handle" /\ received[c].sig = "WIP" /\ of \in Cases
      /\ pc'[c] # "handle" /\ Others(c)
      /\ UNCHANGED <<running_task, signals, child, succeeded>>
      /\ finished' = IF v = 0 THEN finished ELSE [finished EXCEPT ![v] = @ \cup {of}]
  BY SignalCases DEF HandleWip, Goto, Others, shared, TypeOK
<1>2. \A r \in Runs : finished'[r] = IF r = v THEN finished[r] \cup {of} ELSE finished[r]
  <2> HIDE DEF of
  <2>1. v \in Runs \cup {0} /\ 0 \notin Runs /\ finished \in [Runs -> SUBSET Cases]
    BY DEF TypeOK, Runs
  <2> HIDE DEF v
  <2>2. CASE v = 0
    BY <1>1, <2>1, <2>2
  <2>3. CASE v # 0
    BY <1>1, <2>1, <2>3
  <2>4. QED
    BY <2>2, <2>3
<1>3. SucceededInv'
  <2>1. succeeded \subseteq Runs
    BY DEF TypeOK, Runs
  <2>2. QED
    BY <1>1, <1>2, <2>1 DEF StreamAll, SucceededInv
<1>4. HandHolds /\ \A d \in Callers : pc'[d] # "handle"
  BY <1>1, HandlesAlone DEF StreamAll, Others
<1>5. InHand = 1 /\ InHand' = 0
  BY <1>4 DEF InHand, HandHolds
<1>6. ASSUME NEW r \in Runs PROVE \E n \in 0..NumCases : StreamOf(r, n)'
  <2>1. PICK n \in 0..NumCases : StreamOf(r, n)
    BY DEF StreamAll, StreamInv
  <2>2. \A m : \A d \in Callers : HandInv(d, r, m)'
    BY <1>4 DEF HandInv
  <2>3. CASE r # v
    BY <1>1, <1>2, <2>1, <2>2, <2>3 DEF StreamOf
  <2>4. CASE r = v
    <3>1. received[c] \in {WIP(n + 1), SUCCESS, ERROR(r)} /\ PipeInOrder(r, n + 1)
      BY <1>1, <1>5, <2>1, <2>4 DEF StreamOf, HandInv
    <3>2. of = n + 1
      BY <1>1, <3>1, SignalKinds
    <3>3. n + 1 \in 0..NumCases /\ n + 1 <= child[r].at
      BY <1>1, <3>1, <3>2 DEF Cases, PipeInOrder, InOrder
    <3>4. finished'[r] = 1..(n + 1)
      <4>1. finished'[r] = (1..n) \cup {n + 1}
        BY <1>2, <2>1, <2>4, <3>2 DEF StreamOf
      <4>2. (1..n) \cup {n + 1} = 1..(n + 1)
        OBVIOUS
      <4>3. QED
        BY ONLY <4>1, <4>2
    <3>5. PipeInOrder(r, (n + 1) + InHand)'
      <4>1. (n + 1) + InHand' = n + 1
        BY <1>5
      <4>2. QED
        BY <1>1, <3>1, <4>1 DEF PipeInOrder
    <3>6. StreamOf(r, n + 1)'
      BY <1>1, <2>2, <3>3, <3>4, <3>5 DEF StreamOf
    <3>7. QED
      BY <3>3, <3>6
  <2>5. QED
    BY <2>3, <2>4
<1>7. QED
  BY <1>3, <1>6 DEF StreamInv

\* A success is taken of a run that is through all its cases, all taken down.
LEMMA StreamSuccess ==
    ASSUME TypeOK, CoreInv, StreamAll, NEW c \in Callers, HandleSuccess(c)
    PROVE  StreamInv' /\ SucceededInv'
<1>1. /\ pc[c] = "handle" /\ received[c] = SUCCESS /\ pc'[c] = "drop" /\ Others(c)
      /\ running_task' = 0 /\ succeeded' = succeeded \cup ({running_task} \ {0})
      /\ UNCHANGED <<finished, signals, child>>
  BY DEF HandleSuccess, Goto, Others, TypeOK
<1>2. ChildrenGoOn
  BY <1>1 DEF ChildrenGoOn
<1>3. \A d \in Callers : pc'[d] = "handle" => pc[d] = "handle" /\ received'[d] = received[d]
  BY <1>1 DEF Others
<1>4. StreamInv'
  BY <1>1, <1>2, <1>3, StreamKept DEF StreamAll
<1>5. ASSUME running_task # 0
      PROVE  /\ finished[running_task] = Cases /\ child[running_task].at = NumCases
             /\ child[running_task].state = "ended"
  <2> DEFINE r == running_task
  <2>1. r \in Runs
    BY <1>5 DEF TypeOK, Runs
  <2>2. PICK n \in 0..NumCases : StreamOf(r, n)
    BY <2>1 DEF StreamAll, StreamInv
  <2>3. HandInv(c, r, n) /\ finished[r] = 1..n /\ n <= child[r].at
    BY <2>2 DEF StreamOf
  <2>4. received[c] # WIP(n + 1)
    BY <1>1, SignalKinds
  <2>5. n = NumCases /\ child[r].state = "ended"
    BY <1>1, <2>3, <2>4 DEF HandInv
  <2>6. child[r].at \in 0..NumCases
    BY <2>1 DEF TypeOK
  <2>7. QED
    BY <2>3, <2>5, <2>6 DEF Cases
<1>6. SucceededInv'
  BY <1>1, <1>5 DEF StreamAll, SucceededInv
<1>7. QED
  BY <1>4, <1>6

LEMMA StreamCaller ==
    ASSUME TypeOK, CoreInv, StreamAll, NEW c \in Callers, Caller(c), ~ReportsOverlap'
    PROVE  StreamInv' /\ SucceededInv'
<1>1. CASE Run(c)
  BY <1>1, StreamRun
<1>2. CASE PollBegin(c) \/ Reading(c)
  <2>1. CASE PollBegin(c) \/ PollEnds(c) \/ PollSees(c) \/ ReceiveBlocks(c) \/ ReceiveRaises(c)
    <3>1. pc[c] # "handle" /\ pc'[c] # "handle" /\ Others(c)
          /\ UNCHANGED <<running_task, finished, signals, child, succeeded>>
      BY <2>1, Leaves DEF PollBegin, PollEnds, PollSees, ReceiveBlocks, ReceiveRaises, Begin, Goto,
                          Others, shared, TypeOK
    <3>2. QED
      BY <3>1, StreamMoves DEF ChildrenGoOn
  <2>2. QED
    BY <1>2, <2>1, StreamReceive DEF Reading
<1>3. CASE Handling(c)
  <2>1. CASE DropPipe(c) \/ HandleError(c)
    <3>1. /\ pc[c] = "handle" => received[c].sig = "ERROR"
          /\ pc'[c] # "handle" /\ Others(c)
          /\ UNCHANGED <<running_task, finished, signals, child, succeeded>>
      BY <2>1 DEF DropPipe, HandleError, StartClear, Goto, Others, TypeOK
    <3>2. QED
      BY <3>1, StreamMoves DEF ChildrenGoOn
  <2>2. QED
    BY <1>3, <2>1, StreamWip, StreamSuccess DEF Handling
<1>4. CASE StopRunning(c)
  <2>1. CASE Kill(c)
    <3>1. /\ pc[c] = "kill" /\ pc'[c] = "forget" /\ Others(c)
          /\ UNCHANGED <<running_task, finished, signals, succeeded>>
      BY <2>1 DEF Kill, Goto, Others, shared, TypeOK
    <3>2. \A p \in Runs : /\ child[p] \in [state: ChildStates, task: 0..pipes, at: 0..NumCases]
                          /\ child'[p] = Killed(p)
      BY <2>1 DEF Kill, TypeOK
    <3>3. ChildrenGoOn
      BY <3>2 DEF Killed, Alive, ChildrenGoOn
    <3>4. QED
      BY <3>1, <3>3, StreamMoves
  <2>2. CASE StopBegin(c) \/ KillRaises(c) \/ Forget(c) \/ Close(c)
    <3>1. pc[c] # "handle" /\ pc'[c] # "handle" /\ Others(c)
          /\ running_task' \in {0, running_task}
          /\ UNCHANGED <<finished, signals, child, succeeded>>
      BY <2>2, Leaves DEF StopBegin, KillRaises, Forget, Close, Begin, StartClear, Goto, Others,
                          shared, TypeOK
    <3>2. QED
      BY <3>1, StreamMoves DEF ChildrenGoOn
  <2>3. QED
    BY <1>4, <2>1, <2>2 DEF StopRunning
<1>5. QED
  BY <1>1, <1>2, <1>3, <1>4 DEF Caller

\* The child of the held run sends what comes next.
LEMMA StreamSends ==
    ASSUME TypeOK, CoreInv, StreamAll, NEW p \in Runs, NEW x \in Signals,
           NEW state \in {"alive", "ended"}, NEW at \in 0..NumCases, Sends(p, x, state, at)
    PROVE  StreamInv' /\ SucceededInv'
<1>1. UNCHANGED <<running_task, finished, pc, mine, received, succeeded>>
  BY DEF Sends, Send, shared, callers
<1>2. child[p].state = "alive" /\ child[p].task = p /\ signals[p] \in Seq(Signals)
      /\ child[p].at \in 0..NumCases
  BY DEF Sends, CoreInv, ChildInv, TypeOK
<1>3. /\ \A r \in Runs \ {p} : child'[r] = child[r] /\ signals'[r] = signals[r]
      /\ child'[p].state = state /\ child'[p].at = at
      /\ signals'[p] = Append(signals[p], x)
  BY DEF Sends, Send, TypeOK
<1>4. /\ \/ x = WIP(child[p].at + 1) /\ at = child[p].at + 1 /\ state = "alive"
         \/ x = SUCCESS /\ at = NumCases /\ at = child[p].at /\ state = "ended"
         \/ x = ERROR(p) /\ at = child[p].at /\ state = "ended"
  BY <1>2 DEF Sends
<1>5. SucceededInv'
  <2>1. succeeded \subseteq Runs \ {p}
    BY <1>2 DEF StreamAll, SucceededInv, TypeOK, Runs
  <2>2. QED
    BY <1>1, <1>3, <2>1 DEF StreamAll, SucceededInv
<1>6. InHand' = InHand /\ InHand \in {0, 1}
  BY <1>1 DEF InHand, HandHolds
<1>7. ASSUME NEW r \in Runs PROVE \E n \in 0..NumCases : StreamOf(r, n)'
  <2>1. PICK n \in 0..NumCases : StreamOf(r, n)
    BY DEF StreamAll, StreamInv
  <2>2. CASE r # p
    <3>1. child'[r] = child[r] /\ signals'[r] = signals[r]
      BY <1>3, <2>2
    <3>2. QED
      BY <1>1, <1>6, <2>1, <3>1 DEF StreamOf, PipeInOrder, HandInv
  <2>3. CASE r = p
    <3>1. n <= child'[r].at
      BY <1>2, <1>3, <1>4, <2>1, <2>3 DEF StreamOf
    <3>2. ASSUME r = running_task PROVE PipeInOrder(r, n + InHand)'
      <4>1. PICK m \in Nat : m = n + InHand
        BY <1>6
      <4>2. InOrder(signals[p], m, child[p].at, "alive", p)
        BY <1>2, <2>1, <2>3, <3>2, <4>1 DEF StreamOf, PipeInOrder
      <4>3. child[p].at \in Nat /\ "alive" # "ended" /\ ERROR(p) # SUCCESS
        BY <1>2, SignalKinds
      <4>4. /\ x = WIP(child[p].at + 1)
                   => InOrder(Append(signals[p], x), m, child[p].at + 1, "alive", p)
            /\ x \in {SUCCESS, ERROR(p)} /\ (x = SUCCESS => child[p].at = NumCases)
                   => InOrder(Append(signals[p], x), m, child[p].at, "ended", p)
        BY <1>2, <4>2, <4>3, StreamAppend
      <4>5. InOrder(Append(signals[p], x), m, at, state, p)
        BY <1>4, <4>3, <4>4
      <4>6. /\ signals'[r] = Append(signals[p], x) /\ n + InHand' = m
            /\ child'[r].at = at /\ child'[r].state = state
        BY <1>3, <1>6, <2>3, <4>1
      <4>7. InOrder(signals'[r], n + InHand', child'[r].at, child'[r].state, r)
        BY <2>3, <4>5, <4>6
      <4>8. QED
        BY <4>7 DEF PipeInOrder
    <3>3. ASSUME r = running_task, NEW d \in Callers PROVE HandInv(d, r, n)'
      <4>1. HandInv(d, r, n)
        BY <2>1, <3>3 DEF StreamOf
      <4>2. QED
        BY <1>1, <1>2, <2>3, <4>1 DEF HandInv
    <3>4. QED
      BY <1>1, <2>1, <3>1, <3>2, <3>3 DEF StreamOf
  <2>4. QED
    BY <2>2, <2>3
<1>8. QED
  BY <1>5, <1>7 DEF StreamInv

LEMMA StreamChild ==
    ASSUME TypeOK, CoreInv, StreamAll, NEW p \in Runs, Child(p) \/ ChildStops(p)
    PROVE  StreamInv' /\ SucceededInv'
<1>1. CASE Child(p)
  BY <1>1, ChildSends, StreamSends
<1>2. CASE ChildStops(p)
  <2>1. PICK how \in {"dead", "hung"} : child' = [child EXCEPT ![p].state = how]
    BY <1>2 DEF ChildStops
  <2>2. UNCHANGED <<running_task, finished, signals, pc, mine, received, succeeded>>
        /\ child[p].state = "alive"
    BY <1>2 DEF ChildStops, shared, callers
  <2>3. ChildrenGoOn
    BY <2>1, <2>2 DEF ChildrenGoOn, TypeOK
  <2>4. HandHolds' <=> HandHolds
    BY <2>2 DEF HandHolds
  <2>5. QED
    BY <2>2, <2>3, <2>4, StreamKept, SucceededKept DEF StreamAll
<1>3. QED
  BY <1>1, <1>2

LEMMA InitSession == Init => SessionInv
<1> SUFFICES ASSUME Init PROVE SessionInv
  OBVIOUS
<1>1. TypeOK
  BY InitTypes
<1>2. \A r \in Runs : child[r] = NoChild /\ NoChild.state = "none" /\ NoChild.at = 0
                      /\ signals[r] = <<>> /\ Len(signals[r]) = 0 /\ finished[r] = {}
  BY DEF Init, NoChild
<1>3. /\ \A c \in Callers : pc[c] = "idle"
      /\ running_task = 0 /\ receive_conn = 0 /\ latest_error = 0 /\ succeeded = {}
  BY DEF Init
<1>4. CoreInv
  <2>1. HeldInv /\ HeldHasChild
    BY <1>3 DEF HeldInv, HeldHasChild
  <2>2. \A c \in Callers : CallerInv(c)
    BY <1>3 DEF CallerInv
  <2>3. \A p \in Runs : ChildInv(p)
    BY <1>2 DEF ChildInv, Alive
  <2>4. ~StartsOverlap
    BY <1>3 DEF StartsOverlap, Starting
  <2>5. QED
    BY <2>1, <2>2, <2>3, <2>4 DEF CoreInv
<1>5. StreamInv
  <2>1. 0 \in 0..NumCases /\ 1..0 = {} /\ \A r \in Runs : r # running_task
    BY <1>3 DEF Runs
  <2>2. \A r \in Runs : StreamOf(r, 0)
    BY <1>2, <2>1 DEF StreamOf
  <2>3. QED
    BY <2>1, <2>2 DEF StreamInv
<1>6. SucceededInv /\ ~ReportsOverlap
  BY <1>3 DEF SucceededInv, ReportsOverlap
<1>7. QED
  BY <1>1, <1>4, <1>5, <1>6 DEF SessionInv

LEMMA SessionStep ==
    ASSUME SessionInv, [Next]_vars
    PROVE  SessionInv'
<1>1. TypeOK /\ TypeOK'
  BY TypeStep DEF SessionInv
<1>2. CASE UNCHANGED vars
  <2> USE <1>2 DEF vars, shared, callers
  <2>1. ASSUME "start" \notin races' PROVE CoreInv'
    BY <1>1, <2>1, CoreStep DEF SessionInv
  <2>2. ASSUME races = {} PROVE StreamInv' /\ SucceededInv' /\ ~ReportsOverlap'
    <3>1. StreamAll /\ ChildrenGoOn
      BY <2>2 DEF SessionInv, StreamAll, ChildrenGoOn
    <3>2. HandHolds' <=> HandHolds
      BY DEF HandHolds
    <3>3. ~ReportsOverlap'
      BY <3>1 DEF StreamAll, ReportsOverlap
    <3>4. QED
      BY <1>1, <3>1, <3>2, <3>3, StreamKept, SucceededKept DEF StreamAll
  <2>3. QED
    BY <1>1, <2>1, <2>2 DEF SessionInv
<1>3. CASE Next
  <2>1. races' = races \cup Overlaps'
    BY <1>3 DEF Next, Noted
  <2>2. ASSUME "start" \notin races' PROVE CoreInv'
    <3>1. CoreInv
      BY <1>1, <2>1, <2>2, NotedRaces DEF SessionInv
    <3>2. QED
      BY <1>1, <1>3, <2>2, <3>1, CoreStep
  <2>3. ASSUME races' = {} PROVE StreamInv' /\ SucceededInv' /\ ~ReportsOverlap'
    <3>1. races = {} /\ ~ReportsOverlap'
      BY <1>1, <2>1, <2>3, NotedRaces
    <3>2. CoreInv /\ StreamAll
      BY <3>1 DEF SessionInv, StreamAll
    <3>3. ASSUME NEW c \in Callers, Noted(Caller(c)) PROVE StreamInv' /\ SucceededInv'
      BY <1>1, <3>1, <3>2, <3>3, StreamCaller DEF Noted
    <3>4. ASSUME NEW p \in Runs, Noted(Child(p) \/ ChildStops(p))
          PROVE  StreamInv' /\ SucceededInv'
      BY <1>1, <3>2, <3>4, StreamChild DEF Noted
    <3>5. QED
      BY <1>3, <3>1, <3>3, <3>4 DEF Next
  <2>4. QED
    BY <1>1, <2>2, <2>3 DEF SessionInv
<1>4. QED
  BY <1>2, <1>3

-----------------------------------------------------------------------------
(* What is seen of a run                                                   *)

\* Nothing that is seen of a run changes.
LEMMA SeenSame ==
    ASSUME NEW r \in Runs, UNCHANGED <<finished, succeeded>>,
           child'[r].task = child[r].task, running_task' = running_task
    PROVE  UNCHANGED Seen(r)!vars
BY DEF Seen!vars, Verdict

\* Cases are taken down one by one, of a run that is running.
LEMMA SeenAdvances ==
    ASSUME TypeOK, CoreInv, StreamAll, NEW c \in Callers, HandleWip(c), NEW r \in Runs
    PROVE  [Seen(r)!Next]_(Seen(r)!vars)
<1>1. /\ pc[c] = "handle" /\ received[c].sig = "WIP" /\ received[c].of \in Cases
      /\ UNCHANGED <<running_task, child, succeeded>>
  BY SignalCases DEF HandleWip, shared, TypeOK
<1>2. CASE r # running_task
  <2>1. finished'[r] = finished[r] /\ Verdict(r)' = Verdict(r)
    BY <1>1, <1>2 DEF HandleWip, TypeOK, Verdict
  <2>2. QED
    BY <2>1 DEF Seen!vars
<1>3. CASE r = running_task
  <2>1. PICK n \in 0..NumCases : StreamOf(r, n)
    BY DEF StreamAll, StreamInv
  <2>2. finished[r] = 1..n /\ received[c] \in {WIP(n + 1), SUCCESS, ERROR(r)}
    BY <1>1, <1>3, <2>1 DEF StreamOf, HandInv
  <2>3. received[c].of = n + 1
    BY <1>1, <2>2, SignalKinds
  <2>4. n < NumCases
    BY <1>1, <2>3 DEF Cases
  <2>5. finished'[r] = 1..(n + 1)
    <3>1. finished' = [finished EXCEPT ![r] = @ \cup {n + 1}]
      BY <1>3, <2>3 DEF HandleWip, Runs
    <3>2. finished'[r] = (1..n) \cup {n + 1}
      BY <2>2, <3>1 DEF TypeOK
    <3>3. (1..n) \cup {n + 1} = 1..(n + 1)
      OBVIOUS
    <3>4. QED
      BY ONLY <3>2, <3>3
  <2>6. Cardinality(finished[r]) = n /\ Cardinality(finished'[r]) = n + 1
    <3>1. \A k \in Nat : Cardinality(1..k) = k
      BY FS_Interval
    <3>2. n \in Nat /\ n + 1 \in Nat
      OBVIOUS
    <3>3. QED
      BY <2>2, <2>5, <3>1, <3>2
  <2>7. r \notin succeeded
    <3>1. NumCases \in Cases /\ NumCases \notin 1..n
      BY <2>4 DEF Cases
    <3>2. QED
      BY <2>2, <3>1 DEF StreamAll, SucceededInv
  <2>8. Verdict(r) = "running" /\ Verdict(r)' = "running"
    BY <1>1, <1>3, <2>7 DEF Verdict
  <2>9. Seen(r)!Advance
    BY <2>4, <2>6, <2>8 DEF Seen!Advance
  <2>10. QED
    BY <2>9 DEF Seen!Next
<1>4. QED
  BY <1>2, <1>3

\* A run let go of has failed, unless it had succeeded.
LEMMA SeenForgotten ==
    ASSUME NEW c, Forget(c), NEW r \in Runs
    PROVE  [Seen(r)!Next]_(Seen(r)!vars)
<1>1. running_task' = 0 /\ UNCHANGED <<finished, child, succeeded>>
  BY DEF Forget
<1>2. CASE Verdict(r)' = Verdict(r)
  BY <1>1, <1>2 DEF Seen!vars
<1>3. CASE Verdict(r) = "running" /\ Verdict(r)' = "failed"
  <2>1. Seen(r)!Fail
    BY <1>1, <1>3 DEF Seen!Fail
  <2>2. QED
    BY <2>1 DEF Seen!Next
<1>4. QED
  BY <1>1, <1>2, <1>3 DEF Verdict, Runs

\* A run succeeds after its last case.
LEMMA SeenSucceeds ==
    ASSUME TypeOK, CoreInv, StreamAll, NEW c \in Callers, HandleSuccess(c), NEW r \in Runs
    PROVE  [Seen(r)!Next]_(Seen(r)!vars)
<1>1. /\ running_task' = 0
      /\ succeeded' = succeeded \cup ({running_task} \ {0})
      /\ UNCHANGED <<finished, child>>
  BY DEF HandleSuccess
<1>2. CASE r # running_task \/ r \in succeeded
  <2>1. Verdict(r)' = Verdict(r)
    BY <1>1, <1>2 DEF Verdict, Runs
  <2>2. QED
    BY <1>1, <2>1 DEF Seen!vars
<1>3. CASE r = running_task /\ r \notin succeeded
  <2>1. SucceededInv' /\ r \in succeeded'
    BY <1>1, <1>3, StreamSuccess DEF Runs
  <2>2. finished[r] = 1..NumCases
    BY <1>1, <2>1 DEF SucceededInv, Cases
  <2>3. Cardinality(finished[r]) = NumCases /\ finished' = finished
    BY <1>1, <2>2, FS_Interval
  <2>4. Verdict(r) = "running" /\ Verdict(r)' = "success"
    BY <1>3, <2>1 DEF Verdict
  <2>5. Seen(r)!Succeed
    BY <2>3, <2>4 DEF Seen!Succeed
  <2>6. QED
    BY <2>5 DEF Seen!Next
<1>4. QED
  BY <1>2, <1>3

\* A run that begins is running before and after.
LEMMA SeenBegins ==
    ASSUME TypeOK, CoreInv, NEW c \in Callers, AssembleTask(c) \/ Submit(c), NEW r \in Runs
    PROVE  UNCHANGED Seen(r)!vars
<1>0. CallerInv(c) /\ HeldInv
  BY DEF CoreInv
<1>1. UNCHANGED <<finished, succeeded>>
  BY DEF AssembleTask, Submit
<1>2. Verdict(r)' = Verdict(r)
  <2>1. CASE AssembleTask(c)
    <3>1. running_task = 0 /\ running_task' = pipes /\ child' = child
          /\ child[pipes] = NoChild /\ NoChild.task = 0
      BY <1>0, <2>1 DEF AssembleTask, CallerInv, NoChild
    <3>2. QED
      BY <1>1, <3>1 DEF Verdict, Runs
  <2>2. CASE Submit(c)
    <3>1. running_task = pipes /\ mine[c] = pipes /\ running_task' = running_task
          /\ pipes # 0
      BY <1>0, <2>2 DEF Submit, shared, CallerInv, HeldInv
    <3>2. r # pipes => child'[r] = child[r]
      BY <2>2, <3>1 DEF Submit, TypeOK
    <3>3. QED
      BY <1>1, <3>1, <3>2 DEF Verdict
  <2>3. QED
    BY <2>1, <2>2
<1>3. QED
  BY <1>1, <1>2 DEF Seen!vars

LEMMA SeenCaller ==
    ASSUME TypeOK, CoreInv, StreamAll, NEW c \in Callers, Caller(c), NEW r \in Runs
    PROVE  [Seen(r)!Next]_(Seen(r)!vars)
<1>1. CASE AssembleTask(c) \/ Submit(c)
  BY <1>1, SeenBegins
<1>2. CASE HandleWip(c)
  BY <1>2, SeenAdvances
<1>3. CASE HandleSuccess(c)
  BY <1>3, SeenSucceeds
<1>4. CASE Forget(c)
  BY <1>4, SeenForgotten
<1>5. CASE \/ RunRefused(c) \/ RunAccepted(c) \/ OpenPipe(c) \/ AssembleFails(c)
           \/ PollBegin(c) \/ PollEnds(c) \/ PollSees(c) \/ Receive(c) \/ ReceiveBlocks(c)
           \/ ReceiveRaises(c) \/ DropPipe(c) \/ HandleError(c) \/ StopBegin(c)
           \/ KillRaises(c) \/ Close(c)
  <2>1. UNCHANGED <<running_task, finished, child, succeeded>>
    BY <1>5 DEF RunRefused, RunAccepted, OpenPipe, AssembleFails, PollBegin, PollEnds, PollSees,
                Receive, ReceiveBlocks, ReceiveRaises, DropPipe, HandleError, StopBegin,
                KillRaises, Close, shared
  <2>2. QED
    BY <2>1, SeenSame
<1>6. CASE Kill(c)
  <2>1. UNCHANGED <<running_task, finished, succeeded>> /\ child'[r] = Killed(r)
    BY <1>6 DEF Kill, shared
  <2>2. child[r] \in [state: ChildStates, task: 0..pipes, at: 0..NumCases]
    BY DEF TypeOK
  <2>3. child'[r].task = child[r].task
    BY <2>1, <2>2 DEF Killed
  <2>4. QED
    BY <2>1, <2>3, SeenSame
<1>7. CASE Run(c)
  BY <1>1, <1>5, <1>7 DEF Run
<1>8. CASE PollBegin(c) \/ Reading(c) \/ Handling(c)
  BY <1>2, <1>3, <1>5, <1>8 DEF Reading, Handling
<1>9. CASE StopRunning(c)
  BY <1>4, <1>5, <1>6, <1>9 DEF StopRunning
<1>10. QED
  BY <1>7, <1>8, <1>9 DEF Caller

LEMMA SeenChild ==
    ASSUME TypeOK, NEW p \in Runs, Child(p) \/ ChildStops(p), NEW r \in Runs
    PROVE  [Seen(r)!Next]_(Seen(r)!vars)
<1>1. CASE Child(p)
  <2>1. PICK x \in Signals, state \in {"alive", "ended"}, at \in 0..NumCases :
            Sends(p, x, state, at)
    BY <1>1, ChildSends
  <2>2. UNCHANGED <<running_task, finished, succeeded>> /\ child'[r].task = child[r].task
    BY <2>1 DEF Sends, Send, shared, TypeOK
  <2>3. QED
    BY <2>2, SeenSame
<1>2. CASE ChildStops(p)
  <2>1. PICK how \in {"dead", "hung"} : child' = [child EXCEPT ![p].state = how]
    BY <1>2 DEF ChildStops
  <2>2. UNCHANGED <<running_task, finished, succeeded>> /\ child'[r].task = child[r].task
    BY <1>2, <2>1 DEF ChildStops, shared, TypeOK
  <2>3. QED
    BY <2>2, SeenSame
<1>3. QED
  BY <1>1, <1>2

LEMMA SeenStep ==
    ASSUME SessionInv, [Next]_vars, races' = {}, NEW r \in Runs
    PROVE  [Seen(r)!Next]_(Seen(r)!vars)
<1>1. CASE UNCHANGED vars
  BY <1>1, SeenSame DEF vars, shared
<1>2. CASE Next
  <2>1. TypeOK /\ races' = races \cup Overlaps'
    BY <1>2 DEF Next, Noted, SessionInv
  <2>2. races = {}
    BY <2>1, NotedRaces
  <2>3. CoreInv /\ StreamAll
    BY <2>2 DEF SessionInv, StreamAll
  <2>4. QED
    BY <1>2, <2>1, <2>3, SeenCaller, SeenChild DEF Next, Noted
<1>3. QED
  BY <1>1, <1>2

-----------------------------------------------------------------------------
(* The theorems                                                            *)

(***************************************************************************)
(* The inductive invariant, for any number of callers: which pipe and task *)
(* are held and whose children are at work, as long as no run was started  *)
(* across another's start or end; and, as long as no two callers handled   *)
(* signals at once either, that what is taken down, in hand and in the     *)
(* pipe is what the child sent, in order.                                  *)
(***************************************************************************)
THEOREM SessionInvariant == Spec => []SessionInv
<1>1. QED
  BY InitSession, SessionStep, PTL DEF Spec

(***************************************************************************)
(* There is never a benchmark without a task to answer for it, nor two at  *)
(* once, however many callers start, poll and stop, but for a run started  *)
(* across another's start or end (interface.py, run, stop_running and      *)
(* _clear_running_task).                                                   *)
(***************************************************************************)
THEOREM OneTaskOneChild == Spec => []ChildBelongsToTask
<1>1. SessionInv => ChildBelongsToTask
  BY DEF SessionInv, CoreInv, ChildInv, ChildBelongsToTask, Runs
<1>2. QED
  BY <1>1, SessionInvariant, PTL

(***************************************************************************)
(* The progress, the success and the error that are shown are those of the *)
(* run they are shown for, whichever of the callers took the signals, as   *)
(* long as no two handle signals at once and none starts a run meanwhile   *)
(* (interface.py, has_running and _try_get_signal).                        *)
(***************************************************************************)
THEOREM TrueReports == Spec => []ReportsAreTrue
<1>1. SessionInv /\ races = {} => ProgressIsHonest
  <2> SUFFICES ASSUME SessionInv, races = {}, NEW r \in Runs
               PROVE  \E n \in 0..child[r].at : finished[r] = 1..n
    BY DEF ProgressIsHonest
  <2>1. PICK n \in 0..NumCases : StreamOf(r, n)
    BY DEF SessionInv, StreamInv
  <2>2. child[r].at \in 0..NumCases
    BY DEF SessionInv, TypeOK
  <2>3. QED
    BY <2>1, <2>2 DEF StreamOf
<1>2. SessionInv /\ races = {} => SuccessSawEveryCase
  BY DEF SessionInv, SucceededInv, SuccessSawEveryCase
<1>3. SessionInv /\ "start" \notin races => ErrorIsOfLastRun
  BY DEF SessionInv, CoreInv, HeldInv, ErrorIsOfLastRun
<1>4. SessionInv => ReportsAreTrue
  BY <1>1, <1>2, <1>3 DEF ReportsAreTrue
<1>5. QED
  BY <1>4, SessionInvariant, PTL

(***************************************************************************)
(* A held run is listened to, by every caller: its child works on it and   *)
(* writes to the pipe that is polled, or a caller is about to make that    *)
(* child, whatever the others stop (interface.py, run, _run_async and      *)
(* _clear_running_task), but for a run started across another's start or   *)
(* end.                                                                    *)
(***************************************************************************)
THEOREM HeldIsHeard == Spec => []HeldRunIsHeard
<1>1. SessionInv => HeldRunIsHeard
  <2> SUFFICES ASSUME SessionInv, "start" \notin races, running_task # 0
               PROVE  /\ receive_conn = running_task
                      /\ \/ child[running_task].task = running_task
                         \/ \E c \in Callers : pc[c] = "submit" /\ mine[c] = running_task
    BY DEF HeldRunIsHeard
  <2>1. CoreInv /\ running_task \in Runs
    BY DEF SessionInv, TypeOK, Runs
  <2>2. QED
    BY <2>1 DEF CoreInv, HeldInv, HeldHasChild, ChildInv
<1>2. QED
  BY <1>1, SessionInvariant, PTL

(***************************************************************************)
(* What the callers see of each run keeps the promise of a run, up to the  *)
(* first harmful overlap: progress by one, success after the last case and *)
(* not after a failure.                                                    *)
(***************************************************************************)
THEOREM SeenKeepsPromise == Spec => SeenRunsKeepPromise
<1>1. Init => \A r \in Runs : Seen(r)!Init
  <2> SUFFICES ASSUME Init, NEW r \in Runs PROVE Seen(r)!Init
    OBVIOUS
  <2>1. finished[r] = {} /\ succeeded = {} /\ child[r].task = 0
    BY DEF Init, NoChild
  <2>2. Cardinality(finished[r]) = 0 /\ Verdict(r) = "running"
    BY <2>1, FS_EmptySet DEF Verdict
  <2>3. QED
    BY <2>2 DEF Seen!Init
<1>2. SessionInv /\ [Next]_vars
          => [races' = {} => \A r \in Runs : [Seen(r)!Next]_(Seen(r)!vars)]_vars
  BY SeenStep
<1>3. QED
  BY <1>1, <1>2, SessionInvariant, PTL DEF Spec, SeenRunsKeepPromise
=============================================================================
