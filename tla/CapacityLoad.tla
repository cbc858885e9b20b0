----------------------------- MODULE CapacityLoad -----------------------------
(*******************************************************************************)
(* A capacity case (SerialInsertRunner.run_endlessness of                         *)
(* backend/runner/serial_runner.py): the first batch of the dataset is inserted    *)
(* again and again, each round under ids of its own, until the database raises an   *)
(* error; the rows counted so far are reported as its capacity.  A failing attempt   *)
(* is repeated from the row after the last one counted.  The database takes limit     *)
(* rows; faults make attempts fail that it had room for.                               *)
(*******************************************************************************)
EXTENDS InsertAttempt

CONSTANTS
  Databases,   \* the databases to fill
  Profile,     \* what the client of each of them does
  BatchSize,   \* insert_batch_size: the rows of a round
  MaxTry,      \* config.LOAD_MAX_TRY_COUNT
  MaxLimit,    \* the largest number of rows a database takes
  MaxRounds,   \* rounds: a bound of the model
  MaxFaults    \* faults of a run

\* The ids the rounds give out, from 0.
Rows == 0 .. BatchSize * MaxRounds - 1

ASSUME CapacityAssumption ==
  /\ Profile \in [Databases -> ClientProfiles]
  /\ BatchSize \in Nat \ {0} /\ MaxTry \in Nat \ {0} /\ MaxLimit \in Nat
  /\ MaxRounds \in Nat \ {0} /\ MaxFaults \in Nat
  /\ MaxCopies \in Nat \ {0} /\ Chunk \in Nat \ {0} /\ Workers \in Nat

VARIABLES
  db,        \* the database
  limit,     \* the rows it takes
  pc,        \* between rounds, inserting, closing, reported or timed out
  copies,    \* how often each row is stored
  total,     \* max_load_count
  already,   \* already_insert_count of the round
  tries,     \* retry_count of the round
  conn,      \* the connection of the round
  clock,     \* whether the case's load_timeout is over
  faults     \* faults so far

vars == <<db, limit, pc, copies, total, already, tries, conn, clock, faults>>

client == Profile[db]

Stored(held) == {x \in Rows \X (1 .. MaxCopies) : x[2] <= held[x[1]]}
Used == Cardinality(Stored(copies))

\* Mutant: every round gives out the same ids.
ToSendSameIds == {r \in Rows : already <= r /\ r < BatchSize}

\* The rows of the round that are not counted yet: metadata[already_insert_count:].
ToSend == {r \in Rows : total + already <= r /\ r < total + BatchSize}

Fits(answer) == Cardinality(Stored(answer.copies)) <= limit

-------------------------------------------------------------------------------
Init ==
  /\ db \in Databases /\ limit \in 0 .. MaxLimit
  /\ pc = "between" /\ clock = "running"
  /\ copies = [r \in Rows |-> 0] /\ total = 0
  /\ already = 0 /\ tries = 0 /\ conn = "usable" /\ faults = 0

\* The time is looked at between rounds only; a round has a connection of its own.
MayStart ==
  pc = "between" /\ clock = "running" /\ total + BatchSize <= BatchSize * MaxRounds

StartRound ==
  /\ MayStart
  /\ pc' = "insert" /\ already' = 0 /\ tries' = 0 /\ conn' = "usable"
  /\ UNCHANGED <<db, limit, copies, total, clock, faults>>

\* Any exception is the limit: so is an error raised by the client, the one of the last
\* attempt, the assertion that the counts of a round add up, and a connection that cannot
\* be opened or closed.
ReachLimit == pc' = "reported" /\ UNCHANGED total

LoseConnection ==
  /\ faults < MaxFaults /\ faults' = faults + 1
  /\ ReachLimit /\ conn' = "lost"
  /\ UNCHANGED <<db, limit, copies, already, tries, clock>>

\* db.init() raises when a round begins.
OpenFails == MayStart /\ LoseConnection

\* It raises when the round ends, whose rows are not counted then.
CloseFails == pc = "close" /\ LoseConnection

TimesOut ==
  /\ pc = "between" /\ clock = "over"
  /\ pc' = "timed_out"
  /\ UNCHANGED <<db, limit, copies, total, already, tries, conn, clock, faults>>

EndRound(count) ==
  IF already + count = BatchSize
  THEN pc' = "close" /\ UNCHANGED total
  ELSE ReachLimit

\* The round is counted when its connection is closed.
CloseRound ==
  /\ pc = "close"
  /\ pc' = "between" /\ total' = total + already
  /\ UNCHANGED <<db, limit, copies, already, tries, conn, clock, faults>>

\* Mutant: the attempts are not counted.
NotAnotherTry == UNCHANGED <<tries, pc, total>>

AnotherTry ==
  /\ tries' = tries + 1
  /\ IF tries + 1 >= MaxTry THEN ReachLimit ELSE UNCHANGED <<pc, total>>

TakeAnswer(answer) ==
  /\ copies' = answer.copies
  /\ already' = already + answer.count
  /\ \/ answer.ok /\ EndRound(answer.count) /\ UNCHANGED <<tries, conn>>
     \/ /\ ~answer.ok /\ client.insert.fails = "report"
        /\ AnotherTry /\ conn' = client.insert.after
     \/ ~answer.ok /\ client.insert.fails \in {"raise", "final"} /\ ReachLimit
        /\ UNCHANGED <<tries, conn>>
     \/ ~answer.ok /\ client.insert.fails = "again" /\ UNCHANGED <<pc, total, tries, conn>>
  /\ UNCHANGED <<db, limit, clock>>

Refusal == [copies |-> copies, count |-> 0, ok |-> FALSE]

\* A full database lets some of the rows in, or none; where errors are lost the client
\* reports success.
Crowded ==
  {answer \in (IF client.insert.quiet
               THEN Faulty(client.insert, copies, ToSend)
               ELSE Failing(client.insert, copies, ToSend)) : Fits(answer)}

\* What the client raises before it writes, whatever it does with later errors.
InsertRaises ==
  /\ pc = "insert"
  /\ \/ TooFew(client.insert, ToSend) /\ UNCHANGED faults
     \/ client.insert.raises = "first" /\ faults < MaxFaults /\ faults' = faults + 1
  /\ ReachLimit
  /\ UNCHANGED <<db, limit, copies, already, tries, conn, clock>>

InsertRows ==
  /\ pc = "insert" /\ ~TooFew(client.insert, ToSend)
  /\ \E answer \in
       IF conn = "aborted" THEN {Refusal}
       ELSE IF \A answer \in Undisturbed(client.insert, copies, ToSend) : Fits(answer)
       THEN Undisturbed(client.insert, copies, ToSend)
       ELSE Crowded :
       TakeAnswer(answer)
  /\ UNCHANGED faults

InsertRowsFails ==
  /\ pc = "insert" /\ conn = "usable" /\ ~TooFew(client.insert, ToSend)
  /\ faults < MaxFaults /\ faults' = faults + 1
  /\ \E answer \in Faulty(client.insert, copies, ToSend) : Fits(answer) /\ TakeAnswer(answer)

TimePasses ==
  /\ clock = "running" /\ clock' = "over"
  /\ UNCHANGED <<db, limit, pc, copies, total, already, tries, conn, faults>>

Ended == pc \in {"reported", "timed_out"} /\ UNCHANGED vars

Runner ==
  \/ StartRound \/ OpenFails \/ CloseRound \/ CloseFails \/ TimesOut
  \/ InsertRows \/ InsertRowsFails \/ InsertRaises

Next == Runner \/ TimePasses \/ Ended

Spec == Init /\ [][Next]_vars

FairSpec == Spec /\ WF_vars(Runner) /\ WF_vars(TimePasses)

-------------------------------------------------------------------------------
TypeOK ==
  /\ db \in Databases /\ limit \in 0 .. MaxLimit
  /\ pc \in {"between", "insert", "close", "reported", "timed_out"}
  /\ clock \in {"running", "over"}
  /\ copies \in [Rows -> 0 .. MaxCopies] /\ total \in Nat /\ already \in Nat
  /\ tries \in 0 .. MaxTry /\ conn \in {"usable", "aborted", "lost"} /\ faults \in 0 .. MaxFaults

\* Clients that neither lose rows without an error nor count rows that are not there, or
\* others than those that are: a client that writes in any order must not count with an
\* error, or else skip or refuse what is there.
Counts(p) ==
  /\ ~p.insert.quiet /\ p.insert.counts \in {"none", "prefix", "written"}
  /\ (p.insert.leaves = "any" /\ p.insert.again \in {"once", "add"}) => p.insert.counts = "none"

\* Every row of the capacity that is reported is in the database: a batch that is sent again
\* from the row after the last one counted leaves no row out.
CapacityIsStored ==
  (pc = "reported" /\ Counts(client)) => \A r \in Rows : r < total => copies[r] > 0

\* Clients that report an error and can have the rows sent again.
Resends(p) ==
  /\ p.insert.fails = "report" /\ p.insert.after = "usable"
  /\ p.insert.again \in {"once", "add"} /\ p.insert.counts # "chunks"
  /\ p.insert.raises = "nothing"

\* A capacity is reported when another round does not fit, or after MaxTry attempts in a row
\* that failed for another reason.  A single connection that cannot be opened or closed is
\* taken for the limit too, whatever room is left (serial_runner.py 53 and 126).
CapacityMeansFull ==
  (pc = "reported" /\ Resends(client) /\ conn # "lost")
    => (limit - Used < BatchSize \/ faults >= MaxTry)

\* A capacity that is reported is in the database, and is all it takes
\* (serial_runner.py 131-232).
CapacityIsHonest == CapacityIsStored /\ CapacityMeansFull

\* The case ends, by the limit of the database or by its time: unless the client tries again
\* by itself for ever, with a database that is full.
CapacityEnds == (client.insert.fails # "again") => <>(pc \in {"reported", "timed_out"})

===============================================================================
