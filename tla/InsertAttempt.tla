----------------------------- MODULE InsertAttempt -----------------------------
(*******************************************************************************)
(* One call of insert_embeddings against the rows that are there: what it can   *)
(* leave in the database and what it can report.  Rows are numbers; copies[r]    *)
(* is how often the row r is stored.                                             *)
(*******************************************************************************)
EXTENDS ClientKinds

CONSTANT MaxCopies, \* a row stored more often than this counts as this often
         Chunk,     \* rows of a sub-batch of a client that counts whole chunks
         Workers    \* rows that a client needs to give each of its workers one

Least(a, b) == IF a < b THEN a ELSE b

\* The batch cannot be shared among the workers.
TooFew(p, sent) == p.raises = "few" /\ Cardinality(sent) < Workers

\* The rows of sent that are stored already.
There(copies, sent) == {r \in sent : copies[r] > 0}

\* What the database holds after the rows of written were written to it.
Written(p, copies, written) ==
  [r \in DOMAIN copies |->
     IF r \notin written THEN copies[r]
     ELSE IF p.again = "add" THEN Least(copies[r] + 1, MaxCopies) ELSE 1]

\* The rows that go before the row r when the rows of sent are written in order.
Before(sent, r) == {s \in sent : s < r}

\* The rows an attempt can write: a key that is there is skipped, or refused
\* with the request it is in.
Writable(p, copies, sent) ==
  IF p.again \in {"refuse", "skip"} THEN sent \ There(copies, sent) ELSE sent

\* The sets of rows a failing attempt can have written.  All of them: its answer
\* was lost.
Partial(p, copies, sent) ==
  LET able == Writable(p, copies, sent) IN
  {w \in SUBSET able :
     \/ w = {}
     \/ w = sent
     \/ p.leaves = "any"
     \/ p.leaves = "prefix" /\ \E r \in sent : w = Before(sent, r)}

\* The counts it can report with the error.
ErrorCounts(p, sent, w) ==
  CASE p.counts = "none" -> {0}
    [] p.counts = "prefix" -> {n \in 0 .. Cardinality(sent) : n <= Cardinality(w) /\ Cardinality(w) <= n + 1}
    [] p.counts = "any" -> 0 .. Cardinality(w)
    [] p.counts = "sent" -> {Cardinality(sent)}
    [] p.counts = "written" -> {0, Cardinality(w)}
    [] p.counts = "chunks" -> {Chunk * (Cardinality(w) \div Chunk),
                               Chunk * ((Cardinality(w) + Chunk - 1) \div Chunk)}

\* The count it reports with success.
OkCount(p, sent) ==
  IF p.counts = "chunks"
  THEN Chunk * ((Cardinality(sent) + Chunk - 1) \div Chunk)
  ELSE Cardinality(sent)

\* A key that is there makes the attempt fail by itself.
Blocked(p, copies, sent) == p.again \in {"refuse", "skip"} /\ There(copies, sent) # {}

Failing(p, copies, sent) ==
  UNION {{[copies |-> Written(p, copies, w), count |-> n, ok |-> FALSE] :
            n \in ErrorCounts(p, sent, w)} : w \in Partial(p, copies, sent)}

\* What the database does of itself.
Undisturbed(p, copies, sent) ==
  IF Blocked(p, copies, sent)
  THEN IF p.again = "skip"
       THEN LET w == Writable(p, copies, sent) IN
            {[copies |-> Written(p, copies, w), count |-> Cardinality(w), ok |-> FALSE]}
       ELSE Failing(p, copies, sent)
  ELSE {[copies |-> Written(p, copies, sent), count |-> OkCount(p, sent), ok |-> TRUE]}

\* What a fault makes of it: an error, or rows that are silently missing.
Faulty(p, copies, sent) ==
  Failing(p, copies, sent)
  \cup IF p.quiet
       THEN {[copies |-> Written(p, copies, w), count |-> OkCount(p, sent), ok |-> TRUE] :
               w \in SUBSET sent}
       ELSE {}

===============================================================================
