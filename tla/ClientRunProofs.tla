--------------------------- MODULE ClientRunProofs ---------------------------
(*******************************************************************************)
(* Proofs about ClientRun, for every database that a profile can describe and    *)
(* every number of rows, batch size, number of retries and number of faults        *)
(*******************************************************************************)
EXTENDS ClientRun, FiniteSetTheorems, TLAPS

-------------------------------------------------------------------------------
(* What one attempt leaves and answers                                          *)

\* Writing rows keeps the rows that are there; a row that is written is there, and there
\* once unless the database adds it to one that was.
LEMMA WrittenRows ==
  ASSUME NEW p \in Insertions, NEW c \in [Rows -> 0 .. MaxCopies], NEW w \in SUBSET Rows
  PROVE  /\ Written(p, c, w) \in [Rows -> 0 .. MaxCopies]
         /\ \A r \in Rows : /\ r \notin w => Written(p, c, w)[r] = c[r]
                            /\ r \in w => Written(p, c, w)[r] >= 1
                            /\ r \in w /\ (p.again # "add" \/ c[r] = 0) => Written(p, c, w)[r] = 1
BY ClientRunAssumption, SMTT(30) DEF Written, Least

\* An attempt writes some of the rows sent.
LEMMA AnswerRows ==
  ASSUME NEW p \in Insertions, NEW c \in [Rows -> 0 .. MaxCopies], NEW sent \in SUBSET Rows,
         NEW answer \in Undisturbed(p, c, sent) \cup Faulty(p, c, sent)
  PROVE  \E w \in SUBSET sent : answer.copies = Written(p, c, w)
<1> DEFINE able == Writable(p, c, sent)
<1>1. able \subseteq sent
  BY DEF Writable
<1>2. \A w \in Partial(p, c, sent) : w \in SUBSET sent
  BY <1>1 DEF Partial
<1>3. CASE answer \in Failing(p, c, sent)
  BY <1>2, <1>3 DEF Failing
<1>4. CASE answer \notin Failing(p, c, sent)
  <2>1. \/ answer = [copies |-> Written(p, c, able), count |-> Cardinality(able), ok |-> FALSE]
        \/ answer = [copies |-> Written(p, c, sent), count |-> OkCount(p, sent), ok |-> TRUE]
        \/ \E w \in SUBSET sent :
             answer = [copies |-> Written(p, c, w), count |-> OkCount(p, sent), ok |-> TRUE]
    BY <1>4 DEF Undisturbed, Faulty
  <2> QED
    BY <2>1, <1>1
<1> QED
  BY <1>3, <1>4

\* An attempt that reports success has written all rows, unless it loses rows silently, and
\* no row that must not be written again was there.
LEMMA SuccessRows ==
  ASSUME NEW p \in Insertions, NEW c \in [Rows -> 0 .. MaxCopies], NEW sent \in SUBSET Rows,
         NEW answer \in Undisturbed(p, c, sent) \cup Faulty(p, c, sent), answer.ok
  PROVE  /\ answer.count = OkCount(p, sent)
         /\ ~p.quiet => answer.copies = Written(p, c, sent) /\ ~Blocked(p, c, sent)
<1>1. answer \notin Failing(p, c, sent)
  BY DEF Failing
<1>2. \/ ~Blocked(p, c, sent)
         /\ answer = [copies |-> Written(p, c, sent), count |-> OkCount(p, sent), ok |-> TRUE]
      \/ p.quiet /\ \E w \in SUBSET sent :
           answer = [copies |-> Written(p, c, w), count |-> OkCount(p, sent), ok |-> TRUE]
  BY <1>1 DEF Undisturbed, Faulty
<1> QED
  BY <1>2

\* A client that writes a key again without an error reports success when nothing fails.
LEMMA UndisturbedSucceeds ==
  ASSUME NEW p \in Insertions, NEW c, NEW sent, p.again \in {"once", "add"},
         NEW answer \in Undisturbed(p, c, sent)
  PROVE  answer.ok
BY DEF Undisturbed, Blocked

-------------------------------------------------------------------------------
(* Batches and stored rows                                                      *)

\* A batch is some rows of the dataset; the next one starts after it.
LEMMA BatchRows ==
  ASSUME next \in 1 .. NumRows
  PROVE  /\ Batch \in SUBSET Rows
         /\ Cardinality(Batch) \in Nat \ {0}
         /\ next + Cardinality(Batch) \in 1 .. NumRows + 1
         /\ \A r \in Rows : r < next + Cardinality(Batch) <=> r < next \/ r \in Batch
<1> DEFINE last == Least(next + BatchSize - 1, NumRows)
<1>1. last \in Int /\ next <= last /\ last <= NumRows
  BY ClientRunAssumption DEF Least
<1>2. Cardinality(Batch) = last - next + 1
  BY <1>1, FS_Interval DEF Batch
<1> QED
  BY <1>1, <1>2, ClientRunAssumption DEF Batch, Rows

\* There are finitely many rows stored, whatever the copies.
LEMMA StoredIsFinite ==
  ASSUME NEW c
  PROVE  LET st == {x \in Rows \X (1 .. MaxCopies) : x[2] <= c[x[1]]}
         IN  IsFiniteSet(st) /\ Cardinality(st) \in Nat
<1>1. IsFiniteSet(Rows) /\ IsFiniteSet(1 .. MaxCopies)
  BY ClientRunAssumption, FS_Interval DEF Rows
<1>2. IsFiniteSet(Rows \X (1 .. MaxCopies))
  BY <1>1, FS_Product
<1> QED
  BY <1>2, FS_Subset, FS_CardinalityType

\* With every row once, as many are stored as the dataset has.
LEMMA StoredOnce ==
  ASSUME copies = [r \in Rows |-> 1]
  PROVE  Cardinality(Stored) = NumRows
<1>1. IsFiniteSet(Rows) /\ Cardinality(Rows) = NumRows
  BY ClientRunAssumption, FS_Interval DEF Rows
<1>2. Stored = Rows \X {1}
  BY ClientRunAssumption DEF Stored
<1>3. IsFiniteSet({1}) /\ Cardinality({1}) = 1
  BY FS_Singleton
<1>4. Cardinality(Rows \X {1}) = Cardinality(Rows) * Cardinality({1})
  BY <1>1, <1>3, FS_Product
<1> QED
  BY <1>1, <1>2, <1>3, <1>4, ClientRunAssumption

\* A client that does not count whole sub-batches counts the rows it was sent.
LEMMA CountOfSuccess ==
  ASSUME NEW p \in Insertions, NEW sent, Cardinality(sent) \in Nat
  PROVE  /\ OkCount(p, sent) \in Nat
         /\ p.counts # "chunks" => OkCount(p, sent) = Cardinality(sent)
<1> DEFINE n == (Cardinality(sent) + Chunk - 1) \div Chunk
<1>1. n \in Nat
  BY ClientRunAssumption, SMTT(30)
<1>2. Chunk * n \in Nat
  <2> HIDE DEF n
  <2> QED
    BY <1>1, ClientRunAssumption, SMTT(30)
<1> QED
  BY <1>2 DEF OkCount

-------------------------------------------------------------------------------
(* The inductive invariant                                                      *)

\* The case drops the old rows and has got past the constructor.
Loads == dropOld /\ pc \notin {"prepare", "failed"}

\* What has been written and counted of the dataset: the batches before next, and what
\* failing attempts left of the current one.
WrittenSoFar ==
  /\ (\E r \in Rows : copies[r] > 0) => present
  /\ (Loads /\ ~client.insert.quiet) => \A r \in Rows : r < next => copies[r] > 0
  /\ (Loads /\ Exact(client)) =>
       /\ extra = 0 /\ loaded = next - 1
       /\ \A r \in Rows : /\ r < next => copies[r] = 1
                          /\ r >= next => copies[r] \in {0, 1}
                          /\ r >= next /\ r \notin Batch => copies[r] = 0
       /\ client.insert.again = "add" =>
            conn = "aborted" \/ \A r \in Rows : r >= next => copies[r] = 0

\* A batch that can be sent again is refused by nothing but a fault.
AttemptsSoFar ==
  /\ (Loads /\ Resendable(client)) =>
       /\ conn = "usable" /\ tries <= faults
       /\ present \/ client.prepare.make = "at_write"
  /\ (pc # "failed") => why = "none"

\* Before the constructor has run nothing is sent.
NothingSent == (pc = "prepare") => next = 1 /\ loaded = 0 /\ tries = 0 /\ conn = "usable"

\* The load is over when the case has got past it.
LoadIsOver == (Loads /\ pc # "load") => next = NumRows + 1

\* What queries and counts see.
ShownSoFar ==
  /\ (Loads /\ Exact(client) /\ pc = "load") => shown = 0
  /\ (Loads /\ pc # "load") => (indexed => shown = Cardinality(Stored))
  /\ (Loads /\ Exact(client)) => shown <= Cardinality(Stored)
  /\ (pc \in {"searchable", "indexed"}) => task = "cloud_insert"
  /\ (pc \in {"optimize", "search"}) => task = "performance"
  /\ (answers # "none") => pc = "done"
  /\ (answers # "none") => pc = "done"

IInv ==
  /\ TypeOK /\ WrittenSoFar /\ AttemptsSoFar /\ NothingSent /\ LoadIsOver /\ ShownSoFar
  /\ StoredAsCounted /\ RetriesAreUsed /\ MeasuredWhenReady /\ AnswerIsReal

-------------------------------------------------------------------------------
(* The invariant holds initially and every step keeps it                        *)

USE DEF vars, choice, stored, service, load, dropOld, present, indexed

LEMMA ClientType == TypeOK => client \in ClientProfiles
BY ClientRunAssumption DEF TypeOK, client

LEMMA InitIInv == Init => IInv
<1> SUFFICES ASSUME Init PROVE IInv
  OBVIOUS
<1>0. copies \in [Rows -> 0 .. MaxCopies] /\ (present \/ \A r \in Rows : copies[r] = 0)
  BY ClientRunAssumption DEF Init
<1>1. shown \in Nat
  BY StoredIsFinite DEF Init, Stored
<1>2. TypeOK
  BY <1>0, <1>1, ClientRunAssumption DEF Init, TypeOK
<1>3. (\E r \in Rows : copies[r] > 0) => present
  BY <1>0
<1>4. ~Loads /\ why = "none" /\ pc = "prepare" /\ answers = "none"
  BY DEF Init, Loads
<1>5. WrittenSoFar /\ AttemptsSoFar /\ LoadIsOver /\ ShownSoFar
  BY <1>3, <1>4 DEF WrittenSoFar, AttemptsSoFar, LoadIsOver, ShownSoFar
<1>6. NothingSent
  BY DEF Init, NothingSent
<1>7. StoredAsCounted /\ RetriesAreUsed /\ MeasuredWhenReady /\ AnswerIsReal
  BY <1>4 DEF StoredAsCounted, RetriesAreUsed, MeasuredWhenReady, AnswerIsReal
<1> QED
  BY <1>2, <1>5, <1>6, <1>7 DEF IInv

\* The constructor.
LEMMA PrepareStep ==
  ASSUME IInv, PrepareDropping \/ PrepareKeeping \/ PrepareFails
  PROVE  IInv'
<1> DEFINE p == client
<1>0. p \in ClientProfiles /\ p' = p
  BY ClientType DEF IInv, PrepareDropping, PrepareKeeping, PrepareFails, client
<1>1. pc = "prepare" /\ why = "none" /\ UNCHANGED <<db, task, drop, next, loaded, tries, conn, answers>>
      /\ next = 1 /\ loaded = 0 /\ tries = 0 /\ conn = "usable"
  BY DEF IInv, NothingSent, AttemptsSoFar, PrepareDropping, PrepareKeeping, PrepareFails
<1>2. /\ faults' \in {faults, faults + 1} /\ faults' \in 0 .. MaxFaults
      /\ pc' \in {"load", "search", "failed"}
      /\ pc' = "failed" => why' = "prepare"
      /\ pc' # "failed" => why' = "none" /\ (pc' = "search" <=> task = "performance" /\ ~dropOld)
  BY <1>1, ClientRunAssumption
     DEF IInv, TypeOK, PrepareDropping, PrepareKeeping, PrepareFails, AfterPrepare, Fail, Fault
<1>3. /\ container' \in {"there", "missing"} /\ extra' \in {0, 1}
      /\ index' \in {"complete", "pending"}
      /\ copies' \in [Rows -> 0 .. MaxCopies] /\ shown' \in Nat
  BY ClientRunAssumption DEF IInv, TypeOK, PrepareDropping, PrepareKeeping, PrepareFails
<1>4. TypeOK'
  BY <1>1, <1>2, <1>3 DEF IInv, TypeOK
<1>5. \A r \in Rows : r \in Nat /\ r >= 1
  BY DEF Rows
<1>6. (\E r \in Rows : copies'[r] > 0) => present'
  BY DEF IInv, WrittenSoFar, PrepareDropping, PrepareKeeping, PrepareFails
<1>7. pc' # "failed" /\ dropOld /\ p.prepare.old = "drop" /\ p.prepare.oldFails = "raise"
        => extra' = 0 /\ shown' = 0 /\ \A r \in Rows : copies'[r] = 0
  BY DEF PrepareDropping, PrepareKeeping, PrepareFails, Fail
<1>8. WrittenSoFar'
  <2>1. (Loads /\ Exact(client))' => extra' = 0 /\ loaded' = next' - 1 /\ \A r \in Rows : copies'[r] = 0
    BY <1>0, <1>1, <1>7 DEF Loads, Exact
  <2> QED
    BY <1>0, <1>1, <1>5, <1>6, <2>1 DEF WrittenSoFar
<1>9. pc' # "failed" /\ dropOld => present' \/ p.prepare.make = "at_write"
  <2>1. CASE PrepareDropping
    BY <2>1 DEF PrepareDropping
  <2>2. CASE PrepareKeeping
    BY <2>2 DEF PrepareKeeping
  <2>3. CASE PrepareFails
    BY <2>3 DEF PrepareFails, Fail
  <2> QED
    BY <2>1, <2>2, <2>3
<1>10. AttemptsSoFar' /\ RetriesAreUsed'
  BY <1>0, <1>1, <1>2, <1>4, <1>9 DEF AttemptsSoFar, Loads, RetriesAreUsed, TypeOK
<1>11. NothingSent' /\ LoadIsOver' /\ StoredAsCounted' /\ MeasuredWhenReady' /\ AnswerIsReal'
  BY <1>1, <1>2 DEF NothingSent, LoadIsOver, Loads, StoredAsCounted, MeasuredWhenReady, AnswerIsReal
<1>12. Cardinality(Stored)' \in Nat
  BY StoredIsFinite DEF Stored
<1>13. ShownSoFar'
  BY <1>0, <1>1, <1>2, <1>7, <1>12 DEF IInv, ShownSoFar, Loads, Exact
<1> QED
  BY <1>4, <1>8, <1>10, <1>11, <1>13 DEF IInv

\* One attempt at a batch.
LEMMA SendStep ==
  ASSUME IInv, SendBatch \/ SendBatchFails
  PROVE  IInv'
<1> DEFINE p == client.insert
<1>0. client \in ClientProfiles /\ client' = client /\ p \in Insertions
  BY ClientType DEF IInv, SendBatch, SendBatchFails, TakeAnswer, client, ClientProfiles
<1>1. pc = "load" /\ why = "none" /\ next \in 1 .. NumRows /\ tries \in 0 .. MaxRetry /\ loaded \in Nat
      /\ copies \in [Rows -> 0 .. MaxCopies] /\ faults \in 0 .. MaxFaults
      /\ conn \in {"usable", "aborted"}
  BY ClientRunAssumption DEF IInv, TypeOK, AttemptsSoFar, SendBatch, SendBatchFails
<1>2. PICK answer :
        /\ TakeAnswer(answer)
        /\ \/ Refused /\ answer = Refusal /\ faults' = faults
           \/ ~Refused /\ answer \in Undisturbed(p, copies, Batch) /\ faults' = faults
           \/ ~Refused /\ answer \in Faulty(p, copies, Batch) /\ Fault
  BY DEF SendBatch, SendBatchFails
<1> DEFINE last == next + Cardinality(Batch)
<1>3. /\ Batch \in SUBSET Rows /\ Cardinality(Batch) \in Nat \ {0}
      /\ last \in 1 .. NumRows + 1
      /\ \A r \in Rows : r < last <=> r < next \/ r \in Batch
  BY <1>1, BatchRows
<1>4. UNCHANGED <<db, task, drop, extra, shown, index, answers>> /\ copies' = answer.copies
  BY <1>2 DEF TakeAnswer
<1>5. PICK w \in SUBSET Batch : copies' = Written(p, copies, w) /\ (Refused => w = {})
  <2>1. CASE Refused
    <3>1. Written(p, copies, {}) = copies
      BY <1>1 DEF Written
    <3> QED
      BY <1>2, <1>4, <2>1, <3>1 DEF Refusal
  <2>2. CASE ~Refused
    BY <1>0, <1>1, <1>2, <1>3, <1>4, <2>2, AnswerRows
  <2> QED
    BY <2>1, <2>2
<1>6. /\ copies' \in [Rows -> 0 .. MaxCopies]
      /\ \A r \in Rows : /\ r \notin w => copies'[r] = copies[r]
                         /\ r \in w => copies'[r] >= 1
                         /\ r \in w /\ (p.again # "add" \/ copies[r] = 0) => copies'[r] = 1
                         /\ copies[r] > 0 => copies'[r] > 0
  <2>1. w \in SUBSET Rows
    BY <1>3
  <2> QED
    BY <1>0, <1>1, <1>5, <2>1, WrittenRows, ClientRunAssumption
<1>7. container' \in {"there", "missing"} /\ (present => present') /\ (copies' # copies => present')
  BY <1>2, <1>4 DEF TakeAnswer, IInv, TypeOK
<1>8. (\E r \in Rows : copies'[r] > 0) => present'
  BY <1>7 DEF IInv, WrittenSoFar
<1>9. faults' \in 0 .. MaxFaults /\ faults' >= faults
  BY <1>1, <1>2, ClientRunAssumption DEF Fault
<1>10. Cardinality(Stored)' \in Nat
  BY StoredIsFinite DEF Stored
<1>11. Resendable(client) /\ Loads => ~Refused
  BY DEF IInv, AttemptsSoFar, Refused, Loads
<1>12. CASE answer.ok
  <2>1. ~Refused /\ conn = "usable"
    BY <1>1, <1>2, <1>12 DEF Refusal, Refused
  <2>2. answer \in Undisturbed(p, copies, Batch) \cup Faulty(p, copies, Batch)
    BY <1>2, <2>1
  <2>3. /\ answer.count = OkCount(p, Batch)
        /\ ~p.quiet => answer.copies = Written(p, copies, Batch) /\ ~Blocked(p, copies, Batch)
    BY <1>0, <1>1, <1>3, <1>12, <2>2, SuccessRows
  <2>4. next' = last /\ loaded' = loaded + OkCount(p, Batch) /\ tries' = 0 /\ pc' = "load" /\ why' = "none"
        /\ conn' = "usable"
    BY <1>1, <1>2, <1>12, <2>1, <2>3 DEF TakeAnswer, TakeSuccess
  <2>5. OkCount(p, Batch) \in Nat /\ (p.counts # "chunks" => OkCount(p, Batch) = Cardinality(Batch))
    BY <1>0, <1>3, CountOfSuccess
  <2>6. TypeOK'
    BY <1>1, <1>3, <1>4, <1>6, <1>7, <1>9, <2>4, <2>5, ClientRunAssumption DEF IInv, TypeOK
  <2>7. ~p.quiet => \A r \in Rows : /\ r \notin Batch => copies'[r] = copies[r]
                                    /\ r \in Batch => copies'[r] > 0
                                    /\ r \in Batch /\ (p.again # "add" \/ copies[r] = 0) => copies'[r] = 1
    <3>1. Batch \in SUBSET Rows
      BY <1>3
    <3> QED
      BY <1>0, <1>1, <1>4, <2>3, <3>1, WrittenRows, ClientRunAssumption
  <2>8. (Loads' /\ ~p.quiet) => \A r \in Rows : r < next' => copies'[r] > 0
    BY <1>0, <1>1, <1>3, <1>4, <2>4, <2>7 DEF IInv, WrittenSoFar, Loads
  <2>9. (Loads' /\ Exact(client)) =>
           /\ extra' = 0 /\ loaded' = next' - 1
           /\ \A r \in Rows : r < next' => copies'[r] = 1
           /\ \A r \in Rows : r >= next' => copies'[r] = 0
    <3> SUFFICES ASSUME Loads', Exact(client)
                 PROVE  /\ extra' = 0 /\ loaded' = next' - 1
                        /\ \A r \in Rows : r < next' => copies'[r] = 1
                        /\ \A r \in Rows : r >= next' => copies'[r] = 0
      OBVIOUS
    <3>1. Loads /\ ~p.quiet /\ p.counts # "chunks"
      BY <1>1, <1>4 DEF Loads, Exact
    <3>2. extra = 0 /\ loaded = next - 1
          /\ (\A r \in Rows : /\ r < next => copies[r] = 1
                              /\ r >= next /\ r \notin Batch => copies[r] = 0)
          /\ (p.again = "add" => \A r \in Rows : r >= next => copies[r] = 0)
      BY <2>1, <3>1 DEF IInv, WrittenSoFar
    <3>3. extra' = 0 /\ loaded' = next' - 1
      BY <1>1, <1>3, <1>4, <2>4, <2>5, <3>1, <3>2
    <3>4. \A r \in Rows : r \in Nat /\ (r \in Batch => r >= next)
      BY <1>1 DEF Rows, Batch
    <3>5. ASSUME NEW r \in Rows, r < next' PROVE copies'[r] = 1
      <4>1. r < next \/ r \in Batch
        BY <1>3, <2>4, <3>5
      <4>2. CASE r \in Batch
        BY <2>7, <3>1, <3>2, <3>4, <4>2
      <4>3. CASE r \notin Batch
        BY <2>7, <3>1, <3>2, <4>1, <4>3
      <4> QED
        BY <4>2, <4>3
    <3>6. ASSUME NEW r \in Rows, r >= next' PROVE copies'[r] = 0
      <4>1. r \notin Batch /\ r >= next
        BY <1>1, <1>3, <2>4, <3>4, <3>6
      <4> QED
        BY <2>7, <3>1, <3>2, <4>1
    <3> QED
      BY <3>3, <3>5, <3>6
  <2>10. WrittenSoFar'
    BY <1>0, <1>8, <2>8, <2>9 DEF WrittenSoFar, Exact
  <2>11. AttemptsSoFar' /\ RetriesAreUsed' /\ NothingSent' /\ LoadIsOver'
    BY <1>0, <1>1, <1>4, <1>7, <1>9, <2>4
       DEF IInv, AttemptsSoFar, RetriesAreUsed, NothingSent, LoadIsOver, Loads
  <2>12. ShownSoFar'
    BY <1>0, <1>1, <1>4, <1>10, <2>4 DEF IInv, ShownSoFar, Loads
  <2>13. StoredAsCounted' /\ MeasuredWhenReady' /\ AnswerIsReal'
    BY <2>4 DEF StoredAsCounted, MeasuredWhenReady, AnswerIsReal
  <2> QED
    BY <2>6, <2>10, <2>11, <2>12, <2>13 DEF IInv
<1>13. CASE ~answer.ok
  <2>1. /\ next' = next /\ loaded' = loaded /\ conn' = p.after
        /\ \/ p.fails = "again" /\ UNCHANGED <<pc, why, tries>>
           \/ p.fails = "report" /\ tries < MaxRetry /\ tries' = tries + 1 /\ UNCHANGED <<pc, why>>
           \/ p.fails = "report" /\ tries >= MaxRetry /\ pc' = "failed" /\ why' = "insert" /\ tries' = tries
           \/ p.fails \in {"raise", "final"} /\ pc' = "failed" /\ why' = "insert" /\ tries' = tries
    BY <1>2, <1>13 DEF TakeAnswer, TakeFailure, Fail
  <2>2. pc' \in {"load", "failed"} /\ tries' \in 0 .. MaxRetry /\ why' \in {"none", "insert"}
        /\ conn' \in {"usable", "aborted"}
    BY <1>0, <1>1, <2>1, ClientRunAssumption DEF Insertions
  <2>3. TypeOK'
    BY <1>1, <1>4, <1>6, <1>7, <1>9, <2>1, <2>2, ClientRunAssumption DEF IInv, TypeOK
  <2>4. Batch' = Batch
    BY <2>1 DEF Batch
  <2>5. (Loads' /\ ~p.quiet) => \A r \in Rows : r < next' => copies'[r] > 0
    BY <1>1, <1>4, <1>6, <2>1 DEF IInv, WrittenSoFar, Loads
  <2>6. (Loads' /\ Exact(client)) =>
           /\ extra' = 0 /\ loaded' = next' - 1
           /\ \A r \in Rows : /\ r < next' => copies'[r] = 1
                              /\ r >= next' => copies'[r] \in {0, 1}
                              /\ r >= next' /\ r \notin Batch' => copies'[r] = 0
           /\ p.again = "add" => conn' = "aborted"
    <3> SUFFICES ASSUME Loads', Exact(client)
                 PROVE  /\ extra' = 0 /\ loaded' = next' - 1
                        /\ \A r \in Rows : /\ r < next' => copies'[r] = 1
                                           /\ r >= next' => copies'[r] \in {0, 1}
                                           /\ r >= next' /\ r \notin Batch' => copies'[r] = 0
                        /\ p.again = "add" => conn' = "aborted"
      OBVIOUS
    <3>1. Loads
      BY <1>1, <1>4 DEF Loads
    <3>2. extra = 0 /\ loaded = next - 1
          /\ (\A r \in Rows : /\ r < next => copies[r] = 1
                              /\ r >= next => copies[r] \in {0, 1}
                              /\ r >= next /\ r \notin Batch => copies[r] = 0)
          /\ (p.again = "add" => Refused \/ \A r \in Rows : r >= next => copies[r] = 0)
      BY <3>1 DEF IInv, WrittenSoFar, Refused
    <3>3. p.again = "add" => conn' = "aborted"
      BY <2>1 DEF Loads, Exact
    <3>4. \A r \in Rows : r \in Nat /\ (r \in Batch => r >= next)
      BY <1>1 DEF Rows, Batch
    <3>5. ASSUME NEW r \in Rows
          PROVE  /\ r < next => copies'[r] = 1
                 /\ r >= next => copies'[r] \in {0, 1}
                 /\ r >= next /\ r \notin Batch => copies'[r] = 0
      <4>1. CASE r \in w
        <5>1. r \in Batch /\ r >= next /\ ~Refused
          BY <1>5, <3>4, <4>1
        <5>2. copies'[r] = 1
          BY <1>6, <3>2, <4>1, <5>1
        <5> QED
          BY <1>1, <3>4, <5>1, <5>2
      <4>2. CASE r \notin w
        BY <1>6, <3>2, <4>2
      <4> QED
        BY <4>1, <4>2
    <3> QED
      BY <1>4, <2>1, <2>4, <3>2, <3>3, <3>5
  <2>7. WrittenSoFar'
    BY <1>0, <1>8, <2>5, <2>6 DEF WrittenSoFar
  <2>8. (Resendable(client) /\ dropOld) => /\ faults' = faults + 1 /\ conn' = "usable"
                                           /\ present' \/ client.prepare.make = "at_write"
    <3> SUFFICES ASSUME Resendable(client), dropOld
                 PROVE  /\ faults' = faults + 1 /\ conn' = "usable"
                        /\ present' \/ client.prepare.make = "at_write"
      OBVIOUS
    <3>1. Loads
      BY <1>1 DEF Loads
    <3>2. answer \notin Undisturbed(p, copies, Batch)
      <4>1. p.again \in {"once", "add"}
        BY DEF Resendable
      <4>2. ASSUME answer \in Undisturbed(p, copies, Batch) PROVE answer.ok
        BY <1>0, <4>1, <4>2, UndisturbedSucceeds
      <4> QED
        BY <1>13, <4>2
    <3>3. ~Refused /\ (present \/ client.prepare.make = "at_write")
      BY <1>11, <3>1 DEF IInv, AttemptsSoFar
    <3> QED
      BY <1>2, <1>7, <2>1, <3>2, <3>3 DEF Fault, Resendable
  <2>9. AttemptsSoFar' /\ RetriesAreUsed'
    BY <1>0, <1>1, <1>4, <2>1, <2>2, <2>8, ClientRunAssumption
       DEF IInv, AttemptsSoFar, RetriesAreUsed, Loads, Resendable
  <2>10. NothingSent' /\ LoadIsOver' /\ StoredAsCounted' /\ MeasuredWhenReady' /\ AnswerIsReal'
    BY <2>2 DEF NothingSent, LoadIsOver, Loads, StoredAsCounted, MeasuredWhenReady, AnswerIsReal
  <2>11. ShownSoFar'
    BY <1>0, <1>1, <1>4, <1>10, <2>2 DEF IInv, ShownSoFar, Loads
  <2> QED
    BY <2>3, <2>7, <2>9, <2>10, <2>11 DEF IInv
<1> QED
  BY <1>12, <1>13


\* The end of the load.
LEMMA LoadEndsStep ==
  ASSUME IInv, LoadEnds
  PROVE  IInv'
<1>0. client' = client /\ Batch' = Batch /\ Cardinality(Stored)' = Cardinality(Stored)
  BY DEF LoadEnds, client, Batch, Stored
<1>1. /\ pc = "load" /\ next = NumRows + 1 /\ why = "none" /\ why' = why
      /\ pc' \in {"optimize", "searchable"} /\ (pc' = "optimize" <=> task = "performance")
      /\ index' = "pending"
      /\ UNCHANGED <<db, task, drop, container, copies, extra, shown, next, loaded, tries, conn, answers, faults>>
  BY ClientRunAssumption DEF LoadEnds, IInv, TypeOK, AttemptsSoFar
<1>2. TypeOK'
  BY <1>1 DEF IInv, TypeOK
<1>3. Loads' <=> Loads
  BY <1>1 DEF Loads
<1>4. WrittenSoFar'
  BY <1>0, <1>1, <1>3 DEF IInv, WrittenSoFar
<1>5. AttemptsSoFar' /\ NothingSent' /\ LoadIsOver' /\ RetriesAreUsed'
  BY <1>0, <1>1, <1>3 DEF IInv, AttemptsSoFar, NothingSent, LoadIsOver, RetriesAreUsed
<1>6. ShownSoFar'
  BY <1>0, <1>1, <1>3 DEF IInv, TypeOK, ShownSoFar
<1>7. StoredAsCounted'
  <2> SUFFICES ASSUME Exact(client), dropOld PROVE copies = [r \in Rows |-> 1] /\ extra = 0 /\ loaded = NumRows
    BY <1>0, <1>1 DEF StoredAsCounted
  <2>1. Loads
    BY <1>1 DEF Loads
  <2>2. extra = 0 /\ loaded = next - 1 /\ \A r \in Rows : r < next => copies[r] = 1
    BY <2>1 DEF IInv, WrittenSoFar
  <2>3. \A r \in Rows : r < next
    BY <1>1, ClientRunAssumption DEF Rows
  <2>4. copies \in [Rows -> 0 .. MaxCopies]
    BY DEF IInv, TypeOK
  <2> QED
    BY <1>1, <2>2, <2>3, <2>4, ClientRunAssumption
<1>8. MeasuredWhenReady' /\ AnswerIsReal'
  BY <1>1 DEF MeasuredWhenReady, AnswerIsReal
<1> QED
  BY <1>2, <1>4, <1>5, <1>6, <1>7, <1>8 DEF IInv

\* A case that loaded its data has what StoredAsCounted promises shown, once a count or the
\* index says so.
LEMMA AllShown ==
  ASSUME IInv, Loads, Exact(client), pc \in {"optimize", "searchable", "indexed", "search"}, CountReached
  PROVE  shown = NumRows
<1>1. copies = [r \in Rows |-> 1] /\ extra = 0 /\ loaded = NumRows
  BY DEF IInv, StoredAsCounted, Loads
<1>2. shown <= Cardinality(Stored) /\ Cardinality(Stored) = NumRows
  BY <1>1, StoredOnce DEF IInv, ShownSoFar
<1> QED
  BY <1>1, <1>2, ClientRunAssumption DEF CountReached, Counted, IInv, TypeOK

\* The steps after the load that change neither the rows nor the counts.
LEMMA AfterLoadStep ==
  ASSUME IInv, Optimize \/ OptimizeFails \/ OptimizeTimesOut \/ PollReadiness \/ PollFails
  PROVE  IInv'
<1>0. client' = client /\ Batch' = Batch /\ Cardinality(Stored)' = Cardinality(Stored)
  BY DEF Optimize, OptimizeFails, OptimizeTimesOut, PollReadiness, PollFails, client, Batch, Stored
<1>1. /\ pc \in {"optimize", "searchable", "indexed"} /\ why = "none"
      /\ UNCHANGED <<db, task, drop, container, copies, extra, shown, index, next, loaded, tries, conn, answers>>
  BY DEF Optimize, OptimizeFails, OptimizeTimesOut, PollReadiness, PollFails, IInv, AttemptsSoFar
<1>2. /\ pc' \in {"search", "indexed", "done", "failed"}
      /\ pc' = "failed" => why' \in {"optimize", "optimize_timeout", "readiness"}
      /\ pc' # "failed" => why' = "none"
      /\ pc' = "search" => pc = "optimize" /\ Optimized
      /\ pc' = "indexed" => pc = "searchable" /\ FullySearchable
      /\ pc' = "done" => pc = "indexed" /\ FullyIndexed
  BY <1>1 DEF Optimize, OptimizeFails, OptimizeTimesOut, PollReadiness, PollFails, Fail
<1>3. faults' \in 0 .. MaxFaults /\ faults' >= faults
  BY ClientRunAssumption
     DEF Optimize, OptimizeFails, OptimizeTimesOut, PollReadiness, PollFails, Fault, IInv, TypeOK
<1>4. TypeOK'
  BY <1>1, <1>2, <1>3 DEF IInv, TypeOK
<1>5. Loads' => Loads
  BY <1>1 DEF Loads
<1>6. WrittenSoFar'
  BY <1>0, <1>1, <1>5 DEF IInv, WrittenSoFar
<1>7. AttemptsSoFar'
  BY <1>0, <1>1, <1>2, <1>3, <1>5 DEF IInv, TypeOK, AttemptsSoFar
<1>8. NothingSent' /\ LoadIsOver' /\ RetriesAreUsed'
  BY <1>1, <1>2, <1>5 DEF IInv, NothingSent, LoadIsOver, RetriesAreUsed
<1>9. task = "cloud_insert" <=> pc # "optimize"
  BY <1>1 DEF IInv, ShownSoFar
<1>10. ShownSoFar'
  BY <1>0, <1>1, <1>2, <1>5, <1>9 DEF IInv, ShownSoFar
<1>11. StoredAsCounted'
  BY <1>0, <1>1, <1>2 DEF IInv, StoredAsCounted
<1>12. AnswerIsReal'
  BY <1>1 DEF IInv, AnswerIsReal, ShownSoFar
<1>13. MeasuredWhenReady'
  <2>1. ASSUME pc' = "search", client.optimize \in {"call", "poll", "capped_raise"}, dropOld
        PROVE  indexed /\ shown = Cardinality(Stored)
    <3>1. indexed /\ pc = "optimize"
      BY <1>2, <2>1 DEF Optimized
    <3> QED
      BY <2>1, <3>1 DEF IInv, ShownSoFar, Loads
  <2>2. ASSUME pc' = "indexed", Exact(client), dropOld, client.readiness \in {"counted", "fresh"}
        PROVE  shown = NumRows
    <3>1. pc = "searchable" /\ CountReached
      BY <1>2, <2>2 DEF FullySearchable
    <3> QED
      BY <2>2, <3>1, AllShown DEF Loads
  <2>3. ASSUME pc' = "done", Exact(client), dropOld, client.readiness \in {"counted", "fresh"}
        PROVE  shown = NumRows
    BY <1>2, <1>9, <2>3 DEF IInv, MeasuredWhenReady
  <2>4. ASSUME pc' = "done", client.readiness \in {"counted", "bytes"} PROVE indexed
    BY <1>2, <2>4 DEF FullyIndexed
  <2>5. pc' = "done" => task # "performance"
    BY <1>2, <1>9
  <2> QED
    BY <1>0, <1>1, <2>1, <2>2, <2>3, <2>4, <2>5 DEF MeasuredWhenReady
<1> QED
  BY <1>4, <1>6, <1>7, <1>8, <1>10, <1>11, <1>12, <1>13 DEF IInv

\* The search.
LEMMA SearchStep ==
  ASSUME IInv, Search \/ SearchFails
  PROVE  IInv'
<1>0. client' = client /\ Batch' = Batch /\ Cardinality(Stored)' = Cardinality(Stored) /\ Stored' = Stored
  BY DEF Search, SearchFails, client, Batch, Stored
<1>1. /\ pc = "search" /\ why = "none" /\ answers = "none" /\ task = "performance"
      /\ UNCHANGED <<db, task, drop, container, copies, extra, shown, index, next, loaded, tries, conn>>
  BY DEF Search, SearchFails, IInv, AttemptsSoFar, ShownSoFar
<1>2. /\ \/ pc' = "done" /\ why' = "none" /\ answers' \in {"empty", "rows"}
         \/ pc' = "failed" /\ why' = "search" /\ answers' = "none"
      /\ faults' \in 0 .. MaxFaults
  BY <1>1, ClientRunAssumption
     DEF Search, SearchFails, SearchIs, SearchFailsIn, Fail, Fault, IInv, TypeOK
<1>3. faults' >= faults
  BY DEF Search, SearchFails, Fault, IInv, TypeOK
<1>4. TypeOK'
  BY <1>1, <1>2 DEF IInv, TypeOK
<1>5. Loads' => Loads
  BY <1>1 DEF Loads
<1>6. WrittenSoFar'
  BY <1>0, <1>1, <1>5 DEF IInv, WrittenSoFar
<1>7. AttemptsSoFar'
  BY <1>0, <1>1, <1>2, <1>3, <1>5 DEF IInv, TypeOK, AttemptsSoFar
<1>8. NothingSent' /\ LoadIsOver' /\ RetriesAreUsed'
  BY <1>1, <1>2, <1>5 DEF IInv, NothingSent, LoadIsOver, RetriesAreUsed
<1>9. ShownSoFar'
  BY <1>0, <1>1, <1>2, <1>5 DEF IInv, ShownSoFar
<1>10. StoredAsCounted' /\ MeasuredWhenReady'
  BY <1>0, <1>1, <1>2 DEF IInv, StoredAsCounted, MeasuredWhenReady
<1>11. AnswerIsReal'
  <2> SUFFICES ASSUME answers' = "empty", client.search.swallows = {}, ~client.insert.quiet
               PROVE  ~dropOld /\ (client.prepare.make \in {"missing", "at_write"} \/ present)
    BY <1>0, <1>1 DEF AnswerIsReal
  <2>1. Search /\ \/ present /\ Stored = {} /\ extra = 0
                  \/ ~present /\ client.prepare.make = "at_write"
    BY <1>1 DEF Search, SearchFails, SearchIs, SearchFailsIn
  <2>2. ~dropOld
    <3> SUFFICES ASSUME dropOld PROVE FALSE
      OBVIOUS
    <3>1. 1 \in Rows /\ copies[1] > 0
      <4>1. Loads
        BY <1>1 DEF Loads
      <4> QED
        BY <1>1, <4>1, ClientRunAssumption DEF IInv, WrittenSoFar, LoadIsOver, Rows
    <3>2. present
      BY <3>1 DEF IInv, WrittenSoFar
    <3>3. <<1, 1>> \in Stored
      BY <3>1, ClientRunAssumption DEF Stored, IInv, TypeOK
    <3> QED
      BY <2>1, <3>2, <3>3
  <2> QED
    BY <2>1, <2>2
<1> QED
  BY <1>4, <1>6, <1>7, <1>8, <1>9, <1>10, <1>11 DEF IInv

\* The database in its own time.
LEMMA ServiceStep ==
  ASSUME IInv, ShowRow \/ FinishIndex
  PROVE  IInv'
<1>0. client' = client /\ Batch' = Batch /\ Cardinality(Stored)' = Cardinality(Stored)
      /\ Cardinality(Stored) \in Nat
  BY StoredIsFinite DEF ShowRow, FinishIndex, client, Batch, Stored
<1>1. /\ pc \in {"optimize", "search", "searchable", "indexed"}
      /\ UNCHANGED <<db, task, drop, pc, why, container, copies, extra, next, loaded, tries, conn, answers, faults>>
      /\ \/ shown < Cardinality(Stored) /\ shown' = shown + 1 /\ index' = index
         \/ shown = Cardinality(Stored) /\ shown' = shown /\ index' = "complete"
      /\ shown \in Nat
  BY DEF ShowRow, FinishIndex, IInv, TypeOK
<1>2. TypeOK'
  BY <1>1 DEF IInv, TypeOK
<1>3. Loads' <=> Loads
  BY <1>1 DEF Loads
<1>4. WrittenSoFar' /\ AttemptsSoFar' /\ NothingSent' /\ LoadIsOver'
  BY <1>0, <1>1, <1>3 DEF IInv, WrittenSoFar, AttemptsSoFar, NothingSent, LoadIsOver
<1>5. ShownSoFar'
  BY <1>0, <1>1, <1>3 DEF IInv, ShownSoFar
<1>6. StoredAsCounted' /\ RetriesAreUsed' /\ AnswerIsReal'
  BY <1>0, <1>1 DEF IInv, StoredAsCounted, RetriesAreUsed, AnswerIsReal
<1>7. ASSUME Exact(client), dropOld, pc = "indexed", client.readiness \in {"counted", "fresh"},
             task = "cloud_insert"
      PROVE  shown' = NumRows
  <2>1. shown = NumRows
    BY <1>7 DEF IInv, MeasuredWhenReady
  <2>2. Cardinality(Stored) = NumRows
    BY <1>7, StoredOnce DEF IInv, StoredAsCounted
  <2> QED
    BY <1>1, <2>1, <2>2, ClientRunAssumption
<1>8. ASSUME client.optimize \in {"call", "poll", "capped_raise"}, dropOld, pc = "search", task = "performance"
      PROVE  indexed' /\ shown' = Cardinality(Stored)
  <2>1. indexed /\ shown = Cardinality(Stored)
    BY <1>8 DEF IInv, MeasuredWhenReady
  <2> QED
    BY <1>0, <1>1, <2>1
<1>9. MeasuredWhenReady'
  BY <1>0, <1>1, <1>7, <1>8 DEF MeasuredWhenReady
<1> QED
  BY <1>2, <1>4, <1>5, <1>6, <1>9 DEF IInv

\* An attempt that raises ends the case, before a row is written.
LEMMA RaiseStep ==
  ASSUME IInv, SendBatchRaises
  PROVE  IInv'
<1>0. client' = client /\ Batch' = Batch /\ Cardinality(Stored)' = Cardinality(Stored)
  BY DEF SendBatchRaises, stored, choice, load, client, Batch, Stored
<1>1. /\ pc = "load" /\ why = "none" /\ pc' = "failed" /\ why' = "insert"
      /\ client.insert.raises # "nothing"
      /\ UNCHANGED <<db, task, drop, container, copies, extra, shown, index, next, loaded, tries, conn, answers>>
  BY DEF SendBatchRaises, Raises, TooFew, Fail, choice, stored, service, load, IInv, AttemptsSoFar
<1>2. faults' \in 0 .. MaxFaults /\ faults' >= faults
  BY ClientRunAssumption DEF SendBatchRaises, Fault, IInv, TypeOK
<1>3. TypeOK'
  BY <1>1, <1>2 DEF IInv, TypeOK
<1>4. WrittenSoFar'
  BY <1>0, <1>1 DEF IInv, WrittenSoFar, Loads
<1>5. ~Resendable(client)
  BY <1>1 DEF Resendable
<1>6. AttemptsSoFar'
  BY <1>0, <1>1, <1>2, <1>5 DEF IInv, TypeOK, AttemptsSoFar, Loads
<1>7. NothingSent' /\ LoadIsOver' /\ ShownSoFar'
  BY <1>0, <1>1 DEF IInv, NothingSent, LoadIsOver, ShownSoFar, Loads
<1>8. StoredAsCounted' /\ RetriesAreUsed' /\ MeasuredWhenReady' /\ AnswerIsReal'
  BY <1>0, <1>1, <1>5 DEF IInv, StoredAsCounted, RetriesAreUsed, MeasuredWhenReady, AnswerIsReal
<1> QED
  BY <1>3, <1>4, <1>6, <1>7, <1>8 DEF IInv

\* A step that changes nothing.
LEMMA StutterStep ==
  ASSUME IInv, UNCHANGED vars
  PROVE  IInv'
BY DEF IInv, TypeOK, WrittenSoFar, AttemptsSoFar, NothingSent, LoadIsOver, ShownSoFar, Loads,
       StoredAsCounted, RetriesAreUsed, MeasuredWhenReady, AnswerIsReal, Stored, Batch, client

\* The inductive invariant holds in every reachable state.
THEOREM Invariance == Spec => []IInv
<1>1. Init => IInv
  BY InitIInv
<1>2. IInv /\ [Next]_vars => IInv'
  BY PrepareStep, SendStep, RaiseStep, LoadEndsStep, AfterLoadStep, SearchStep, ServiceStep, StutterStep
     DEF Next, Runner, Ended
<1> QED
  BY <1>1, <1>2, PTL DEF Spec

\* Every state is well typed: type correctness for every client that a profile describes.
THEOREM TypeCorrect == Spec => []TypeOK
BY Invariance, PTL DEF IInv

\* Whatever fails, a load that succeeds leaves every row of the dataset once and counts them.
THEOREM StoredAsCountedHolds == Spec => []StoredAsCounted
BY Invariance, PTL DEF IInv

\* A load of a client whose batches can be sent again fails only after MaxRetry + 1 faults.
THEOREM RetriesAreUsedHolds == Spec => []RetriesAreUsed
BY Invariance, PTL DEF IInv

\* What the client can tell is ready is ready when it is measured.
THEOREM MeasuredWhenReadyHolds == Spec => []MeasuredWhenReady
BY Invariance, PTL DEF IInv

\* An answer of nothing is counted only for the clients and the runs that AnswerIsReal names.
THEOREM AnswerIsRealHolds == Spec => []AnswerIsReal
BY Invariance, PTL DEF IInv

===============================================================================
