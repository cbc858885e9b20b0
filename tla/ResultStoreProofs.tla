--------------------------- MODULE ResultStoreProofs ---------------------------
(*******************************************************************************)
(* Proofs about ResultStore and ResultPage: for any number of databases, labels,   *)
(* runs, merges, days and processes that are stopped                                *)
(*******************************************************************************)
EXTENDS ResultPage, FiniteSetTheorems, WellFoundedInduction, TLAPS

-------------------------------------------------------------------------------
(* The inductive invariant                                                       *)

Holds(n, r) == held[n][r] > 0

\* A file holds results of its database, of runs that have been, and none that a run has
\* still to write; so does what a merge has gathered.
FileInv ==
  /\ \A n \in Names : /\ state[n] # "absent" => n.day <= day
                      /\ state[n] # "whole" => held[n] = NoResults
  /\ \A n \in Names, r \in Results : Holds(n, r) => r[2] = n.db
  /\ \A r \in Results :
       (gathered[r] > 0 \/ \E n \in Names : Holds(n, r))
         => r[1] <= runs /\ (r[1] = runs => r[2] \notin pending)

\* The file that a run has open is empty, and of a database it has still to write.
RunInv ==
  /\ pending # {} => runs \in Runs
  /\ runFile # NoFile => runFile \in Names /\ runFile.db \in pending /\ runFile.day <= day
  /\ runFile # NoFile /\ harm # "lost" => merge = "idle" /\ held[runFile] = NoResults

Working == merge \in {"write", "open", "close", "remove"}

\* The databases whose file the merge has written.
Merged(db) ==
  (\E n \in outputs : n.db = db) /\ (mergeFile # NoFile => mergeFile.db # db)

\* A merge holds what was written; what it has not written again is where it was, what it
\* has is in a file that it is not going to remove.
MergeInv ==
  /\ merge \in {"open", "close"} <=> mergeFile # NoFile
  /\ merge \in {"idle", "collect"} => outputs = {}
  /\ \A n \in sources : n.day <= day
  /\ mergeFile # NoFile => mergeFile \in Names /\ mergeFile.day <= day
                           /\ \E n \in outputs : n.db = mergeFile.db
  /\ merge = "open" => mergeFile \in outputs /\ \A n \in sources : n.day <= mergeFile.day
  /\ merge = "close" => mergeFile \in outputs \/ mergeFile \notin sources
  /\ merge = "remove" => \A r \in Results : gathered[r] > 0 => Merged(r[2])
  /\ \A n, m \in outputs : n.db = m.db => n = m

KeptInv ==
  harm # "lost" =>
    /\ \A r \in written : \/ merge = "close" /\ r[2] = mergeFile.db
                          \/ \E n \in Names : Holds(n, r)
    /\ Working =>
         /\ \A r \in written : gathered[r] > 0
         /\ \A db \in Databases : Merged(db) =>
              \E n \in Names : /\ n.db = db /\ (n \in outputs \/ n \notin sources)
                               /\ \A r \in Results : r[2] = db => held[n][r] = gathered[r]

\* As long as nothing is copied each result is in one file, or in a source and the output.
OnceInv ==
  harm = "none" =>
    /\ \A r \in Results : gathered[r] <= 1 /\ \A n \in Names : held[n][r] <= 1
    /\ merge \in {"idle", "collect"} =>
         \A n, m \in Names, r \in Results : Holds(n, r) /\ Holds(m, r) => n = m
    /\ merge # "idle" => \A n \in Present : n \in sources \/ n \in outputs
    /\ mergeFile # NoFile => mergeFile \in outputs

StoreInv == TypeOK /\ FileInv /\ RunInv /\ MergeInv /\ KeptInv /\ OnceInv
-------------------------------------------------------------------------------
(* Names and results                                                             *)

LEMMA NameType ==
  /\ NoFile \notin Names
  /\ \A n \in Names : n.day \in Days /\ n.label \in Labels /\ n.db \in Databases
  /\ \A d \in Days, l \in Labels, db \in Databases :
       /\ [day |-> d, label |-> l, db |-> db] \in Names
       /\ [day |-> d, label |-> l, db |-> db].db = db
       /\ [day |-> d, label |-> l, db |-> db].day = d
       /\ [day |-> d, label |-> l, db |-> db].label = l
  /\ \A n \in Names, d \in Days :
       /\ [n EXCEPT !.day = d] \in Names
       /\ [n EXCEPT !.day = d].db = n.db /\ [n EXCEPT !.day = d].day = d
       /\ [n EXCEPT !.day = d] = n <=> n.day = d
<1>1. \A d \in Days : d # 0
  BY ResultStoreAssumption DEF Days
<1> QED
  BY <1>1 DEF Names, NoFile

LEMMA ResultType ==
  /\ \A r \in Results : r[1] \in Runs /\ r[2] \in Databases /\ r = <<r[1], r[2]>>
  /\ \A k \in Runs, db \in Databases :
       <<k, db>> \in Results /\ <<k, db>>[1] = k /\ <<k, db>>[2] = db
  /\ NoResults \in [Results -> 0 .. 2] /\ \A r \in Results : NoResults[r] = 0
BY DEF Results, NoResults

LEMMA DayType ==
  ASSUME TypeOK
  PROVE  day \in Nat /\ \A n \in Names : n.day \in Nat
BY NameType, ResultStoreAssumption DEF TypeOK, Days

LEMMA NamesAreFinite == IsFiniteSet(Names)
<1>1. IsFiniteSet(Days) /\ IsFiniteSet(Labels) /\ IsFiniteSet(Databases)
  BY ResultStoreAssumption, FS_Interval DEF Days
<1> DEFINE triples == Days \X (Labels \X Databases)
           f == [t \in triples |-> [day |-> t[1], label |-> t[2][1], db |-> t[2][2]]]
<1>2. IsFiniteSet(triples)
  <2>1. IsFiniteSet(Labels \X Databases)
    BY <1>1, FS_Product
  <2> QED
    BY <1>1, <2>1, FS_Product
<1>3. f \in Surjection(triples, Names)
  <2>1. f \in [triples -> Names]
    BY NameType
  <2>2. ASSUME NEW n \in Names PROVE \E t \in triples : f[t] = n
    <3>1. n = [day |-> n.day, label |-> n.label, db |-> n.db]
      BY DEF Names
    <3>2. <<n.day, <<n.label, n.db>>>> \in triples
      BY NameType
    <3> QED
      BY <3>1, <3>2
  <2> QED
    BY <2>1, <2>2 DEF Surjection
<1> HIDE DEF f, triples
<1> QED
  BY <1>2, <1>3, FS_Surjection

\* What some files hold together: a result that one of them holds; and a result that one
\* of them holds once and no other counts once.
LEMMA SumOfFiles ==
  ASSUME held \in [Names -> [Results -> 0 .. 2]], NEW names \in SUBSET Names, NEW r \in Results
  PROVE  /\ Sum(names)[r] \in 0 .. 2
         /\ Sum(names)[r] > 0 <=> \E n \in names : held[n][r] > 0
         /\ (\A n \in names : held[n][r] <= 1)
            /\ (\A n, m \in names : held[n][r] > 0 /\ held[m][r] > 0 => n = m)
              => Sum(names)[r] <= 1
<1> DEFINE ones == {n \in names : held[n][r] = 1}
           twos == {n \in names : held[n][r] = 2}
           once == Cardinality(ones)
           more == Cardinality(twos)
<1>1. Sum(names)[r] = Twice(once + 2 * more)
  BY DEF Sum
<1>2. \A n \in names : held[n][r] \in 0 .. 2
  OBVIOUS
<1>3. IsFiniteSet(ones) /\ IsFiniteSet(twos)
  BY NamesAreFinite, FS_Subset
<1>4. /\ once \in Nat /\ more \in Nat
      /\ once = 0 <=> ones = {}
      /\ more = 0 <=> twos = {}
  BY <1>3, FS_CardinalityType, FS_EmptySet
<1>5. (\E n \in names : held[n][r] > 0) <=> ones # {} \/ twos # {}
  BY <1>2
<1>6. ASSUME \A n \in names : held[n][r] <= 1,
             \A n, m \in names : held[n][r] > 0 /\ held[m][r] > 0 => n = m
      PROVE  once <= 1 /\ more = 0
  <2>1. twos = {}
    BY <1>6
  <2>2. CASE ones = {}
    BY <1>4, <2>1, <2>2
  <2>3. CASE ones # {}
    <3>1. PICK n \in ones : TRUE
      BY <2>3
    <3>2. ones = {n}
      BY <1>6, <3>1
    <3>3. once = 1
      BY <3>2, FS_Singleton
    <3> QED
      BY <1>4, <2>1, <3>3
  <2> QED
    BY <2>2, <2>3
<1> HIDE DEF ones, twos, once, more
<1>7. Twice(once + 2 * more) \in 0 .. 2 /\ (Twice(once + 2 * more) > 0 <=> once # 0 \/ more # 0)
  BY <1>4 DEF Twice
<1>8. once <= 1 /\ more = 0 => Twice(once + 2 * more) <= 1
  BY <1>4 DEF Twice
<1> QED
  BY <1>1, <1>4, <1>5, <1>6, <1>7, <1>8
-------------------------------------------------------------------------------
(* Runs                                                                          *)

LEMMA DayStep ==
  ASSUME StoreInv, NextDay
  PROVE  StoreInv'
<1> USE DEF StoreInv
<1>1. /\ day' = day + 1 /\ day < MaxDay
      /\ UNCHANGED <<state, held, runId, runs, pending, label, runFile, merges, merge, replace,
                     sources, gathered, outputs, mergeFile, stops, written, harm>>
  BY DEF NextDay, disk, run, merging, history
<1>2. day \in Nat /\ day' \in Days /\ \A n \in Names : n.day \in Nat
  BY <1>1, DayType, ResultStoreAssumption DEF TypeOK, Days
<1>3. TypeOK'
  BY <1>1, <1>2 DEF TypeOK
<1>4. FileInv'
  BY <1>1, <1>2 DEF FileInv, Holds
<1>5. RunInv'
  BY <1>1, <1>2 DEF RunInv
<1>6. MergeInv'
  <2>1. \A n \in sources : n.day <= day'
    BY <1>1, <1>2 DEF MergeInv, TypeOK
  <2>2. mergeFile # NoFile => mergeFile.day <= day'
    BY <1>1, <1>2 DEF MergeInv
  <2> QED
    BY <1>1, <2>1, <2>2 DEF MergeInv, Merged
<1>7. KeptInv' /\ OnceInv'
  BY <1>1 DEF KeptInv, OnceInv, Holds, Merged, Working, Present
<1> QED
  BY <1>3, <1>4, <1>5, <1>6, <1>7

\* A run begins to write, or is stopped.
LEMMA PendingStep ==
  ASSUME StoreInv, StartFlush \/ StopRun
  PROVE  StoreInv'
<1> USE DEF StoreInv
<1>1. /\ UNCHANGED <<day, state, held, runId, merges, merge, replace,
                     sources, gathered, outputs, mergeFile, written, harm>>
      /\ runs \in Nat /\ MaxRuns \in Nat /\ stops \in Nat /\ MaxStops \in Nat
  BY ResultStoreAssumption DEF StartFlush, StopRun, clock, disk, merging, history, TypeOK
<1>2. runs' = runs \/ (runs' = runs + 1 /\ runs < MaxRuns)
  BY DEF StartFlush, StopRun
<1>3. \/ runs' = runs /\ pending' = {}
      \/ runs' = runs + 1 /\ runs' \in Runs
  BY <1>1 DEF StartFlush, StopRun, Runs
<1>4. runFile' = NoFile
  BY DEF StartFlush, StopRun, RunInv
<1>5. TypeOK'
  <2>1. pending' \subseteq Databases /\ label' \in Labels /\ stops' \in 0 .. MaxStops
        /\ runs' \in 0 .. MaxRuns
    BY <1>1, ResultStoreAssumption DEF StartFlush, StopRun, TypeOK
  <2> QED
    BY <1>1, <1>4, <2>1 DEF TypeOK
<1>6. FileInv'
  <2>1. \A r \in Results : (gathered[r] > 0 \/ \E n \in Names : Holds(n, r)) =>
          r[1] <= runs' /\ (r[1] = runs' => r[2] \notin pending')
    <3> SUFFICES ASSUME NEW r \in Results, gathered[r] > 0 \/ \E n \in Names : Holds(n, r)
                 PROVE  r[1] <= runs' /\ (r[1] = runs' => r[2] \notin pending')
      OBVIOUS
    <3>1. r[1] <= runs /\ r[1] \in Nat
      BY ResultType DEF FileInv, Runs
    <3> QED
      BY <1>1, <1>3, <3>1
  <2> QED
    BY <1>1, <2>1 DEF FileInv, Holds
<1>7. RunInv'
  BY <1>3, <1>4 DEF RunInv
<1>8. MergeInv'
  BY <1>1 DEF MergeInv, Merged
<1>9. KeptInv' /\ OnceInv'
  BY <1>1 DEF KeptInv, OnceInv, Holds, Merged, Working, Present
<1> QED
  BY <1>5, <1>6, <1>7, <1>8, <1>9

LEMMA OpenResultStep ==
  ASSUME StoreInv, OpenResult
  PROVE  StoreInv'
<1> USE DEF StoreInv
<1>1. PICK db \in pending :
        /\ runFile' = [day |-> day, label |-> label, db |-> db]
        /\ Open([day |-> day, label |-> label, db |-> db])
        /\ written' = {r \in written : held[[day |-> day, label |-> label, db |-> db]][r] = 0}
  BY DEF OpenResult
<1> DEFINE name == [day |-> day, label |-> label, db |-> db]
<1>2. name \in Names /\ name.db = db /\ name.day = day /\ name # NoFile /\ db \in Databases
  BY NameType DEF TypeOK
<1> HIDE DEF name
<1>3. /\ runFile' = name /\ written' = {r \in written : held[name][r] = 0}
      /\ state' = [state EXCEPT ![name] = "torn"]
      /\ held' = [held EXCEPT ![name] = NoResults]
      /\ runId' = [runId EXCEPT ![name] = 0]
  BY <1>1 DEF Open, name
<1>4. /\ runFile = NoFile
      /\ UNCHANGED <<day, runs, pending, label, merges, merge, replace,
                     sources, gathered, outputs, mergeFile, stops>>
      /\ harm' = IF merge = "idle" \/ harm = "lost" THEN harm ELSE "lost"
  BY DEF OpenResult, clock, merging, Befalls
<1>5. /\ held \in [Names -> [Results -> 0 .. 2]]
      /\ state \in [Names -> {"absent", "torn", "whole"}]
      /\ runId \in [Names -> 0 .. MaxRuns \cup Databases]
      /\ written \subseteq Results /\ 0 \in 0 .. MaxRuns
  BY ResultStoreAssumption DEF TypeOK
<1>6. /\ held'[name] = NoResults /\ state'[name] = "torn"
      /\ \A n \in Names : n # name => held'[n] = held[n] /\ state'[n] = state[n]
      /\ held' \in [Names -> [Results -> 0 .. 2]]
      /\ state' \in [Names -> {"absent", "torn", "whole"}]
      /\ runId' \in [Names -> 0 .. MaxRuns \cup Databases]
  BY <1>2, <1>3, <1>5, ResultType
<1>7. \A n \in Names, r \in Results : Holds(n, r)' => n # name /\ Holds(n, r)
  BY <1>6, ResultType DEF Holds
<1>8. TypeOK'
  <2>1. written' \subseteq Results /\ harm' \in Harms /\ runFile' \in Names \cup {NoFile}
    BY <1>2, <1>3, <1>4, <1>5 DEF TypeOK, Harms
  <2> QED
    BY <1>4, <1>6, <2>1 DEF TypeOK
<1>9. FileInv'
  <2>1. \A n \in Names : (state'[n] # "absent" => n.day <= day) /\ (state'[n] # "whole" => held'[n] = NoResults)
    BY <1>2, <1>6, DayType DEF FileInv
  <2> QED
    BY <1>4, <1>7, <2>1 DEF FileInv
<1>10. RunInv'
  <2>1. name.day <= day
    BY <1>2, DayType
  <2> QED
    BY <1>2, <1>3, <1>4, <1>6, <2>1 DEF RunInv
<1>11. MergeInv'
  BY <1>4 DEF MergeInv, Merged
<1>12. KeptInv'
  <2> SUFFICES ASSUME harm' # "lost" PROVE KeptInv'
    BY DEF KeptInv
  <2>1. merge = "idle" /\ harm # "lost"
    BY <1>4
  <2>2. ASSUME NEW r \in written' PROVE \E n \in Names : Holds(n, r)'
    <3>1. r \in written /\ held[name][r] = 0 /\ r \in Results
      BY <1>3, <1>5, <2>2
    <3>2. PICK n \in Names : Holds(n, r)
      BY <2>1, <3>1 DEF KeptInv
    <3>3. n # name
      BY <3>1, <3>2 DEF Holds
    <3> QED
      BY <1>6, <3>2, <3>3 DEF Holds
  <2> QED
    BY <1>4, <2>1, <2>2 DEF KeptInv, Working
<1>13. OnceInv'
  <2> SUFFICES ASSUME harm' = "none" PROVE OnceInv'
    BY DEF OnceInv
  <2>1. merge = "idle" /\ harm = "none"
    BY <1>4
  <2>2. \A r \in Results, n \in Names : held'[n][r] <= 1
    BY <1>6, <2>1, ResultType DEF OnceInv
  <2>3. \A n, m \in Names, r \in Results : Holds(n, r)' /\ Holds(m, r)' => n = m
    BY <1>7, <2>1 DEF OnceInv
  <2> QED
    BY <1>4, <2>1, <2>2, <2>3 DEF OnceInv
<1> QED
  BY <1>8, <1>9, <1>10, <1>11, <1>12, <1>13

LEMMA CloseResultStep ==
  ASSUME StoreInv, CloseResult
  PROVE  StoreInv'
<1> USE DEF StoreInv
<1> DEFINE mine == <<runs, runFile.db>>
           new == [NoResults EXCEPT ![mine] = 1]
<1>1. /\ runFile \in Names /\ runFile.db \in pending /\ runFile.day <= day /\ runs \in Runs
      /\ runFile # NoFile
  BY DEF CloseResult, RunInv
<1>2. /\ mine \in Results /\ mine[1] = runs /\ mine[2] = runFile.db
      /\ new \in [Results -> 0 .. 2] /\ new[mine] = 1
      /\ \A r \in Results : new[r] > 0 => r = mine
      /\ \A r \in Results : new[r] <= 1
  BY <1>1, NameType, ResultType
<1>3. /\ state' = [state EXCEPT ![runFile] = "whole"]
      /\ held' = [held EXCEPT ![runFile] = new]
      /\ runId' = [runId EXCEPT ![runFile] = runs]
      /\ written' = written \cup {mine}
      /\ pending' = pending \ {runFile.db} /\ runFile' = NoFile
      /\ label' \in {label, MergeLabel}
  BY DEF CloseResult, Close
<1> HIDE DEF mine, new
<1>4. /\ UNCHANGED <<day, runs, merges, merge, replace, sources, gathered, outputs, mergeFile, stops>>
      /\ harm' = IF merge = "idle" \/ harm = "lost" THEN harm ELSE "lost"
  BY DEF CloseResult, clock, merging, Befalls
<1>5. /\ held \in [Names -> [Results -> 0 .. 2]]
      /\ state \in [Names -> {"absent", "torn", "whole"}]
      /\ runId \in [Names -> 0 .. MaxRuns \cup Databases]
      /\ written \subseteq Results /\ runs \in 0 .. MaxRuns
  BY DEF TypeOK
<1>6. /\ held'[runFile] = new /\ state'[runFile] = "whole"
      /\ \A n \in Names : n # runFile => held'[n] = held[n] /\ state'[n] = state[n]
      /\ held' \in [Names -> [Results -> 0 .. 2]]
      /\ state' \in [Names -> {"absent", "torn", "whole"}]
      /\ runId' \in [Names -> 0 .. MaxRuns \cup Databases]
  BY <1>1, <1>2, <1>3, <1>5
<1>7. \A n \in Names, r \in Results :
        Holds(n, r)' => (n = runFile /\ r = mine) \/ (n # runFile /\ Holds(n, r))
  BY <1>2, <1>6 DEF Holds
<1>9. \A n \in Names : ~Holds(n, mine)
  BY <1>1, <1>2 DEF FileInv
<1>10. TypeOK'
  <2>1. written' \subseteq Results /\ harm' \in Harms /\ label' \in Labels /\ pending' \subseteq Databases
    BY <1>2, <1>3, <1>4, <1>5, ResultStoreAssumption DEF TypeOK, Harms
  <2> QED
    BY <1>3, <1>4, <1>6, <2>1 DEF TypeOK
<1>11. FileInv'
  <2>1. \A n \in Names : (state'[n] # "absent" => n.day <= day) /\ (state'[n] # "whole" => held'[n] = NoResults)
    BY <1>1, <1>6 DEF FileInv
  <2>2. \A n \in Names, r \in Results : Holds(n, r)' => r[2] = n.db
    BY <1>2, <1>7 DEF FileInv
  <2>3. mine[1] <= runs /\ mine[2] \notin pending'
    BY <1>1, <1>2, <1>3 DEF Runs
  <2>4. ASSUME NEW r \in Results, gathered[r] > 0 \/ \E n \in Names : Holds(n, r)'
        PROVE  r[1] <= runs /\ (r[1] = runs => r[2] \notin pending')
    <3>1. CASE r = mine
      BY <2>3, <3>1
    <3>2. CASE r # mine
      <4>1. gathered[r] > 0 \/ \E n \in Names : Holds(n, r)
        BY <1>7, <2>4, <3>2
      <4> QED
        BY <1>3, <4>1 DEF FileInv
    <3> QED
      BY <3>1, <3>2
  <2> QED
    BY <1>4, <2>1, <2>2, <2>4 DEF FileInv
<1>12. RunInv'
  BY <1>1, <1>3, <1>4 DEF RunInv
<1>13. MergeInv'
  BY <1>4 DEF MergeInv, Merged
<1>14. KeptInv'
  <2> SUFFICES ASSUME harm' # "lost" PROVE KeptInv'
    BY DEF KeptInv
  <2>1. merge = "idle" /\ harm # "lost" /\ held[runFile] = NoResults
    BY <1>1, <1>4 DEF RunInv
  <2>2. ASSUME NEW r \in written' PROVE \E n \in Names : Holds(n, r)'
    <3>1. CASE r = mine
      BY <1>1, <1>3, <1>6, <1>2, <3>1 DEF Holds
    <3>2. CASE r # mine
      <4>1. r \in written /\ r \in Results
        BY <1>3, <1>5, <2>2, <3>2
      <4>2. PICK n \in Names : Holds(n, r)
        BY <2>1, <4>1 DEF KeptInv
      <4>3. n # runFile
        BY <2>1, <4>1, <4>2, ResultType DEF Holds
      <4> QED
        BY <1>6, <4>2, <4>3 DEF Holds
    <3> QED
      BY <3>1, <3>2
  <2> QED
    BY <1>4, <2>1, <2>2 DEF KeptInv, Working
<1>15. OnceInv'
  <2> SUFFICES ASSUME harm' = "none" PROVE OnceInv'
    BY DEF OnceInv
  <2>1. merge = "idle" /\ harm = "none"
    BY <1>4
  <2>2. \A r \in Results, n \in Names : held'[n][r] <= 1
    BY <1>2, <1>6, <2>1 DEF OnceInv
  <2>3. \A n, m \in Names, r \in Results : Holds(n, r)' /\ Holds(m, r)' => n = m
    BY <1>7, <1>9, <2>1 DEF OnceInv
  <2> QED
    BY <1>4, <2>1, <2>2, <2>3 DEF OnceInv
<1> QED
  BY <1>10, <1>11, <1>12, <1>13, <1>14, <1>15
-------------------------------------------------------------------------------
(* Merges                                                                        *)

\* A file that holds something is there.
LEMMA HolderPresent ==
  ASSUME FileInv, NEW n \in Names, NEW r \in Results, Holds(n, r)
  PROVE  n \in Present
BY ResultType DEF FileInv, Holds, Present

\* A merge is over without a file open, and does not leave two files with a result unless
\* something has been copied.
LEMMA MergeOverStep ==
  ASSUME StoreInv, MergeOver,
         UNCHANGED <<day, state, held, runId, runs, pending, label, runFile, written>>,
         harm' \in Harms, stops' \in 0 .. MaxStops,
         harm = "lost" => harm' = "lost",
         harm' # "lost" => merge # "close",
         harm' = "none" =>
           harm = "none" /\ \A n, m \in Names, r \in Results : Holds(n, r) /\ Holds(m, r) => n = m
  PROVE  StoreInv'
<1> USE DEF StoreInv
<1>1. /\ merge' = "idle" /\ replace' = FALSE /\ sources' = {} /\ gathered' = NoResults
      /\ outputs' = {} /\ mergeFile' = NoFile /\ merges' = merges
  BY DEF MergeOver
<1>2. TypeOK'
  BY <1>1, ResultType DEF TypeOK
<1>3. FileInv'
  BY <1>1, ResultType DEF FileInv, Holds
<1>4. RunInv'
  BY <1>1 DEF RunInv
<1>5. MergeInv'
  BY <1>1 DEF MergeInv
<1>6. KeptInv'
  BY <1>1 DEF KeptInv, Working, Holds
<1>7. OnceInv'
  <2> SUFFICES ASSUME harm' = "none" PROVE OnceInv'
    BY DEF OnceInv
  <2>1. \A r \in Results : gathered'[r] <= 1 /\ \A n \in Names : held'[n][r] <= 1
    BY <1>1, ResultType DEF OnceInv
  <2> QED
    BY <1>1, <2>1 DEF OnceInv, Holds
<1> QED
  BY <1>2, <1>3, <1>4, <1>5, <1>6, <1>7

LEMMA ListSourcesStep ==
  ASSUME StoreInv, ListSources
  PROVE  StoreInv'
<1> USE DEF StoreInv
<1>1. /\ UNCHANGED <<day, state, held, runId, runs, pending, label, runFile, gathered, mergeFile,
                     stops, written>>
      /\ merge = "idle" /\ merge' = "collect" /\ merges < MaxMerges /\ merges' = merges + 1
      /\ replace' \in BOOLEAN /\ sources' = Present /\ outputs' = {}
      /\ harm' = IF pending = {} \/ harm = "lost" THEN harm ELSE "lost"
  BY DEF ListSources, clock, disk, run, Befalls
<1>2. TypeOK'
  <2>1. merges' \in 0 .. MaxMerges /\ sources' \subseteq Names /\ harm' \in Harms
    BY <1>1, ResultStoreAssumption DEF TypeOK, Present, Harms
  <2> QED
    BY <1>1, <2>1 DEF TypeOK
<1>3. FileInv'
  BY <1>1 DEF FileInv, Holds
<1>4. RunInv'
  BY <1>1 DEF RunInv
<1>5. MergeInv'
  <2>1. mergeFile = NoFile /\ \A n \in Present : n.day <= day
    BY <1>1 DEF MergeInv, FileInv, Present
  <2> QED
    BY <1>1, <2>1 DEF MergeInv
<1>6. KeptInv'
  BY <1>1 DEF KeptInv, Working, Holds
<1>7. OnceInv'
  <2>1. Present' = Present /\ mergeFile = NoFile
    BY <1>1 DEF Present, MergeInv
  <2> QED
    BY <1>1, <2>1 DEF OnceInv, Holds
<1> QED
  BY <1>2, <1>3, <1>4, <1>5, <1>6, <1>7

LEMMA CollectStep ==
  ASSUME StoreInv, Collect
  PROVE  StoreInv'
<1> USE DEF StoreInv
<1>1. /\ UNCHANGED <<day, state, held, runId, runs, pending, label, runFile, stops, written, harm>>
      /\ merge = "collect"
  BY DEF Collect, clock, disk, run, history
<1>2. CASE MergeOver
  BY <1>1, <1>2, MergeOverStep DEF OnceInv, TypeOK
<1>3. CASE merge' = "write" /\ gathered' = Sum(Present)
           /\ UNCHANGED <<merges, replace, sources, outputs, mergeFile>>
  <2>1. /\ held \in [Names -> [Results -> 0 .. 2]] /\ Present \in SUBSET Names
        /\ Present' = Present /\ mergeFile = NoFile /\ outputs = {}
    BY <1>1 DEF TypeOK, Present, MergeInv
  <2>2. \A r \in Results : /\ gathered'[r] \in 0 .. 2
                           /\ gathered'[r] > 0 <=> \E n \in Present : Holds(n, r)
    BY <1>3, <2>1, SumOfFiles DEF Holds
  <2>3. TypeOK'
    <3>1. gathered' \in [Results -> 0 .. 2]
      BY <1>3, <2>2 DEF Sum
    <3> QED
      BY <1>1, <1>3, <3>1 DEF TypeOK
  <2>4. FileInv'
    <3>1. \A r \in Results : gathered'[r] > 0 => \E n \in Names : Holds(n, r)
      BY <2>1, <2>2
    <3> QED
      BY <1>1, <3>1 DEF FileInv, Holds
  <2>5. RunInv'
    BY <1>1 DEF RunInv
  <2>6. MergeInv'
    BY <1>1, <1>3, <2>1 DEF MergeInv
  <2>7. KeptInv'
    <3> SUFFICES ASSUME harm # "lost" PROVE KeptInv'
      BY <1>1 DEF KeptInv
    <3>1. \A r \in written : \E n \in Names : Holds(n, r)
      BY <1>1 DEF KeptInv
    <3>2. \A r \in written : gathered'[r] > 0
      BY <2>2, <3>1, HolderPresent DEF TypeOK
    <3>3. \A db \in Databases : ~Merged(db)'
      BY <1>3, <2>1 DEF Merged
    <3> QED
      BY <1>1, <3>1, <3>2, <3>3 DEF KeptInv, Holds
  <2>8. OnceInv'
    <3> SUFFICES ASSUME harm = "none" PROVE OnceInv'
      BY <1>1 DEF OnceInv
    <3>1. ASSUME NEW r \in Results PROVE gathered'[r] <= 1
      <4>1. /\ \A n \in Present : held[n][r] <= 1
            /\ \A n, m \in Present : held[n][r] > 0 /\ held[m][r] > 0 => n = m
        BY <1>1, <2>1 DEF OnceInv, Holds
      <4> QED
        BY <1>3, <2>1, <4>1, SumOfFiles
    <3> QED
      BY <1>1, <1>3, <2>1, <3>1 DEF OnceInv
  <2> QED
    BY <2>3, <2>4, <2>5, <2>6, <2>7, <2>8
<1> QED
  BY <1>2, <1>3 DEF Collect

LEMMA NameMergedStep ==
  ASSUME StoreInv, NameMerged
  PROVE  StoreInv'
<1> USE DEF StoreInv
<1>1. PICK db \in Unmerged :
        /\ outputs' = outputs \cup {[day |-> day, label |-> MergeLabel, db |-> db]}
        /\ mergeFile' = [day |-> day, label |-> MergeLabel, db |-> db]
  BY DEF NameMerged
<1> DEFINE name == [day |-> day, label |-> MergeLabel, db |-> db]
<1>2. /\ name \in Names /\ name.db = db /\ name.day = day /\ name # NoFile /\ db \in Databases
      /\ ~\E n \in outputs : n.db = db
  BY NameType, ResultStoreAssumption DEF TypeOK, Unmerged
<1>3. outputs' = outputs \cup {name} /\ mergeFile' = name
  BY <1>1
<1> HIDE DEF name
<1>4. /\ UNCHANGED <<day, state, held, runId, runs, pending, label, runFile, merges, replace,
                     sources, gathered, stops, written, harm>>
      /\ merge = "write" /\ merge' = "open"
      /\ mergeFile = NoFile /\ outputs \subseteq Names
  BY DEF NameMerged, clock, disk, run, history, MergeInv, TypeOK
<1>5. TypeOK'
  BY <1>2, <1>3, <1>4 DEF TypeOK
<1>6. FileInv'
  BY <1>4 DEF FileInv, Holds
<1>7. RunInv'
  BY <1>4 DEF RunInv
<1>8. MergeInv'
  <2>1. name.day <= day
    BY <1>2, DayType
  <2>2. \A n, m \in outputs' : n.db = m.db => n = m
    BY <1>2, <1>3 DEF MergeInv
  <2> QED
    BY <1>2, <1>3, <1>4, <2>1, <2>2 DEF MergeInv
<1>9. KeptInv'
  <2> SUFFICES ASSUME harm # "lost" PROVE KeptInv'
    BY <1>4 DEF KeptInv
  <2>1. ASSUME NEW other \in Databases, Merged(other)' PROVE Merged(other)
    BY <1>2, <1>3, <1>4, <2>1 DEF Merged
  <2>2. ASSUME NEW other \in Databases, Merged(other)'
        PROVE  \E n \in Names : /\ n.db = other /\ (n \in outputs' \/ n \notin sources)
                                /\ \A r \in Results : r[2] = other => held[n][r] = gathered[r]
    BY <1>3, <1>4, <2>1, <2>2 DEF KeptInv, Working
  <2> QED
    BY <1>4, <2>2 DEF KeptInv, Working, Holds
<1>10. OnceInv'
  <2>1. Present' = Present
    BY <1>4 DEF Present
  <2> QED
    BY <1>3, <1>4, <2>1 DEF OnceInv, Holds
<1> QED
  BY <1>5, <1>6, <1>7, <1>8, <1>9, <1>10

LEMMA OpenMergedStep ==
  ASSUME StoreInv, OpenMerged
  PROVE  StoreInv'
<1> USE DEF StoreInv
<1> DEFINE file == [mergeFile EXCEPT !.day = day]
<1>1. /\ merge = "open" /\ merge' = "close" /\ mergeFile' = file
      /\ state' = [state EXCEPT ![file] = "torn"]
      /\ held' = [held EXCEPT ![file] = NoResults]
      /\ runId' = [runId EXCEPT ![file] = 0]
      /\ UNCHANGED <<day, runs, pending, label, runFile, merges, replace, sources, gathered,
                     outputs, stops, written>>
      /\ harm' = IF mergeFile.day = day \/ harm = "lost" THEN harm ELSE "copied"
  BY DEF OpenMerged, Open, clock, run, Befalls
<1>2. /\ mergeFile # NoFile /\ mergeFile \in Names /\ mergeFile.day <= day
      /\ mergeFile \in outputs /\ \A n \in sources : n.day <= mergeFile.day
      /\ \E n \in outputs : n.db = mergeFile.db
  BY <1>1 DEF MergeInv
<1>3. /\ file \in Names /\ file.db = mergeFile.db /\ file.day = day /\ file # NoFile
      /\ file = mergeFile <=> mergeFile.day = day
  BY <1>2, NameType DEF TypeOK
<1> HIDE DEF file
<1>4. /\ held \in [Names -> [Results -> 0 .. 2]]
      /\ state \in [Names -> {"absent", "torn", "whole"}]
      /\ runId \in [Names -> 0 .. MaxRuns \cup Databases]
      /\ written \subseteq Results /\ 0 \in 0 .. MaxRuns /\ sources \subseteq Names
  BY ResultStoreAssumption DEF TypeOK
<1>5. /\ held'[file] = NoResults /\ state'[file] = "torn"
      /\ \A n \in Names : n # file => held'[n] = held[n] /\ state'[n] = state[n]
      /\ held' \in [Names -> [Results -> 0 .. 2]]
      /\ state' \in [Names -> {"absent", "torn", "whole"}]
      /\ runId' \in [Names -> 0 .. MaxRuns \cup Databases]
  BY <1>1, <1>3, <1>4, ResultType
<1>6. \A n \in Names, r \in Results : Holds(n, r)' => n # file /\ Holds(n, r)
  BY <1>5, ResultType DEF Holds
<1>7. TypeOK'
  <2>1. harm' \in Harms
    BY <1>1 DEF TypeOK, Harms
  <2> QED
    BY <1>1, <1>3, <1>5, <2>1 DEF TypeOK
<1>8. FileInv'
  <2>1. \A n \in Names : (state'[n] # "absent" => n.day <= day) /\ (state'[n] # "whole" => held'[n] = NoResults)
    BY <1>3, <1>5, DayType DEF FileInv
  <2> QED
    BY <1>1, <1>6, <2>1 DEF FileInv
<1>9. RunInv'
  BY <1>1 DEF RunInv
<1>10. MergeInv'
  <2>1. file \in outputs \/ file \notin sources
    <3>1. CASE mergeFile.day = day
      BY <1>2, <1>3, <3>1
    <3>2. CASE mergeFile.day # day
      <4>1. mergeFile.day < day
        BY <1>2, <3>2, DayType
      <4>2. ~(file.day <= mergeFile.day)
        BY <1>2, <1>3, <4>1, DayType
      <4> QED
        BY <1>2, <4>2
    <3> QED
      BY <3>1, <3>2
  <2>2. file.day <= day
    BY <1>3, DayType
  <2> QED
    BY <1>1, <1>2, <1>3, <2>1, <2>2 DEF MergeInv
<1>11. KeptInv'
  <2> SUFFICES ASSUME harm' # "lost" PROVE KeptInv'
    BY DEF KeptInv
  <2>1. harm # "lost"
    BY <1>1
  <2>2. ASSUME NEW r \in written PROVE r[2] = file.db \/ \E n \in Names : Holds(n, r)'
    <3>1. PICK n \in Names : Holds(n, r)
      BY <1>1, <2>1 DEF KeptInv
    <3>2. CASE n = file
      BY <1>4, <3>1, <3>2 DEF FileInv
    <3>3. CASE n # file
      BY <1>5, <3>1, <3>3 DEF Holds
    <3> QED
      BY <3>2, <3>3
  <2>3. ASSUME NEW db \in Databases, Merged(db)'
        PROVE  \E n \in Names : /\ n.db = db /\ (n \in outputs \/ n \notin sources)
                                /\ \A r \in Results : r[2] = db => held'[n][r] = gathered[r]
    <3>1. Merged(db) /\ file.db # db
      BY <1>1, <1>3, <2>3 DEF Merged
    <3>2. PICK n \in Names : /\ n.db = db /\ (n \in outputs \/ n \notin sources)
                             /\ \A r \in Results : r[2] = db => held[n][r] = gathered[r]
      BY <1>1, <2>1, <3>1 DEF KeptInv, Working
    <3>3. held'[n] = held[n]
      BY <1>5, <3>1, <3>2
    <3> QED
      BY <3>2, <3>3
  <2> QED
    BY <1>1, <2>1, <2>2, <2>3 DEF KeptInv, Working
<1>12. OnceInv'
  <2> SUFFICES ASSUME harm' = "none" PROVE OnceInv'
    BY DEF OnceInv
  <2>1. harm = "none" /\ file = mergeFile
    BY <1>1, <1>3
  <2>2. \A r \in Results, n \in Names : held'[n][r] <= 1
    BY <1>5, <2>1, ResultType DEF OnceInv
  <2>3. \A n \in Present' : n \in Present \/ n = file
    BY <1>5 DEF Present
  <2>4. \A n \in Present' : n \in sources \/ n \in outputs
    BY <1>1, <1>2, <2>1, <2>3 DEF OnceInv
  <2> QED
    BY <1>1, <1>2, <2>1, <2>2, <2>4 DEF OnceInv
<1> QED
  BY <1>7, <1>8, <1>9, <1>10, <1>11, <1>12

LEMMA CloseMergedStep ==
  ASSUME StoreInv, CloseMerged
  PROVE  StoreInv'
<1> USE DEF StoreInv
<1> DEFINE part == [r \in Results |-> IF r[2] = mergeFile.db THEN gathered[r] ELSE 0]
<1>1. /\ merge = "close" /\ merge' = "write" /\ mergeFile' = NoFile
      /\ state' = [state EXCEPT ![mergeFile] = "whole"]
      /\ held' = [held EXCEPT ![mergeFile] = part]
      /\ runId' = [runId EXCEPT ![mergeFile] = mergeFile.db]
      /\ UNCHANGED <<day, runs, pending, label, runFile, merges, replace, sources, gathered,
                     outputs, stops, written, harm>>
  BY DEF CloseMerged, Close, clock, run, history
<1>2. /\ mergeFile # NoFile /\ mergeFile \in Names /\ mergeFile.day <= day
      /\ mergeFile \in outputs \/ mergeFile \notin sources
      /\ \E n \in outputs : n.db = mergeFile.db
      /\ mergeFile.db \in Databases
  BY <1>1, NameType DEF MergeInv
<1>3. /\ held \in [Names -> [Results -> 0 .. 2]] /\ gathered \in [Results -> 0 .. 2]
      /\ state \in [Names -> {"absent", "torn", "whole"}]
      /\ runId \in [Names -> 0 .. MaxRuns \cup Databases]
      /\ written \subseteq Results
  BY DEF TypeOK
<1>4. /\ part \in [Results -> 0 .. 2]
      /\ \A r \in Results : r[2] = mergeFile.db => part[r] = gathered[r]
      /\ \A r \in Results : part[r] > 0 => r[2] = mergeFile.db /\ gathered[r] > 0
      /\ \A r \in Results : part[r] = 0 \/ part[r] = gathered[r]
  BY <1>3
<1> HIDE DEF part
<1>5. /\ held'[mergeFile] = part /\ state'[mergeFile] = "whole"
      /\ \A n \in Names : n # mergeFile => held'[n] = held[n] /\ state'[n] = state[n]
      /\ held' \in [Names -> [Results -> 0 .. 2]]
      /\ state' \in [Names -> {"absent", "torn", "whole"}]
      /\ runId' \in [Names -> 0 .. MaxRuns \cup Databases]
  BY <1>1, <1>2, <1>3, <1>4
<1>6. \A n \in Names, r \in Results :
        Holds(n, r)' => Holds(n, r) \/ (n = mergeFile /\ r[2] = n.db /\ gathered[r] > 0)
  BY <1>4, <1>5 DEF Holds
<1>7. TypeOK'
  BY <1>1, <1>5 DEF TypeOK
<1>8. FileInv'
  <2>1. \A n \in Names : (state'[n] # "absent" => n.day <= day) /\ (state'[n] # "whole" => held'[n] = NoResults)
    BY <1>2, <1>5 DEF FileInv
  <2> QED
    BY <1>1, <1>6, <2>1 DEF FileInv
<1>9. RunInv'
  BY <1>1 DEF RunInv
<1>10. MergeInv'
  BY <1>1 DEF MergeInv
<1>11. KeptInv'
  <2> SUFFICES ASSUME harm # "lost" PROVE KeptInv'
    BY <1>1 DEF KeptInv
  <2>1. ASSUME NEW r \in written PROVE \E n \in Names : Holds(n, r)'
    <3>1. gathered[r] > 0 /\ r \in Results
      BY <1>1, <1>3, <2>1 DEF KeptInv, Working
    <3>2. CASE r[2] = mergeFile.db
      BY <1>2, <1>4, <1>5, <3>1, <3>2 DEF Holds
    <3>3. CASE r[2] # mergeFile.db
      <4>1. PICK n \in Names : Holds(n, r)
        BY <2>1, <3>3 DEF KeptInv
      <4>2. n # mergeFile
        BY <3>1, <3>3, <4>1 DEF FileInv
      <4> QED
        BY <1>5, <4>1, <4>2 DEF Holds
    <3> QED
      BY <3>2, <3>3
  <2>2. ASSUME NEW db \in Databases, Merged(db)'
        PROVE  \E n \in Names : /\ n.db = db /\ (n \in outputs \/ n \notin sources)
                                /\ \A r \in Results : r[2] = db => held'[n][r] = gathered[r]
    <3>1. CASE db = mergeFile.db
      BY <1>2, <1>4, <1>5, <3>1
    <3>2. CASE db # mergeFile.db
      <4>1. Merged(db)
        BY <1>1, <2>2, <3>2 DEF Merged
      <4>2. PICK n \in Names : /\ n.db = db /\ (n \in outputs \/ n \notin sources)
                               /\ \A r \in Results : r[2] = db => held[n][r] = gathered[r]
        BY <1>1, <4>1 DEF KeptInv, Working
      <4>3. held'[n] = held[n]
        BY <1>5, <3>2, <4>2
      <4> QED
        BY <4>2, <4>3
    <3> QED
      BY <3>1, <3>2
  <2>3. \A r \in written : gathered[r] > 0
    BY <1>1 DEF KeptInv, Working
  <2> QED
    BY <1>1, <2>1, <2>2, <2>3 DEF KeptInv, Working
<1>12. OnceInv'
  <2> SUFFICES ASSUME harm = "none" PROVE OnceInv'
    BY <1>1 DEF OnceInv
  <2>1. ASSUME NEW r \in Results, NEW n \in Names PROVE held'[n][r] <= 1
    <3>1. gathered[r] <= 1 /\ held[n][r] <= 1
      BY DEF OnceInv
    <3>2. CASE n = mergeFile
      BY <1>4, <1>5, <3>1, <3>2
    <3>3. CASE n # mergeFile
      BY <1>5, <3>1, <3>3
    <3> QED
      BY <3>2, <3>3
  <2>2. \A n \in Present' : n \in Present \/ n = mergeFile
    BY <1>5 DEF Present
  <2>3. \A n \in Present' : n \in sources \/ n \in outputs
    BY <1>1, <1>2, <2>2 DEF OnceInv
  <2> QED
    BY <1>1, <2>1, <2>3 DEF OnceInv
<1> QED
  BY <1>7, <1>8, <1>9, <1>10, <1>11, <1>12

LEMMA AllMergedStep ==
  ASSUME StoreInv, AllMerged
  PROVE  StoreInv'
<1> USE DEF StoreInv
<1>1. /\ UNCHANGED <<day, state, held, runId, runs, pending, label, runFile, stops, written>>
      /\ merge = "write" /\ Unmerged = {}
      /\ harm' = IF replace \/ harm = "lost" THEN harm ELSE "copied"
      /\ ~replace => MergeOver
  BY DEF AllMerged, clock, disk, run, Befalls
<1>2. harm' \in Harms /\ stops' \in 0 .. MaxStops
  BY <1>1 DEF TypeOK, Harms
<1>3. CASE ~replace
  BY <1>1, <1>2, <1>3, MergeOverStep
<1>4. CASE replace
  <2>1. /\ merge' = "remove" /\ harm' = harm
        /\ UNCHANGED <<merges, replace, sources, gathered, outputs, mergeFile>>
    BY <1>1, <1>4 DEF AllMerged
  <2>2. mergeFile = NoFile
    BY <1>1 DEF MergeInv
  <2>3. ASSUME NEW r \in Results, gathered[r] > 0 PROVE Merged(r[2])
    <3>1. r[2] \in Databases
      BY ResultType
    <3>2. \E n \in outputs : n.db = r[2]
      BY <1>1, <2>3, <3>1 DEF Unmerged
    <3> QED
      BY <2>2, <3>2 DEF Merged
  <2>4. TypeOK'
    BY <1>1, <2>1 DEF TypeOK
  <2>5. FileInv'
    BY <1>1, <2>1 DEF FileInv, Holds
  <2>6. RunInv'
    BY <1>1, <2>1 DEF RunInv
  <2>7. MergeInv'
    BY <1>1, <2>1, <2>2, <2>3 DEF MergeInv, Merged
  <2>8. KeptInv'
    BY <1>1, <2>1 DEF KeptInv, Working, Holds, Merged
  <2>9. OnceInv'
    BY <1>1, <2>1 DEF OnceInv, Holds, Present
  <2> QED
    BY <2>4, <2>5, <2>6, <2>7, <2>8, <2>9
<1> QED
  BY <1>3, <1>4

LEMMA RemoveSourceStep ==
  ASSUME StoreInv, RemoveSource
  PROVE  StoreInv'
<1> USE DEF StoreInv
<1>1. PICK source \in ToRemove :
        /\ state' = [state EXCEPT ![source] = "absent"]
        /\ held' = [held EXCEPT ![source] = NoResults]
        /\ runId' = [runId EXCEPT ![source] = 0]
  BY DEF RemoveSource
<1>2. /\ merge = "remove"
      /\ UNCHANGED <<day, runs, pending, label, runFile, merges, merge, replace, sources, gathered,
                     outputs, mergeFile, stops, written, harm>>
  BY DEF RemoveSource, clock, run, merging, history
<1>3. /\ source \in Names /\ source \in sources /\ source \notin outputs
      /\ held \in [Names -> [Results -> 0 .. 2]]
      /\ state \in [Names -> {"absent", "torn", "whole"}]
      /\ runId \in [Names -> 0 .. MaxRuns \cup Databases]
      /\ written \subseteq Results /\ 0 \in 0 .. MaxRuns
  BY ResultStoreAssumption DEF TypeOK, ToRemove
<1>4. /\ held'[source] = NoResults /\ state'[source] = "absent"
      /\ \A n \in Names : n # source => held'[n] = held[n] /\ state'[n] = state[n]
      /\ held' \in [Names -> [Results -> 0 .. 2]]
      /\ state' \in [Names -> {"absent", "torn", "whole"}]
      /\ runId' \in [Names -> 0 .. MaxRuns \cup Databases]
  BY <1>1, <1>3, ResultType
<1>5. \A n \in Names, r \in Results : Holds(n, r)' => n # source /\ Holds(n, r)
  BY <1>4, ResultType DEF Holds
<1>6. TypeOK'
  BY <1>2, <1>4 DEF TypeOK
<1>7. FileInv'
  <2>1. \A n \in Names : (state'[n] # "absent" => n.day <= day) /\ (state'[n] # "whole" => held'[n] = NoResults)
    BY <1>3, <1>4 DEF FileInv
  <2> QED
    BY <1>2, <1>5, <2>1 DEF FileInv
<1>8. RunInv'
  BY <1>2 DEF RunInv
<1>9. MergeInv'
  BY <1>2 DEF MergeInv, Merged
<1>10. KeptInv'
  <2> SUFFICES ASSUME harm # "lost" PROVE KeptInv'
    BY <1>2 DEF KeptInv
  <2>1. ASSUME NEW db \in Databases, Merged(db)
        PROVE  \E n \in Names : /\ n.db = db /\ (n \in outputs \/ n \notin sources)
                                /\ \A r \in Results : r[2] = db => held'[n][r] = gathered[r]
    <3>1. PICK n \in Names : /\ n.db = db /\ (n \in outputs \/ n \notin sources)
                             /\ \A r \in Results : r[2] = db => held[n][r] = gathered[r]
      BY <1>2, <2>1 DEF KeptInv, Working
    <3>2. held'[n] = held[n]
      BY <1>3, <1>4, <3>1
    <3> QED
      BY <3>1, <3>2
  <2>2. ASSUME NEW r \in written PROVE gathered[r] > 0 /\ \E n \in Names : Holds(n, r)'
    <3>1. gathered[r] > 0 /\ r \in Results /\ r[2] \in Databases
      BY <1>2, <1>3, <2>2, ResultType DEF KeptInv, Working
    <3>2. Merged(r[2])
      BY <1>2, <3>1 DEF MergeInv
    <3>3. PICK n \in Names : held'[n][r] = gathered[r]
      BY <2>1, <3>1, <3>2
    <3> QED
      BY <3>1, <3>3 DEF Holds
  <2> QED
    BY <1>2, <2>1, <2>2 DEF KeptInv, Working, Merged
<1>11. OnceInv'
  <2> SUFFICES ASSUME harm = "none" PROVE OnceInv'
    BY <1>2 DEF OnceInv
  <2>1. \A r \in Results, n \in Names : held'[n][r] <= 1
    BY <1>4, ResultType DEF OnceInv
  <2>2. \A n \in Present' : n \in Present
    BY <1>4 DEF Present
  <2> QED
    BY <1>2, <2>1, <2>2 DEF OnceInv
<1> QED
  BY <1>6, <1>7, <1>8, <1>9, <1>10, <1>11

LEMMA EndMergeStep ==
  ASSUME StoreInv, EndMerge
  PROVE  StoreInv'
<1> USE DEF StoreInv
<1>1. /\ UNCHANGED <<day, state, held, runId, runs, pending, label, runFile, stops, written, harm>>
      /\ merge = "remove" /\ ToRemove = {} /\ MergeOver
  BY DEF EndMerge, clock, disk, run, history
<1>2. ASSUME harm = "none", NEW n \in Names, NEW m \in Names, NEW r \in Results,
             Holds(n, r), Holds(m, r)
      PROVE  n = m
  <2>1. n \in Present /\ m \in Present
    BY <1>2, HolderPresent
  <2>2. n \in outputs /\ m \in outputs
    BY <1>1, <1>2, <2>1 DEF OnceInv, ToRemove, Present
  <2>3. n.db = m.db
    BY <1>2 DEF FileInv
  <2> QED
    BY <2>2, <2>3 DEF MergeInv
<1>3. harm' \in Harms /\ stops' \in 0 .. MaxStops
  BY <1>1 DEF TypeOK
<1> QED
  BY <1>1, <1>2, <1>3, MergeOverStep

LEMMA StopMergeStep ==
  ASSUME StoreInv, StopMerge
  PROVE  StoreInv'
<1> USE DEF StoreInv
<1>1. /\ UNCHANGED <<day, state, held, runId, runs, pending, label, runFile, written>>
      /\ MergeOver /\ stops < MaxStops /\ stops' = stops + 1
      /\ harm' = IF harm = "lost" THEN harm
                 ELSE IF merge = "close" THEN "lost" ELSE "copied"
  BY DEF StopMerge, clock, disk, run, Befalls
<1>2. harm' \in Harms /\ stops' \in 0 .. MaxStops
  BY <1>1, ResultStoreAssumption DEF TypeOK, Harms
<1> QED
  BY <1>1, <1>2, MergeOverStep

LEMMA StoreStep ==
  ASSUME StoreInv, [Next]_vars
  PROVE  StoreInv'
<1>1. CASE UNCHANGED vars
  BY <1>1 DEF vars, clock, disk, run, merging, history, StoreInv, TypeOK, FileInv, RunInv,
              MergeInv, KeptInv, OnceInv, Holds, Merged, Working, Present
<1> QED
  BY <1>1, DayStep, PendingStep, OpenResultStep, CloseResultStep, ListSourcesStep, CollectStep,
     NameMergedStep, OpenMergedStep, CloseMergedStep, AllMergedStep, RemoveSourceStep,
     EndMergeStep, StopMergeStep DEF Next

LEMMA InitStore ==
  ASSUME Init
  PROVE  StoreInv
<1>1. \A n \in Names : state[n] = "absent" /\ held[n] = NoResults
  BY DEF Init
<1>2. \A n \in Names, r \in Results : held[n][r] = 0 /\ ~Holds(n, r)
  BY <1>1, ResultType DEF Holds
<1>3. TypeOK
  <2>1. /\ 1 \in Days /\ 0 \in 0 .. MaxRuns /\ 0 \in 0 .. MaxMerges /\ 0 \in 0 .. MaxStops
        /\ MergeLabel \in Labels
    BY ResultStoreAssumption DEF Days
  <2>2. /\ state \in [Names -> {"absent", "torn", "whole"}]
        /\ held \in [Names -> [Results -> 0 .. 2]]
        /\ runId \in [Names -> 0 .. MaxRuns \cup Databases]
    BY <2>1, ResultType DEF Init
  <2>3. gathered \in [Results -> 0 .. 2]
    BY ResultType DEF Init
  <2> QED
    BY <2>1, <2>2, <2>3 DEF Init, TypeOK, Harms
<1>4. \A r \in Results : gathered[r] = 0
  BY ResultType DEF Init
<1>5. FileInv
  BY <1>1, <1>2, <1>4 DEF FileInv
<1>6. RunInv /\ MergeInv
  BY DEF Init, RunInv, MergeInv
<1>7. KeptInv
  BY DEF Init, KeptInv, Working
<1>8. OnceInv
  BY <1>2, <1>4 DEF Init, OnceInv
<1> QED
  BY <1>3, <1>5, <1>6, <1>7, <1>8 DEF StoreInv
-------------------------------------------------------------------------------
(* Theorems                                                                      *)

\* The inductive invariant: a merge holds what was written, and leaves where it is what it has
\* not written again.
THEOREM StoreInvariant == Spec => []StoreInv
<1>1. Init => StoreInv
  BY InitStore
<1>2. StoreInv /\ [Next]_vars => StoreInv'
  BY StoreStep
<1> QED
  BY <1>1, <1>2, PTL DEF Spec

\* The type invariant of the result files.
THEOREM TypeCorrect == Spec => []TypeOK
<1>1. StoreInv => TypeOK
  BY DEF StoreInv
<1> QED
  BY <1>1, StoreInvariant, PTL

\* Every result counts once: what a run has written is not lost by a merge, wherever it is
\* stopped, unless a file was open then or a run wrote meanwhile; and between merges that
\* remove what they merged no result is counted twice.
THEOREM ResultsCountOnce == Spec => []EveryResultOnce
<1>1. ASSUME StoreInv PROVE NoResultLost
  <2> SUFFICES ASSUME harm # "lost", NEW r \in written
               PROVE  r \in Rewritten \/ \E n \in Present : held[n][r] > 0
    BY DEF NoResultLost
  <2>1. r \in Results
    BY <1>1 DEF StoreInv, TypeOK
  <2>2. CASE merge = "close"
    BY <1>1, <2>1, <2>2 DEF StoreInv, KeptInv, Working, Rewritten
  <2>3. CASE merge # "close"
    <3>1. PICK n \in Names : Holds(n, r)
      BY <1>1, <2>3 DEF StoreInv, KeptInv
    <3>2. n \in Present
      BY <1>1, <2>1, <3>1, HolderPresent DEF StoreInv
    <3> QED
      BY <3>1, <3>2 DEF Holds
  <2> QED
    BY <2>2, <2>3
<1>2. ASSUME StoreInv PROVE NoResultTwice
  <2> SUFFICES ASSUME harm = "none", merge = "idle", NEW r \in Results
               PROVE  Found[r] <= 1
    BY DEF NoResultTwice
  <2>1. held \in [Names -> [Results -> 0 .. 2]] /\ Present \in SUBSET Names
    BY <1>2 DEF StoreInv, TypeOK, Present
  <2>2. /\ \A n \in Present : held[n][r] <= 1
        /\ \A n, m \in Present : held[n][r] > 0 /\ held[m][r] > 0 => n = m
    BY <1>2, <2>1 DEF StoreInv, OnceInv, Holds
  <2> QED
    BY <2>1, <2>2, SumOfFiles DEF Found
<1>3. StoreInv => EveryResultOnce
  BY <1>1, <1>2 DEF EveryResultOnce
<1> QED
  BY <1>3, StoreInvariant, PTL
-------------------------------------------------------------------------------
(* The page of results                                                           *)

LEMMA LeastNatural ==
  ASSUME NEW numbers \in SUBSET Nat, numbers # {}
  PROVE  \E least \in numbers : \A n \in numbers : least <= n
<1>1. OpToRel(<, Nat) = {p \in Nat \X Nat : p[1] < p[2]}
  BY DEF OpToRel
<1>2. PICK least \in numbers : \A n \in numbers : <<n, least>> \notin OpToRel(<, Nat)
  BY NatLessThanWellFounded, WFMin
<1>3. ASSUME NEW n \in numbers PROVE least <= n
  <2>1. <<n, least>> \notin {p \in Nat \X Nat : p[1] < p[2]}
    BY <1>1, <1>2
  <2> QED
    BY <2>1
<1> QED
  BY <1>3

\* Of the files with a label one comes first in the order the page reads them.
LEMMA FirstFile ==
  ASSUME NEW files \in SUBSET Names, files # {}
  PROVE  \E first \in files : \A n \in files : Earlier(first, n)
<1> DEFINE places == {Directory[n.db] : n \in files}
<1>1. \A n \in files : n.db \in Databases /\ Directory[n.db] \in Nat /\ n.day \in Nat
  BY NameType, ResultPageAssumption DEF Days
<1>2. PICK place \in places : \A p \in places : place <= p
  <2>1. places \in SUBSET Nat /\ places # {}
    BY <1>1
  <2> HIDE DEF places
  <2> QED
    BY <2>1, LeastNatural
<1> DEFINE there == {n \in files : Directory[n.db] = place}
           days == {n.day : n \in there}
<1>3. PICK d \in days : \A e \in days : d <= e
  <2>1. days \in SUBSET Nat /\ days # {}
    BY <1>1, <1>2
  <2> HIDE DEF days
  <2> QED
    BY <2>1, LeastNatural
<1>4. PICK first \in there : first.day = d
  BY <1>3
<1>5. ASSUME NEW n \in files PROVE Earlier(first, n)
  <2>1. CASE n \in there
    <3>1. first.db = n.db
      BY <1>1, <1>4, <2>1, ResultPageAssumption
    <3>2. first.day <= n.day
      BY <1>3, <1>4, <2>1
    <3> QED
      BY <3>1, <3>2 DEF Earlier
  <2>2. CASE n \notin there
    <3>1. Directory[first.db] = place /\ place <= Directory[n.db] /\ Directory[n.db] # place
      BY <1>2, <1>4, <2>2
    <3> QED
      BY <1>1, <1>4, <3>1 DEF Earlier
  <2> QED
    BY <2>1, <2>2
<1> QED
  BY <1>4, <1>5

\* A file whose label is that of one run only is read: its results are shown.
LEMMA OwnLabelIsShown ==
  ASSUME NEW files \in SUBSET Names, NEW n \in WithOwnLabel(files),
         NEW r \in Results, held[n][r] > 0
  PROVE  r \in ShownResults(files)
<1> DEFINE same == {m \in files : m.label = n.label}
           first == CHOOSE m \in same : \A other \in same : Earlier(m, other)
<1>1. n \in files /\ n \in same /\ \A m \in same : runId[m] = runId[n]
  BY DEF WithOwnLabel
<1>2. first \in same
  <2>1. \E m \in same : \A other \in same : Earlier(m, other)
    BY <1>1, FirstFile
  <2> QED
    BY <2>1
<1>3. SelectedRun(same) = runId[n]
  BY <1>1, <1>2 DEF SelectedRun
<1> QED
  BY <1>1, <1>3 DEF ShownResults

\* The entry of a database in the charts is that of a success with the highest rate of
\* queries among the runs with a label of their own, whatever the files hold besides
\* (check_results/data.py 117, filters.py).
THEOREM ChartsShowTheBest == Spec => []ChartShowsTheBest
<1>1. ASSUME NEW d \in Databases
      PROVE  LET offered == Offered(Present, d)
                 shown == FilterTasks(ShownResults(Present), d)
             IN offered # {} =>
                  /\ IsNormal(shown) /\ offered \subseteq Points(shown)
                  /\ \A m \in MergeMetrics(shown), r \in offered :
                       Qps[m] >= Qps[r] /\ (Qps[r] > 0 => m \notin FailedResults)
  <2> DEFINE offered == Offered(Present, d)
             shown == FilterTasks(ShownResults(Present), d)
  <2>1. ASSUME NEW r \in offered PROVE r \in shown /\ r \notin FailedResults /\ r \in Results
    <3>1. /\ r \in Results /\ r \notin FailedResults /\ r[2] = d
          /\ \E n \in WithOwnLabel(Present) : held[n][r] > 0
      BY <2>1 DEF Offered
    <3>2. Present \in SUBSET Names
      BY DEF Present
    <3>3. r \in ShownResults(Present)
      BY <3>1, <3>2, OwnLabelIsShown
    <3> QED
      BY <3>1, <3>3 DEF FilterTasks
  <2>2. \A m \in shown : m \in Results
    BY DEF FilterTasks, ShownResults
  <2> HIDE DEF offered, shown
  <2>3. offered # {} => IsNormal(shown) /\ offered \subseteq Points(shown)
    BY <2>1 DEF IsNormal, Points
  <2>4. ASSUME NEW m \in MergeMetrics(shown), NEW r \in offered
        PROVE  Qps[m] >= Qps[r] /\ (Qps[r] > 0 => m \notin FailedResults)
    <3>1. m \in Results /\ r \in Results /\ Qps[r] <= Qps[m]
      BY <2>1, <2>2, <2>4 DEF MergeMetrics
    <3>2. Qps[m] \in Nat /\ Qps[r] \in Nat /\ (m \in FailedResults => Qps[m] = 0)
      BY <3>1, ResultPageAssumption
    <3> QED
      BY <3>1, <3>2
  <2> QED
    BY <2>3, <2>4 DEF offered, shown
<1>2. ChartShowsTheBest
  BY <1>1 DEF ChartShowsTheBest
<1> QED
  BY <1>2, PTL
===============================================================================
