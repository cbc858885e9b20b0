------------------------------- MODULE LoadProofs -------------------------------
(*******************************************************************************)
(* Proofs about the way of a dataset into a database: DatasetCase, for corpora, files  *)
(* and batches of any size, and ConcurrentInsert, for any number of workers, batches    *)
(* and retries.                                                                           *)
(*******************************************************************************)
EXTENDS ConcurrentInsert, DatasetCase, FiniteSetTheorems, WellFoundedInduction, TLAPS

-------------------------------------------------------------------------------
(* The inductive invariant of a case.                                         *)

\* The documents a capped corpus keeps are written down, those of a whole one are not.
Prepared ==
  IF case.cap = NumDocs THEN kept = <<>>
  ELSE /\ ~CapRefused(Required(case.qrels), case.cap)
       /\ kept = Materialised(Required(case.qrels), case.cap)

\* The filter ids and the ground truth come of a pass that met every document of the qrels.
FilteredInPass ==
  \E upto \in 0 .. Len(Stream) :
    /\ ids = QrelIds(Required(case.qrels), Cut(Stream, upto), case.cap)
    /\ Required(case.qrels) \subseteq DOMAIN ids
    /\ truth = Filtered(case.qrels, ids, case.threshold)

TextInv ==
  ~Vector =>
    /\ phase \notin {"resolve_k", "read", "download"}
    /\ phase = "load_ir" => kept = <<>> /\ ir = "none"
    /\ phase = "materialise" => kept = <<>> /\ ir = "queries"
    /\ phase = "filter" => Prepared /\ ir = "queries"
    /\ ir = "ready" => Prepared
    /\ ir = "ready" /\ case.threshold # -1 => FilteredInPass
    /\ phase \in {"search", "done"} /\ case.load = "yes" /\ lost = "no" =>
         rows = Numbered(Cut(Stream, Len(Stream)), case.cap)

\* The rows of the files before the iterator's, and those it has read of its own.
RowsUpTo(place) ==
  {r \in CorpusRows : r[1] < place.file \/ (r[1] = place.file /\ r[2] <= place.row)}

\* What a vector load sends is rows of the corpus without ids of their own.
Sent == [item : CorpusRows, id : {0}]

InOrderUpTo(place) ==
  /\ {rows[n].item : n \in DOMAIN rows} = RowsUpTo(place)
  /\ \A i, j \in DOMAIN rows : i < j => Before(rows[i].item, rows[j].item)

VectorInv ==
  Vector =>
    /\ phase \notin {"load_ir", "materialise", "filter"}
    /\ at.file \in 1 .. LastFile /\ at.row \in 0 .. RowsOf(at.file)
    /\ phase \in {"resolve_k", "init_db", "read", "download"} => at = [file |-> 1, row |-> 0]
    /\ case.load = "yes" /\ phase \in {"read", "download", "load", "search"} =>
         old = "dropped" /\ rows \in Seq(Sent)
    /\ case.load = "yes" /\ phase \in {"read", "download"} => rows = <<>>
    /\ case.load = "yes" /\ phase \in {"load", "search"} => InOrderUpTo(at)
    /\ case.load = "yes" /\ phase = "search" =>
         /\ at.row = RowsOf(at.file)
         /\ at.file = LastFile \/ RowsOf(at.file + 1) = 0

CaseTypeOK == case \in FtsCases \cup VectorCases /\ IsCase(case)

CaseInv == CaseTypeOK /\ TextInv /\ VectorInv

\* A case is never changed.
LEMMA CaseTypeStep ==
  ASSUME CaseTypeOK, [CaseNext]_caseVars
  PROVE  UNCHANGED case /\ CaseTypeOK' /\ (Vector' <=> Vector)
<1>1. UNCHANGED case
  BY DEF CaseNext, Step, Crash, Rerun, AllOver, caseVars, LoadIr, Materialise, ApplyFilter,
         ResolveK, InitDb, ListDownloads, Download, DownloadFails, Validate, LoadDocuments, ReadNext, Search
<1> QED
  BY <1>1 DEF CaseTypeOK, IsCase, Vector

-------------------------------------------------------------------------------
(* Vector cases: every row, in order.                                         *)

\* The files of a vector case and their rows are within the bounds of the model.
LEMMA VectorTypes ==
  ASSUME CaseTypeOK, Vector
  PROVE  /\ case \in VectorCases /\ LastFile \in 1 .. NumFiles
         /\ \A f \in 1 .. LastFile : RowsOf(f) \in 0 .. MaxRows
         /\ MaxRows \in Nat /\ NumFiles \in Nat /\ BatchSize \in Nat \ {0}
<1>1. case \in VectorCases
  BY DEF CaseTypeOK, Vector, FtsCases
<1>2. MaxRows \in Nat /\ NumFiles \in Nat \ {0} /\ BatchSize \in Nat \ {0}
  BY DatasetAssumption
<1>3. LastFile \in 1 .. NumFiles
  BY <1>2 DEF LastFile
<1>4. case.rows \in [1 .. NumFiles -> 0 .. MaxRows]
  BY <1>1 DEF VectorCases
<1>5. \A f \in 1 .. LastFile : RowsOf(f) \in 0 .. MaxRows
  BY <1>2, <1>3, <1>4 DEF RowsOf
<1> QED
  BY <1>1, <1>2, <1>3, <1>5

\* A batch is the next rows of a file, at most as many as it has left.
LEMMA BatchRows ==
  ASSUME CaseTypeOK, Vector, NEW f \in 1 .. LastFile, NEW from \in 0 .. RowsOf(f)
  PROVE  /\ Batch(f, from) \in Seq(Sent) /\ Len(Batch(f, from)) \in 0 .. RowsOf(f) - from
         /\ \A n \in 1 .. Len(Batch(f, from)) : Batch(f, from)[n] = [item |-> <<f, from + n>>, id |-> 0]
<1> DEFINE upto == IF from + BatchSize < RowsOf(f) THEN from + BatchSize ELSE RowsOf(f)
           Row(n) == [item |-> <<f, from + n>>, id |-> 0]
<1>1. /\ RowsOf(f) \in 0 .. MaxRows /\ MaxRows \in Nat /\ BatchSize \in Nat
      /\ LastFile \in Nat /\ f \in Nat /\ from \in Nat
  BY VectorTypes
<1>2. upto - from \in 0 .. RowsOf(f) - from
  BY <1>1
<1>3. Batch(f, from) = [n \in 1 .. upto - from |-> Row(n)]
  BY DEF Batch
<1> HIDE DEF upto
<1>4. \A n \in 1 .. upto - from : Row(n) \in Sent
  <2> SUFFICES ASSUME NEW n \in 1 .. upto - from PROVE Row(n) \in Sent
    OBVIOUS
  <2>1. from + n \in 1 .. MaxRows /\ from + n <= RowsOf(f)
    BY <1>1, <1>2
  <2>2. <<f, from + n>> \in CorpusRows
    BY <2>1 DEF CorpusRows
  <2> QED
    BY <2>2 DEF Sent
<1>5. upto - from \in Nat
  BY <1>1, <1>2
<1> HIDE DEF Row
<1>6. Batch(f, from) \in Seq(Sent) /\ Len(Batch(f, from)) = upto - from
  BY <1>3, <1>4, <1>5
<1> QED
  BY <1>2, <1>3, <1>6 DEF Row

\* Appending the next batch of a file keeps the rows in order and without a gap.
LEMMA BatchInOrder ==
  ASSUME CaseTypeOK, Vector, rows \in Seq(Sent), NEW f \in 1 .. LastFile,
         NEW from \in 0 .. RowsOf(f), InOrderUpTo([file |-> f, row |-> from]), UNCHANGED case,
         rows' = rows \o Batch(f, from), at' = [file |-> f, row |-> from + Len(Batch(f, from))]
  PROVE  rows' \in Seq(Sent) /\ at'.row \in 0 .. RowsOf(f) /\ InOrderUpTo(at)'
<1> DEFINE L == Len(rows)
           M == Len(Batch(f, from))
           B == Batch(f, from)
           Row(n) == [item |-> <<f, from + n>>, id |-> 0]
<1>1. /\ RowsOf(f) \in Nat /\ RowsOf(f) <= MaxRows /\ MaxRows \in Nat
      /\ LastFile \in Nat /\ f \in Nat /\ from \in Nat
  BY VectorTypes
<1>2. B \in Seq(Sent) /\ M \in 0 .. RowsOf(f) - from /\ \A n \in 1 .. M : B[n] = Row(n)
  BY BatchRows
<1>3. M \in Nat /\ L \in Nat
  BY <1>1, <1>2
<1> HIDE DEF B, M
<1>4. rows' \in Seq(Sent) /\ Len(rows') = L + M
  BY <1>2, <1>3 DEF B, M
<1>5. /\ \A n \in 1 .. L : rows'[n] = rows[n]
      /\ \A n \in 1 .. M : rows'[L + n] = Row(n)
  <2>1. \A n \in 1 .. L : rows'[n] = rows[n]
    BY <1>2 DEF B
  <2>2. \A n \in 1 .. M : rows'[L + n] = B[n]
    BY <1>2, <1>3 DEF B, M
  <2> QED
    BY <1>2, <2>1, <2>2
<1>6. DOMAIN rows = 1 .. L /\ DOMAIN rows' = 1 .. L + M
  BY <1>4
<1>7. at'.row = from + M /\ at'.file = f /\ at'.row \in 0 .. RowsOf(f)
  BY <1>1, <1>2 DEF M
<1>8. CorpusRows' = CorpusRows
  BY DEF CorpusRows, LastFile, RowsOf
<1>9. \A n \in 1 .. L : /\ rows[n].item \in RowsUpTo([file |-> f, row |-> from])
                        /\ rows[n].item[1] \in Nat /\ rows[n].item[2] \in Nat
                        /\ rows[n].item[1] < f \/ (rows[n].item[1] = f /\ rows[n].item[2] <= from)
  <2>1. \A n \in 1 .. L : rows[n].item \in RowsUpTo([file |-> f, row |-> from])
    BY <1>6 DEF InOrderUpTo
  <2>2. \A r \in RowsUpTo([file |-> f, row |-> from]) :
          r[1] \in Nat /\ r[2] \in Nat /\ (r[1] < f \/ (r[1] = f /\ r[2] <= from))
    BY DEF RowsUpTo, CorpusRows
  <2> QED
    BY <2>1, <2>2
<1>10. \A n \in DOMAIN rows' :
         \/ n \in 1 .. L /\ rows'[n].item = rows[n].item
         \/ n - L \in 1 .. M /\ rows'[n].item = <<f, from + (n - L)>>
  <2> SUFFICES ASSUME NEW n \in 1 .. L + M, n \notin 1 .. L
               PROVE  n - L \in 1 .. M /\ rows'[n].item = <<f, from + (n - L)>>
    BY <1>5, <1>6
  <2>1. n - L \in 1 .. M /\ L + (n - L) = n
    BY <1>3
  <2>2. rows'[n] = Row(n - L)
    BY <1>5, <2>1
  <2> QED
    BY <2>1, <2>2
<1>11. {rows'[n].item : n \in DOMAIN rows'} = RowsUpTo(at)'
  <2>1. ASSUME NEW n \in DOMAIN rows' PROVE rows'[n].item \in RowsUpTo(at)'
    <3>1. CASE n \in 1 .. L /\ rows'[n].item = rows[n].item
      <4>1. rows[n].item \in CorpusRows
        BY <1>9, <3>1 DEF RowsUpTo
      <4>2. rows[n].item[1] < f \/ (rows[n].item[1] = f /\ rows[n].item[2] <= from + M)
        BY <1>1, <1>3, <1>9, <3>1
      <4> QED
        BY <1>7, <1>8, <3>1, <4>1, <4>2 DEF RowsUpTo
    <3>2. CASE n - L \in 1 .. M /\ rows'[n].item = <<f, from + (n - L)>>
      <4>1. from + (n - L) \in 1 .. MaxRows /\ from + (n - L) <= RowsOf(f) /\ from + (n - L) <= from + M
        <5>1. M \in Nat /\ from + M <= RowsOf(f)
          BY <1>1, <1>2
        <5>2. \A m \in 1 .. M : from + m \in 1 .. MaxRows /\ from + m <= RowsOf(f) /\ from + m <= from + M
          BY <1>1, <5>1
        <5> HIDE DEF L
        <5> QED
          BY <3>2, <5>2
      <4>2. <<f, from + (n - L)>> \in CorpusRows
        BY <4>1 DEF CorpusRows
      <4> QED
        BY <1>7, <1>8, <3>2, <4>1, <4>2 DEF RowsUpTo
    <3> QED
      BY <1>10, <3>1, <3>2
  <2>2. ASSUME NEW r \in RowsUpTo(at)' PROVE \E n \in DOMAIN rows' : rows'[n].item = r
    <3>1. r \in CorpusRows /\ (r[1] < f \/ (r[1] = f /\ r[2] <= from + M))
      BY <1>7, <1>8 DEF RowsUpTo
    <3>2. r[1] \in Nat /\ r[2] \in Nat /\ r = <<r[1], r[2]>>
      BY <3>1 DEF CorpusRows
    <3>3. CASE r[1] < f \/ (r[1] = f /\ r[2] <= from)
      <4>1. r \in RowsUpTo([file |-> f, row |-> from])
        BY <3>1, <3>3 DEF RowsUpTo
      <4>2. PICK n \in 1 .. L : rows[n].item = r
        BY <1>6, <4>1 DEF InOrderUpTo
      <4>3. n \in 1 .. L + M /\ rows'[n].item = r
        BY <1>3, <1>5, <4>2
      <4> QED
        BY <1>6, <4>3
    <3>4. CASE r[1] = f /\ from < r[2] /\ r[2] <= from + M
      <4> DEFINE n == r[2] - from
      <4>1. n \in 1 .. M /\ from + n = r[2]
        BY <1>1, <1>3, <3>2, <3>4
      <4>2. rows'[L + n] = Row(n)
        BY <1>5, <4>1
      <4>3. rows'[L + n].item = r
        BY <3>2, <3>4, <4>1, <4>2
      <4>4. L + n \in 1 .. L + M
        BY <1>3, <4>1
      <4> QED
        BY <1>6, <4>3, <4>4
    <3> QED
      BY <1>1, <3>1, <3>2, <3>3, <3>4
  <2> DEFINE there == RowsUpTo(at)'
  <2> HIDE DEF there
  <2>3. {rows'[n].item : n \in DOMAIN rows'} = there
    BY <2>1, <2>2 DEF there
  <2> QED
    BY <2>3 DEF there
<1>12. ASSUME NEW i \in DOMAIN rows', NEW j \in DOMAIN rows', i < j
       PROVE  Before(rows'[i].item, rows'[j].item)
  <2>1. i \in Nat /\ j \in Nat
    BY <1>3, <1>6
  <2>2. CASE j \in 1 .. L
    <3>1. i \in 1 .. L
      BY <1>3, <1>12, <2>1, <2>2
    <3>2. Before(rows[i].item, rows[j].item)
      BY <1>6, <1>12, <2>2, <3>1 DEF InOrderUpTo
    <3> QED
      BY <1>5, <2>2, <3>1, <3>2
  <2>3. CASE j \notin 1 .. L
    <3>1. j - L \in 1 .. M /\ rows'[j].item = <<f, from + (j - L)>>
      BY <1>10, <2>3
    <3>2. CASE i \in 1 .. L /\ rows'[i].item = rows[i].item
      <4>1. rows[i].item[1] < f \/ (rows[i].item[1] = f /\ rows[i].item[2] < from + (j - L))
        <5>1. from < from + (j - L)
          BY <1>1, <1>3, <3>1
        <5>2. \A x \in Nat : x <= from => x < from + (j - L)
          BY <1>1, <1>3, <2>1, <5>1
        <5> QED
          BY <1>9, <3>2, <5>2
      <4> QED
        BY <3>1, <3>2, <4>1 DEF Before
    <3>3. CASE i - L \in 1 .. M /\ rows'[i].item = <<f, from + (i - L)>>
      <4>1. from + (i - L) < from + (j - L)
        BY <1>1, <1>3, <1>12, <2>1
      <4> QED
        BY <3>1, <3>3, <4>1 DEF Before
    <3> QED
      BY <1>10, <3>2, <3>3
  <2> QED
    BY <2>2, <2>3
<1> QED
  BY <1>4, <1>7, <1>11, <1>12 DEF InOrderUpTo

\* A step that leaves the rows and the iterator of a vector case alone.
LEMMA VectorRest ==
  ASSUME CaseTypeOK, VectorInv, Vector, UNCHANGED <<case, at, old, rows>>,
         \/ phase' \in {"raised", "crashed", "done"}
         \/ UNCHANGED phase
         \/ phase = "resolve_k" /\ phase' = "init_db"
         \/ phase = "read" /\ phase' = "download"
         \/ phase = "download" /\ phase' \in {"load", "search"} /\ (phase' = "load" <=> case.load = "yes")
  PROVE  VectorInv'
<1>1. /\ CorpusRows' = CorpusRows /\ LastFile' = LastFile /\ \A f : RowsOf(f)' = RowsOf(f)
      /\ Sent' = Sent /\ RowsUpTo(at)' = RowsUpTo(at)
  BY DEF CorpusRows, LastFile, RowsOf, Sent, RowsUpTo
<1>2. InOrderUpTo(at)' <=> InOrderUpTo(at)
  BY <1>1 DEF InOrderUpTo
<1>3. phase = "download" /\ case.load = "yes" => InOrderUpTo(at)
  <2> SUFFICES ASSUME phase = "download", case.load = "yes" PROVE InOrderUpTo(at)
    OBVIOUS
  <2>1. rows = <<>> /\ at = [file |-> 1, row |-> 0]
    BY DEF VectorInv
  <2>2. RowsUpTo(at) = {}
    <3> SUFFICES ASSUME NEW r \in RowsUpTo(at) PROVE FALSE
      OBVIOUS
    <3>1. r \in CorpusRows /\ (r[1] < 1 \/ (r[1] = 1 /\ r[2] <= 0))
      BY <2>1 DEF RowsUpTo
    <3>2. r[1] \in 1 .. LastFile /\ r[2] \in 1 .. MaxRows
      BY <3>1 DEF CorpusRows
    <3> QED
      BY <3>1, <3>2, VectorTypes
  <2>3. DOMAIN rows = {}
    BY <2>1
  <2> QED
    BY <2>2, <2>3 DEF InOrderUpTo
<1> QED
  BY <1>1, <1>2, <1>3 DEF VectorInv, Vector

\* Reading on in a file keeps the order, or fails.
LEMMA VectorReadFrom ==
  ASSUME CaseTypeOK, VectorInv, Vector, phase = "load", UNCHANGED <<case, old>>,
         NEW f \in 1 .. LastFile, NEW from \in 0 .. RowsOf(f), ReadFrom(f, from),
         case.load = "yes" => InOrderUpTo([file |-> f, row |-> from])
  PROVE  VectorInv'
<1>1. CASE disk[f] # "whole"
  BY <1>1, VectorRest DEF ReadFrom, RaiseError
<1>2. CASE disk[f] = "whole"
  <2>1. /\ rows' = rows \o Batch(f, from) /\ UNCHANGED phase
        /\ at' = [file |-> f, row |-> from + Len(Batch(f, from))]
    BY <1>2 DEF ReadFrom
  <2>2. /\ CorpusRows' = CorpusRows /\ LastFile' = LastFile /\ \A g : RowsOf(g)' = RowsOf(g)
        /\ Sent' = Sent
    BY DEF CorpusRows, LastFile, RowsOf, Sent
  <2>3. at'.file \in 1 .. LastFile /\ at'.row \in 0 .. RowsOf(at'.file)
    <3>1. Len(Batch(f, from)) \in 0 .. RowsOf(f) - from /\ RowsOf(f) \in Nat
      BY BatchRows, VectorTypes
    <3>2. at'.file = f /\ at'.row = from + Len(Batch(f, from))
      BY <2>1
    <3> QED
      BY <3>1, <3>2
  <2>4. case.load = "yes" => rows' \in Seq(Sent) /\ InOrderUpTo(at)'
    BY <2>1, BatchInOrder DEF VectorInv
  <2> QED
    BY <2>1, <2>2, <2>3, <2>4 DEF VectorInv, Vector
<1> QED
  BY <1>1, <1>2

\* The end of one file is the beginning of the next.
LEMMA NextFileBegins ==
  ASSUME CaseTypeOK, Vector, at.file \in 1 .. LastFile, at.row = RowsOf(at.file),
         at.file # LastFile, InOrderUpTo(at)
  PROVE  InOrderUpTo([file |-> at.file + 1, row |-> 0])
<1>1. LastFile \in Nat /\ at.file \in Nat /\ MaxRows \in Nat
  BY VectorTypes
<1>2. ASSUME NEW r \in CorpusRows
      PROVE  r \in RowsUpTo(at) <=> r \in RowsUpTo([file |-> at.file + 1, row |-> 0])
  <2>1. r[1] \in Nat /\ r[2] \in 1 .. MaxRows /\ r[2] <= RowsOf(r[1])
    BY <1>1 DEF CorpusRows
  <2>2. r[1] = at.file => r[2] <= at.row
    BY <2>1
  <2>3. ~(r[2] <= 0)
    BY <1>1, <2>1
  <2>4. (r[1] < at.file \/ r[1] = at.file) <=> r[1] < at.file + 1
    BY <1>1, <2>1
  <2> QED
    BY <2>2, <2>3, <2>4 DEF RowsUpTo
<1>3. RowsUpTo(at) = RowsUpTo([file |-> at.file + 1, row |-> 0])
  BY <1>2 DEF RowsUpTo
<1> QED
  BY <1>3 DEF InOrderUpTo

\* So does every step of the iterator, over the end of a file too.
LEMMA VectorReadNext ==
  ASSUME CaseTypeOK, VectorInv, Vector, ReadNext
  PROVE  VectorInv'
<1>1. /\ phase = "load" /\ UNCHANGED <<case, old>> /\ at.file \in 1 .. LastFile
      /\ at.row \in 0 .. RowsOf(at.file) /\ LastFile \in Nat /\ at.file \in Nat
      /\ RowsOf(at.file) \in Nat
  <2>1. LastFile \in Nat /\ \A f \in 1 .. LastFile : RowsOf(f) \in Nat
    BY VectorTypes
  <2> QED
    BY <2>1 DEF ReadNext, VectorInv
<1>2. case.load = "yes" => InOrderUpTo(at)
  BY <1>1 DEF VectorInv
<1>3. CASE ReadFrom(at.file, at.row)
  <2>1. InOrderUpTo(at) => InOrderUpTo([file |-> at.file, row |-> at.row])
    BY DEF InOrderUpTo, RowsUpTo
  <2> QED
    BY <1>1, <1>2, <1>3, <2>1, VectorReadFrom
<1>4. CASE /\ at.row = RowsOf(at.file) /\ at.file # LastFile /\ ReadFrom(at.file + 1, 0)
  <2>1. at.file + 1 \in 1 .. LastFile
    BY <1>1, <1>4
  <2>2. 0 \in 0 .. RowsOf(at.file + 1)
    BY <2>1, VectorTypes
  <2>3. case.load = "yes" => InOrderUpTo([file |-> at.file + 1, row |-> 0])
    BY <1>1, <1>2, <1>4, NextFileBegins
  <2> QED
    BY <1>1, <1>4, <2>1, <2>2, <2>3, VectorReadFrom
<1>5. CASE /\ at.row = RowsOf(at.file) /\ Stop
           /\ at.file = LastFile \/ RowsOf(at.file + 1) = 0
  <2>1. /\ CorpusRows' = CorpusRows /\ LastFile' = LastFile /\ \A f : RowsOf(f)' = RowsOf(f)
        /\ Sent' = Sent /\ at' = at /\ rows' = rows /\ phase' = "search"
    BY <1>1, <1>5 DEF CorpusRows, LastFile, RowsOf, Sent, Stop
  <2>2. RowsUpTo(at)' = RowsUpTo(at)
    BY <2>1 DEF RowsUpTo
  <2>3. InOrderUpTo(at)' <=> InOrderUpTo(at)
    BY <2>1, <2>2 DEF InOrderUpTo
  <2> QED
    BY <1>1, <1>2, <1>5, <2>1, <2>3 DEF VectorInv, Vector
<1>6. \/ ReadFrom(at.file, at.row)
      \/ /\ at.row = RowsOf(at.file) /\ at.file # LastFile /\ ReadFrom(at.file + 1, 0)
      \/ /\ at.row = RowsOf(at.file) /\ Stop
         /\ at.file = LastFile \/ RowsOf(at.file + 1) = 0
  <2>1. ~(at.row < RowsOf(at.file)) => at.row = RowsOf(at.file)
    BY <1>1
  <2> QED
    BY <2>1 DEF ReadNext
<1> QED
  BY <1>3, <1>4, <1>5, <1>6

\* Every step of a vector case keeps the order of its rows.
LEMMA VectorStep ==
  ASSUME CaseTypeOK, VectorInv, [CaseNext]_caseVars
  PROVE  VectorInv'
<1> SUFFICES ASSUME Vector PROVE VectorInv'
  BY CaseTypeStep DEF VectorInv
<1> USE DEF VectorInv
<1>1. CASE LoadIr \/ Materialise \/ ApplyFilter
  BY <1>1 DEF LoadIr, Materialise, ApplyFilter
<1>2. CASE ResolveK
  BY <1>2, VectorRest DEF ResolveK, RaiseError, memory
<1>3. CASE InitDb
  <2>1. /\ phase = "init_db" /\ UNCHANGED <<case, at>> /\ phase' = "read"
        /\ case.load = "yes" => old' = "dropped" /\ rows' = <<>>
    BY <1>3 DEF InitDb, memory
  <2>2. LastFile' = LastFile /\ RowsOf(1)' = RowsOf(1) /\ Sent' = Sent
    BY <2>1 DEF LastFile, RowsOf, Sent, CorpusRows
  <2>3. case.load = "yes" => rows' \in Seq(Sent) /\ old' = "dropped" /\ rows' = <<>>
    BY <2>1
  <2>4. at' = [file |-> 1, row |-> 0] /\ at'.file = 1 /\ at'.row = 0
    BY <2>1
  <2>5. 1 \in 1 .. LastFile /\ 0 \in 0 .. RowsOf(1)
    BY VectorTypes
  <2> QED
    BY <2>1, <2>2, <2>3, <2>4, <2>5 DEF Vector
<1>4. CASE ListDownloads
  BY <1>4, VectorRest DEF ListDownloads
<1>5. CASE \E f \in Files : Download(f) \/ DownloadFails(f)
  BY <1>5, VectorRest DEF Download, DownloadFails, RaiseError, memory
<1>6. CASE Validate
  BY <1>6, VectorRest DEF Validate, RaiseError, memory
<1>7. CASE LoadDocuments
  BY <1>7 DEF LoadDocuments
<1>8. CASE ReadNext
  BY <1>8, VectorReadNext
<1>9. CASE Search
  BY <1>9, VectorRest DEF Search, RaiseError, memory
<1>10. CASE Crash
  BY <1>10, VectorRest DEF Crash, memory
<1>11. CASE Rerun
  <2>1. /\ UNCHANGED case /\ at' = [file |-> 1, row |-> 0] /\ phase' = "resolve_k"
    BY <1>11 DEF Rerun, Start, Vector
  <2>2. LastFile' = LastFile /\ RowsOf(1)' = RowsOf(1)
    BY <2>1 DEF LastFile, RowsOf
  <2>3. at'.file = 1 /\ at'.row = 0 /\ 1 \in 1 .. LastFile /\ 0 \in 0 .. RowsOf(1)
    BY <2>1, VectorTypes
  <2> QED
    BY <2>1, <2>2, <2>3 DEF Vector
<1>12. CASE UNCHANGED caseVars
  BY <1>12, VectorRest DEF caseVars, memory
<1> QED
  BY <1>1, <1>2, <1>3, <1>4, <1>5, <1>6, <1>7, <1>8, <1>9, <1>10, <1>11, <1>12
     DEF CaseNext, Step, AllOver

\* At the end of a load the rows up to the iterator's place are all of them.
LEMMA EndOfTheCorpus ==
  ASSUME CaseTypeOK, VectorInv PROVE WholeCorpusSent
<1> SUFFICES ASSUME Vector, phase = "search", case.load = "yes",
                    \A f \in 2 .. LastFile : RowsOf(f) > 0
             PROVE  /\ Range(Items) = CorpusRows
                    /\ \A i, j \in DOMAIN Items : i < j => Before(Items[i], Items[j])
                    /\ old = "dropped"
  BY DEF WholeCorpusSent
<1>1. /\ old = "dropped" /\ InOrderUpTo(at) /\ at.file \in 1 .. LastFile
      /\ at.row = RowsOf(at.file) /\ (at.file = LastFile \/ RowsOf(at.file + 1) = 0)
  BY DEF VectorInv
<1>2. LastFile \in Nat /\ MaxRows \in Nat /\ at.file \in Nat
  BY <1>1, VectorTypes
<1>3. at.file = LastFile
  <2> SUFFICES ASSUME at.file # LastFile PROVE FALSE
    OBVIOUS
  <2>1. at.file + 1 \in 2 .. LastFile
    BY <1>1, <1>2
  <2> QED
    BY <1>1, <2>1
<1>4. RowsUpTo(at) = CorpusRows
  <2> SUFFICES ASSUME NEW r \in CorpusRows PROVE r \in RowsUpTo(at)
    BY DEF RowsUpTo
  <2>1. r[1] \in 1 .. LastFile /\ r[2] <= RowsOf(r[1])
    BY DEF CorpusRows
  <2>2. r[1] < at.file \/ (r[1] = at.file /\ r[2] <= at.row)
    BY <1>1, <1>2, <1>3, <2>1
  <2> QED
    BY <2>2 DEF RowsUpTo
<1>5. DOMAIN Items = DOMAIN rows /\ \A n \in DOMAIN rows : Items[n] = rows[n].item
  BY DEF Items
<1>6. Range(Items) = {rows[n].item : n \in DOMAIN rows}
  BY <1>5 DEF Range
<1> QED
  BY <1>1, <1>4, <1>5, <1>6 DEF InOrderUpTo

-------------------------------------------------------------------------------
(* The filter ids are a permutation: Euclid without induction.                *)

\* A set of numbers that is not empty has a least one.
LEMMA LeastNumber ==
  ASSUME NEW numbers \in SUBSET Nat, numbers # {}
  PROVE  \E least \in numbers : \A n \in numbers : least <= n
<1>1. OpToRel(<, Nat) = {p \in Nat \X Nat : p[1] < p[2]}
  BY DEF OpToRel
<1>2. PICK least \in numbers : \A n \in numbers : <<n, least>> \notin OpToRel(<, Nat)
  BY NatLessThanWellFounded, WFMin
<1>3. ASSUME NEW n \in numbers PROVE least <= n
  <2>1. <<n, least>> \notin {p \in Nat \X Nat : p[1] < p[2]}
    BY <1>1, <1>2
  <2> QED
    BY <2>1
<1> QED
  BY <1>3

\* Division with remainder.
LEMMA Remainder ==
  ASSUME NEW a \in Nat, NEW b \in Nat \ {0}
  PROVE  /\ a % b \in 0 .. b - 1
         /\ a \div b \in Nat
         /\ a = b * (a \div b) + (a % b)
OBVIOUS

\* What is below b and a multiple of b apart from a multiple of it, is the remainder.
LEMMA MultipleBelow ==
  ASSUME NEW b \in Nat \ {0}, NEW t \in Int, b * t < b, b * t > -b
  PROVE  t = 0
<1>1. CASE t >= 1
  <2>1. b * t >= b * 1
    BY <1>1
  <2> QED
    BY <2>1
<1>2. CASE t <= -1
  <2>1. b * t <= b * (-1)
    BY <1>2
  <2> QED
    BY <2>1
<1> QED
  BY <1>1, <1>2

\* A multiple leaves no remainder.
LEMMA MultipleHasNoRemainder ==
  ASSUME NEW b \in Nat \ {0}, NEW t \in Nat
  PROVE  (b * t) % b = 0
<1> DEFINE q == (b * t) \div b
           r == (b * t) % b
<1>1. b * t \in Nat
  OBVIOUS
<1>2. r \in 0 .. b - 1 /\ q \in Nat /\ b * t = b * q + r
  BY <1>1, Remainder
<1> HIDE DEF q, r
<1>3. b * (t - q) = b * t - b * q
  BY <1>2
<1>4. b * (t - q) = r
  BY <1>1, <1>2, <1>3
<1>5. t - q = 0
  BY <1>2, <1>4, MultipleBelow
<1>6. r = 0
  BY <1>2, <1>4, <1>5
<1> QED
  BY <1>6 DEF r

\* The least multiplier of k for which m * k is a multiple of a size that m is coprime with is
\* the size itself: Euclid's lemma, for the affine permutation.
LEMMA CoprimeMultiples ==
  ASSUME NEW size \in Nat \ {0}, NEW m \in Nat \ {0}, Coprime(m, size),
         NEW k \in Nat \ {0}, NEW t \in Nat, m * k = size * t
  PROVE  size <= k
<1> DEFINE multiples == {n \in Nat \ {0} : \E u \in Nat : m * n = size * u}
<1>1. k \in multiples /\ size \in multiples
  OBVIOUS
<1>2. PICK least \in multiples : \A n \in multiples : least <= n
  <2>1. multiples \in SUBSET Nat /\ multiples # {}
    BY <1>1
  <2> HIDE DEF multiples
  <2> QED
    BY <2>1, LeastNumber
<1>3. PICK u \in Nat : m * least = size * u
  BY <1>2
<1>4. size % least = 0
  <2> DEFINE q == size \div least
             r == size % least
  <2>1. q \in Nat /\ r \in 0 .. least - 1 /\ size = least * q + r
    BY <1>2, Remainder
  <2> HIDE DEF q, r
  <2>2. r = size - least * q
    BY <1>2, <2>1
  <2>3. m * r = m * size - m * (least * q)
    BY <1>2, <2>1, <2>2
  <2>4. m * (least * q) = (m * least) * q
    BY <1>2, <2>1
  <2>5. (m * least) * q = size * (u * q)
    BY <1>3, <2>1
  <2>6. m * r = size * (m - u * q)
    BY <1>2, <1>3, <2>1, <2>3, <2>4, <2>5
  <2>7. CASE r # 0
    <3>1. m * r >= 0
      BY <2>1
    <3>2. m - u * q \in Int /\ ~(m - u * q < 0)
      <4>1. SUFFICES ASSUME m - u * q < 0 PROVE FALSE
        BY <2>1
      <4>2. \A x \in Int : x < 0 => size * x < 0
        <5>1. SUFFICES ASSUME NEW x \in Int, x <= -1 PROVE size * x < 0
          OBVIOUS
        <5>2. size * x <= size * (-1)
          BY <5>1
        <5> QED
          BY <5>2
      <4> QED
        BY <2>1, <3>1, <2>6, <4>1, <4>2
    <3>3. m - u * q \in Nat
      BY <3>2
    <3>4. r \in multiples
      BY <2>1, <2>6, <2>7, <3>3
    <3> QED
      BY <1>2, <2>1, <3>4
  <2> QED
    BY <2>7 DEF r
<1>5. CASE least = size
  BY <1>1, <1>2, <1>5
<1>6. CASE least # size
  <2> DEFINE d == size \div least
  <2>1. d \in Nat /\ size = least * d
    <3>1. d \in Nat /\ size = least * d + (size % least)
      BY <1>2, Remainder
    <3> HIDE DEF d
    <3> QED
      BY <1>2, <1>4, <3>1
  <2> HIDE DEF d
  <2>2. d \in 2 .. size
    <3>1. d # 0 /\ d # 1
      BY <1>2, <1>6, <2>1
    <3>2. d <= least * d
      BY <1>2, <2>1
    <3> QED
      BY <2>1, <3>1, <3>2
  <2>3. size % d = 0
    <3>1. size = d * least
      BY <1>2, <2>1
    <3> QED
      BY <1>2, <2>1, <2>2, <3>1, MultipleHasNoRemainder
  <2>4. m = d * u
    <3>1. m * least = (d * u) * least
      BY <1>2, <1>3, <2>1
    <3>2. (m - d * u) * least = 0
      BY <1>2, <2>1, <3>1
    <3> QED
      BY <1>2, <2>1, <3>2
  <2>5. m % d = 0
    BY <2>1, <2>2, <2>4, MultipleHasNoRemainder
  <2> QED
    BY <2>2, <2>3, <2>5 DEF Coprime
<1> QED
  BY <1>5, <1>6

\* The multiplier has no divisor in common with the size, whatever part of the size the
\* search for it begins at.
LEMMA MultiplierIsCoprime ==
  ASSUME NEW size \in Nat \ {0}
  PROVE  Multiplier(size) \in Nat \ {0} /\ Coprime(Multiplier(size), size)
<1>1. CASE size = 1
  BY <1>1 DEF Multiplier, Coprime
<1>2. CASE size # 1
  <2> DEFINE first == IF GoldenPart(size) > 1 THEN GoldenPart(size) ELSE 1
             From(least) == {m \in least .. size - 1 : Coprime(m, size)}
             allowed == IF From(first) # {} THEN From(first) ELSE From(1)
  <2>1. first \in Nat \ {0}
    BY DEF GoldenPart
  <2>2. 1 \in From(1)
    BY <1>2 DEF Coprime
  <2>3. allowed # {} /\ allowed \subseteq {m \in Nat \ {0} : Coprime(m, size)}
    <3>1. From(1) # {}
      BY <2>2
    <3>2. From(1) \subseteq {m \in Nat \ {0} : Coprime(m, size)}
      OBVIOUS
    <3>3. From(first) \subseteq {m \in Nat \ {0} : Coprime(m, size)}
      <4> HIDE DEF first
      <4> QED
        BY <2>1
    <3> QED
      BY <3>1, <3>2, <3>3
  <2>4. \E m \in allowed : \A n \in allowed : m <= n
    <3> HIDE DEF allowed
    <3> QED
      BY <2>3, LeastNumber
  <2>5. Multiplier(size) = CHOOSE m \in allowed : \A n \in allowed : m <= n
    BY <1>2 DEF Multiplier
  <2>6. Multiplier(size) \in allowed
    <3> HIDE DEF allowed
    <3> QED
      BY <2>4, <2>5
  <2> QED
    BY <2>3, <2>6
<1> QED
  BY <1>1, <1>2

\* The offset of the permutation is a number.
LEMMA OffsetType ==
  ASSUME NEW size \in Nat \ {0}
  PROVE  Offset(size) \in Nat
<1> DEFINE Append16(rest, part) == (rest * 65536 + part) % size
<1>1. \A rest, part \in Nat : Append16(rest, part) \in Nat
  <2>1. \A rest, part \in Nat : rest * 65536 + part \in Nat
    OBVIOUS
  <2> QED
    BY <2>1, Remainder
<1> DEFINE one == 53685 % size
           two == Append16(one, 18994)
           three == Append16(two, 53650)
           four == Append16(three, 60675)
<1>2. one \in Nat
  BY Remainder
<1>3. two \in Nat
  <2> HIDE DEF one, Append16
  <2> QED
    BY <1>1, <1>2
<1>4. three \in Nat
  <2> HIDE DEF two, Append16
  <2> QED
    BY <1>1, <1>3
<1>5. four \in Nat
  <2> HIDE DEF three, Append16
  <2> QED
    BY <1>1, <1>4
<1> QED
  BY <1>5 DEF Offset

\* Two documents of a corpus have different filter ids.
LEMMA FilterIdsDiffer ==
  ASSUME NEW size \in Nat \ {0}, NEW a \in 0 .. size - 1, NEW b \in 0 .. size - 1, a < b
  PROVE  FilterId(size, a) # FilterId(size, b)
<1> DEFINE m == Multiplier(size)
           o == Offset(size)
           qa == (m * a + o) \div size
           qb == (m * b + o) \div size
<1>1. m \in Nat \ {0} /\ Coprime(m, size) /\ o \in Nat
  BY MultiplierIsCoprime, OffsetType
<1> HIDE DEF m, o
<1>2. m * a \in Nat /\ m * b \in Nat
  BY <1>1
<1>3. m * a + o \in Nat /\ m * b + o \in Nat
  BY <1>1, <1>2
<1>4. /\ qa \in Nat /\ m * a + o = size * qa + ((m * a + o) % size)
      /\ qb \in Nat /\ m * b + o = size * qb + ((m * b + o) % size)
      /\ (m * a + o) % size \in Nat /\ (m * b + o) % size \in Nat
  <2>1. \A x \in Nat : /\ x \div size \in Nat /\ x % size \in Nat
                       /\ x = size * (x \div size) + (x % size)
    BY Remainder
  <2> QED
    BY <1>3, <2>1
<1> HIDE DEF qa, qb
<1>5. SUFFICES ASSUME (m * a + o) % size = (m * b + o) % size PROVE FALSE
  BY DEF FilterId, m, o
<1>6. m * b - m * a = size * qb - size * qa
  BY <1>1, <1>2, <1>4, <1>5
<1>7. m * (b - a) = size * (qb - qa)
  BY <1>1, <1>4, <1>6
<1>8. b - a \in Nat \ {0} /\ b - a < size
  OBVIOUS
<1>9. qb - qa \in Nat
  <2>1. SUFFICES ASSUME qb - qa < 0 PROVE FALSE
    BY <1>4
  <2>2. \A x \in Int : x < 0 => size * x < 0
    <3>1. SUFFICES ASSUME NEW x \in Int, x <= -1 PROVE size * x < 0
      OBVIOUS
    <3>2. size * x <= size * (-1)
      BY <3>1
    <3> QED
      BY <3>2
  <2>3. m * (b - a) >= 0
    BY <1>1, <1>8
  <2> QED
    BY <1>4, <1>7, <2>1, <2>2, <2>3
<1> QED
  <2>1. \A k \in Nat \ {0}, t \in Nat : m * k = size * t => size <= k
    BY <1>1, CoprimeMultiples
  <2>2. ~(size <= b - a)
    BY <1>8
  <2> QED
    BY <1>7, <1>8, <1>9, <2>1, <2>2

\* The filter ids of a corpus of any size are the numbers below it, each given once.
THEOREM FilterIdsPermute ==
  ASSUME NEW size \in Nat \ {0}
  PROVE  /\ {FilterId(size, n) : n \in 0 .. size - 1} = 0 .. size - 1
         /\ \A a, b \in 0 .. size - 1 : FilterId(size, a) = FilterId(size, b) => a = b
<1> DEFINE ordinals == 0 .. size - 1
           f == [n \in ordinals |-> FilterId(size, n)]
<1>1. \A n \in ordinals : FilterId(size, n) \in ordinals
  <2> SUFFICES ASSUME NEW n \in ordinals PROVE FilterId(size, n) \in ordinals
    OBVIOUS
  <2>1. Multiplier(size) \in Nat /\ Offset(size) \in Nat
    BY MultiplierIsCoprime, OffsetType
  <2>2. Multiplier(size) * n \in Nat
    BY <2>1
  <2>3. Multiplier(size) * n + Offset(size) \in Nat
    BY <2>1, <2>2
  <2> QED
    BY <2>3, Remainder DEF FilterId
<1>2. \A a, b \in ordinals : FilterId(size, a) = FilterId(size, b) => a = b
  <2> SUFFICES ASSUME NEW a \in ordinals, NEW b \in ordinals, a # b
               PROVE  FilterId(size, a) # FilterId(size, b)
    OBVIOUS
  <2>1. a < b \/ b < a
    OBVIOUS
  <2> QED
    BY <2>1, FilterIdsDiffer
<1>3. IsFiniteSet(ordinals)
  BY FS_Interval
<1>4. f \in Injection(ordinals, ordinals)
  <2>1. f \in [ordinals -> ordinals]
    BY <1>1
  <2>2. \A a, b \in ordinals : f[a] = f[b] => a = b
    BY <1>2
  <2> HIDE DEF f, ordinals
  <2> QED
    BY <2>1, <2>2 DEF Injection, IsInjective
<1>5. f \in Surjection(ordinals, ordinals)
  <2> HIDE DEF f, ordinals
  <2> QED
    BY <1>3, <1>4, FS_Injection
<1>6. \A i \in ordinals : \E n \in ordinals : f[n] = i
  <2> HIDE DEF f, ordinals
  <2> QED
    BY <1>5 DEF Surjection
<1> QED
  BY <1>1, <1>2, <1>6

-------------------------------------------------------------------------------
(* The documents of a capped corpus.                                          *)

\* The corpus has finitely many documents.
LEMMA DocsAreFinite ==
  /\ NumDocs \in Nat \ {0} /\ IsFiniteSet(Docs) /\ Cardinality(Docs) = NumDocs
  /\ \A some \in SUBSET Docs : IsFiniteSet(some) /\ Cardinality(some) \in Nat
<1>1. NumDocs \in Nat \ {0}
  BY DatasetAssumption
<1>2. IsFiniteSet(Docs) /\ Cardinality(Docs) = NumDocs
  BY <1>1, FS_Interval DEF Docs
<1> QED
  BY <1>1, <1>2, FS_Subset, FS_CardinalityType

UpTo(some, d) == {e \in some : e <= d}

\* A document further on has a greater place.
LEMMA PlacesGrow ==
  ASSUME NEW some \in SUBSET Docs, NEW c \in some, NEW d \in some, c < d
  PROVE  Cardinality(UpTo(some, c)) < Cardinality(UpTo(some, d))
<1>1. /\ some \subseteq Nat /\ UpTo(some, c) \in SUBSET Docs /\ UpTo(some, d) \in SUBSET Docs
  <2>1. some \subseteq Nat
    BY DEF Docs
  <2> QED
    BY <2>1 DEF UpTo
<1>2. /\ IsFiniteSet(UpTo(some, c)) /\ Cardinality(UpTo(some, c)) \in Nat
      /\ IsFiniteSet(UpTo(some, d)) /\ Cardinality(UpTo(some, d)) \in Nat
  BY <1>1, DocsAreFinite
<1>3. UpTo(some, c) \cup {d} \in SUBSET UpTo(some, d) /\ d \notin UpTo(some, c)
  <2>1. c \in Nat /\ d \in Nat
    BY <1>1
  <2>2. \A e \in some : e <= c => e <= d
    BY <1>1, <2>1
  <2>3. d <= d /\ ~(d <= c)
    BY <2>1
  <2> QED
    BY <2>2, <2>3 DEF UpTo
<1>4. Cardinality(UpTo(some, c) \cup {d}) = Cardinality(UpTo(some, c)) + 1
  BY <1>2, <1>3, FS_AddElement
<1>5. Cardinality(UpTo(some, c) \cup {d}) <= Cardinality(UpTo(some, d))
  BY <1>2, <1>3, FS_Subset
<1> QED
  BY <1>2, <1>4, <1>5

\* The places of documents, counted from the first, are the numbers up to how many there are.
LEMMA PlacesOfDocuments ==
  ASSUME NEW some \in SUBSET Docs
  PROVE  /\ \A d \in some : Cardinality(UpTo(some, d)) \in 1 .. Cardinality(some)
         /\ \A n \in 1 .. Cardinality(some) : \E d \in some : Cardinality(UpTo(some, d)) = n
<1> DEFINE place == [d \in some |-> Cardinality(UpTo(some, d))]
           places == 1 .. Cardinality(some)
<1>1. /\ some \subseteq Nat /\ IsFiniteSet(some) /\ Cardinality(some) \in Nat
      /\ \A d \in some : /\ UpTo(some, d) \in SUBSET some /\ IsFiniteSet(UpTo(some, d))
                         /\ Cardinality(UpTo(some, d)) \in Nat
  <2>1. \A d \in some : UpTo(some, d) \in SUBSET some
    BY DEF UpTo
  <2>2. some \subseteq Nat
    BY DEF Docs
  <2> QED
    BY <2>1, <2>2, DocsAreFinite, FS_Subset
<1>2. \A d \in some : Cardinality(UpTo(some, d)) \in places
  <2> SUFFICES ASSUME NEW d \in some PROVE Cardinality(UpTo(some, d)) \in places
    OBVIOUS
  <2>1. Cardinality(UpTo(some, d)) <= Cardinality(some)
    BY <1>1, FS_Subset
  <2>2. d \in UpTo(some, d)
    BY <1>1 DEF UpTo
  <2>3. Cardinality(UpTo(some, d)) # 0
    BY <1>1, <2>2, FS_EmptySet
  <2> QED
    BY <1>1, <2>1, <2>3
<1>3. \A c, d \in some : c < d => Cardinality(UpTo(some, c)) < Cardinality(UpTo(some, d))
  BY PlacesGrow
<1>4. place \in Injection(some, places)
  <2>1. place \in [some -> places]
    BY <1>2
  <2>2. \A c, d \in some : place[c] = place[d] => c = d
    <3> SUFFICES ASSUME NEW c \in some, NEW d \in some, c # d PROVE place[c] # place[d]
      OBVIOUS
    <3>1. c < d \/ d < c
      BY <1>1
    <3> QED
      BY <1>1, <1>3, <3>1
  <2> HIDE DEF place, places
  <2> QED
    BY <2>1, <2>2 DEF Injection, IsInjective
<1>5. IsFiniteSet(places) /\ Cardinality(places) = Cardinality(some)
  BY <1>1, FS_Interval
<1>6. place \in Surjection(some, places)
  <2> HIDE DEF place, places
  <2> QED
    BY <1>4, <1>5, FS_Injection
<1>7. \A n \in places : \E d \in some : place[d] = n
  <2> HIDE DEF place, places
  <2> QED
    BY <1>6 DEF Surjection
<1> QED
  BY <1>2, <1>7

\* What is written down of a capped corpus are the documents that are kept, each once.
LEMMA MaterialisedKeeps ==
  ASSUME NEW required, NEW cap \in Docs
  PROVE  LET keeps == Kept(required, cap)
             written == Materialised(required, cap)
         IN  /\ keeps \in SUBSET Docs /\ Cardinality(keeps) \in Nat
             /\ written \in Seq(Docs) /\ Len(written) = Cardinality(keeps)
             /\ Range(written) = keeps
<1> DEFINE keeps == Kept(required, cap)
           written == Materialised(required, cap)
           At(n) == CHOOSE d \in keeps : Cardinality(UpTo(keeps, d)) = n
<1>1. keeps \in SUBSET Docs
  BY DEF Kept
<1>2. Cardinality(keeps) \in Nat
  BY <1>1, DocsAreFinite
<1>3. written = [n \in 1 .. Cardinality(keeps) |-> At(n)]
  BY DEF Materialised, UpTo
<1> HIDE DEF keeps, written
<1>4. \A n \in 1 .. Cardinality(keeps) : At(n) \in keeps /\ Cardinality(UpTo(keeps, At(n))) = n
  BY <1>1, PlacesOfDocuments
<1>5. written \in Seq(Docs) /\ Len(written) = Cardinality(keeps)
  <2>1. \A n \in 1 .. Cardinality(keeps) : At(n) \in Docs
    BY <1>1, <1>4
  <2> HIDE DEF At
  <2> QED
    BY <1>2, <1>3, <2>1
<1>6. ASSUME NEW d \in keeps PROVE \E n \in 1 .. Cardinality(keeps) : At(n) = d
  <2> DEFINE n == Cardinality(UpTo(keeps, d))
  <2>1. n \in 1 .. Cardinality(keeps)
    BY <1>1, PlacesOfDocuments
  <2>2. At(n) \in keeps /\ Cardinality(UpTo(keeps, At(n))) = n
    BY <1>4, <2>1
  <2> HIDE DEF At
  <2>3. At(n) \in Nat /\ d \in Nat
    <3>1. At(n) \in Docs /\ d \in Docs
      <4> HIDE DEF n
      <4> QED
        BY <1>1, <2>2
    <3>2. Docs \subseteq Nat
      BY DEF Docs
    <3> QED
      BY <3>1, <3>2
  <2>4. CASE At(n) < d
    <3>1. Cardinality(UpTo(keeps, At(n))) < Cardinality(UpTo(keeps, d))
      BY <1>1, <2>2, <2>4, PlacesGrow
    <3> QED
      BY <1>2, <2>1, <2>2, <3>1
  <2>5. CASE d < At(n)
    <3>1. Cardinality(UpTo(keeps, d)) < Cardinality(UpTo(keeps, At(n)))
      BY <1>1, <2>2, <2>5, PlacesGrow
    <3> QED
      BY <1>2, <2>1, <2>2, <3>1
  <2> QED
    BY <2>1, <2>3, <2>4, <2>5
<1>7. Range(written) = keeps
  <2>1. Range(written) = {At(n) : n \in 1 .. Cardinality(keeps)}
    BY <1>3 DEF Range
  <2> HIDE DEF At
  <2> QED
    BY <1>4, <1>6, <2>1
<1> QED
  BY <1>1, <1>2, <1>5, <1>7 DEF keeps, written

-------------------------------------------------------------------------------
(* Text cases: what recall is measured against.                               *)

\* What a text case may ask for.
LEMMA TextTypes ==
  ASSUME CaseTypeOK, ~Vector
  PROVE  /\ case.cap \in Docs /\ case.cap \in Nat /\ NumDocs \in Nat \ {0}
         /\ case.threshold \in {-1} \cup 0 .. NumDocs
         /\ case.qrels \in [Queries -> SUBSET (Docs \cup {Missing})]
         /\ case.threshold # -1 => case.cap = NumDocs
<1>1. case.corpus = "fts" /\ case \in FtsCases
  BY DEF CaseTypeOK, Vector, VectorCases
<1>2. case.threshold # -1 => case.cap = NumDocs
  BY <1>1 DEF CaseTypeOK, IsCase
<1>3. NumDocs \in Nat \ {0}
  BY DatasetAssumption
<1>4. case.cap \in Docs /\ case.threshold \in {-1} \cup 0 .. NumDocs
      /\ case.qrels \in [Queries -> SUBSET (Docs \cup {Missing})]
  BY <1>1 DEF FtsCases
<1>5. case.cap \in Nat
  BY <1>3, <1>4 DEF Docs
<1> QED
  BY <1>2, <1>3, <1>4, <1>5

\* What a pass sees before its end is what the corpus has there.
LEMMA CutType ==
  ASSUME NEW stream \in Seq(Docs), NEW upto \in 0 .. Len(stream)
  PROVE  /\ Cut(stream, upto) \in Seq(Docs) /\ Len(Cut(stream, upto)) = upto
         /\ \A n \in 1 .. upto : Cut(stream, upto)[n] = stream[n]
BY DEF Cut

\* The documents of a prepared case are as many as its size says, and each is one of the corpus.
LEMMA StreamOfSize ==
  ASSUME CaseTypeOK, ~Vector, Prepared
  PROVE  /\ Stream \in Seq(Docs) /\ Len(Stream) = case.cap
         /\ Cardinality(Range(Stream)) = case.cap
         /\ case.cap = NumDocs => Stream = Corpus
         /\ case.cap # NumDocs => Required(case.qrels) \subseteq Range(Stream)
<1>1. CASE case.cap = NumDocs
  <2>1. kept = <<>> /\ Stream = Corpus
    BY <1>1 DEF Prepared, Stream
  <2>2. Corpus \in Seq(Docs) /\ Len(Corpus) = NumDocs
    BY DocsAreFinite DEF Corpus, Docs
  <2>3. Range(Corpus) = Docs
    BY DEF Range, Corpus
  <2> QED
    BY <1>1, <2>1, <2>2, <2>3, DocsAreFinite
<1>2. CASE case.cap # NumDocs
  <2> DEFINE required == Required(case.qrels)
             keeps == Kept(required, case.cap)
  <2>1. /\ ~CapRefused(required, case.cap) /\ kept = Materialised(required, case.cap)
    BY <1>2 DEF Prepared
  <2>2. case.cap \in Docs /\ case.cap \in Nat \ {0}
    BY TextTypes DEF Docs
  <2>3. Cardinality(keeps) = case.cap /\ Missing \notin required
    BY <1>2, <2>1 DEF CapRefused
  <2>4. kept \in Seq(Docs) /\ Len(kept) = case.cap /\ Range(kept) = keeps
    BY <2>1, <2>2, <2>3, MaterialisedKeeps
  <2>5. kept # <<>>
    BY <2>2, <2>4
  <2>6. Stream = kept
    BY <2>5 DEF Stream
  <2>7. required \subseteq Docs
    <3>1. required \subseteq Docs \cup {Missing}
      BY TextTypes DEF Required, Range
    <3> QED
      BY <2>3, <3>1
  <2>8. required \subseteq keeps
    BY <2>7 DEF Kept
  <2> QED
    BY <1>2, <2>3, <2>4, <2>6, <2>8
<1> QED
  BY <1>1, <1>2

\* The rows of a pass over a whole stream.
LEMMA NumberedWhole ==
  ASSUME NEW stream \in Seq(Docs)
  PROVE  Numbered(Cut(stream, Len(stream)), Len(stream))
           = [n \in 1 .. Len(stream) |-> [item |-> stream[n], id |-> FilterId(Len(stream), n - 1)]]
<1> DEFINE size == Len(stream)
           cut == Cut(stream, size)
<1>1. size \in Nat
  OBVIOUS
<1>2. Len(cut) = size /\ \A n \in 1 .. size : cut[n] = stream[n]
  BY <1>1, CutType
<1> HIDE DEF cut
<1>3. Numbered(cut, size) = [n \in 1 .. size |-> [item |-> cut[n], id |-> FilterId(size, n - 1)]]
  BY <1>1, <1>2 DEF Numbered
<1> QED
  BY <1>2, <1>3 DEF cut

\* The ids the ground truth is filtered with are those the documents are loaded with.
LEMMA QrelIdsOfCorpus ==
  ASSUME NEW required, NEW upto \in 0 .. NumDocs
  PROVE  LET met == QrelIds(required, Cut(Corpus, upto), NumDocs)
         IN  /\ DOMAIN met \subseteq Docs
             /\ \A d \in DOMAIN met : met[d] = FilterId(NumDocs, d - 1)
<1> DEFINE stream == Cut(Corpus, upto)
           met == {n \in DOMAIN Numbered(stream, NumDocs) : stream[n] \in required}
           Place(d) == CHOOSE n \in met : stream[n] = d
<1>1. NumDocs \in Nat \ {0} /\ upto \in Nat /\ upto <= NumDocs
  BY DocsAreFinite
<1>2. Corpus \in Seq(Docs) /\ Len(Corpus) = NumDocs /\ \A n \in Docs : Corpus[n] = n
  BY <1>1 DEF Corpus, Docs
<1>3. Len(stream) = upto /\ \A n \in 1 .. upto : stream[n] = n
  <2>1. \A n \in 1 .. upto : n \in Docs
    BY <1>1 DEF Docs
  <2> QED
    BY <1>1, <1>2, <2>1, CutType
<1> HIDE DEF stream
<1>4. Numbered(stream, NumDocs)
        = [n \in 1 .. upto |-> [item |-> stream[n], id |-> FilterId(NumDocs, n - 1)]]
  <2>1. (IF Len(stream) < NumDocs THEN Len(stream) ELSE NumDocs) = upto
    BY <1>1, <1>3
  <2> QED
    BY <2>1 DEF Numbered
<1>5. met \subseteq 1 .. upto /\ \A n \in met : stream[n] = n
  BY <1>3, <1>4
<1>6. \A n \in met : Numbered(stream, NumDocs)[n].id = FilterId(NumDocs, n - 1)
  BY <1>4, <1>5
<1>7. QrelIds(required, stream, NumDocs)
        = [d \in {stream[n] : n \in met} |-> Numbered(stream, NumDocs)[Place(d)].id]
  BY DEF QrelIds
<1> HIDE DEF met
<1>8. \A d \in {stream[n] : n \in met} : d \in met /\ Place(d) = d
  <2> SUFFICES ASSUME NEW n \in met PROVE stream[n] = n /\ Place(n) = n
    BY <1>5
  <2>1. stream[n] = n /\ Place(n) \in met /\ stream[Place(n)] = n
    BY <1>5
  <2> QED
    BY <1>5, <2>1
<1>9. \A d \in met : d \in Docs
  BY <1>1, <1>5 DEF Docs
<1> HIDE DEF Place
<1> QED
  BY <1>6, <1>7, <1>8, <1>9 DEF stream

\* As many documents pass the threshold of a filter as the size leaves above it.
LEMMA PassingCount ==
  ASSUME NEW threshold \in 0 .. NumDocs
  PROVE  Cardinality({d \in Docs : FilterId(NumDocs, d - 1) >= threshold}) = NumDocs - threshold
<1> DEFINE passing == {d \in Docs : FilterId(NumDocs, d - 1) >= threshold}
           above == threshold .. NumDocs - 1
           f == [d \in passing |-> FilterId(NumDocs, d - 1)]
<1>1. NumDocs \in Nat \ {0} /\ threshold \in Nat /\ threshold <= NumDocs
  BY DocsAreFinite
<1>2. \A d \in Docs : d - 1 \in 0 .. NumDocs - 1
  BY <1>1 DEF Docs
<1>3. \A n \in 0 .. NumDocs - 1 : n + 1 \in Docs /\ (n + 1) - 1 = n
  BY <1>1 DEF Docs
<1>4. \A n \in 0 .. NumDocs - 1 : FilterId(NumDocs, n) \in 0 .. NumDocs - 1
  BY <1>1, FilterIdsPermute
<1>5. \A i \in 0 .. NumDocs - 1 : \E n \in 0 .. NumDocs - 1 : FilterId(NumDocs, n) = i
  <2>1. {FilterId(NumDocs, n) : n \in 0 .. NumDocs - 1} = 0 .. NumDocs - 1
    BY <1>1, FilterIdsPermute
  <2> QED
    BY <2>1
<1>6. f \in [passing -> above]
  <2> SUFFICES ASSUME NEW d \in passing PROVE FilterId(NumDocs, d - 1) \in above
    OBVIOUS
  <2>1. FilterId(NumDocs, d - 1) \in 0 .. NumDocs - 1 /\ FilterId(NumDocs, d - 1) >= threshold
    BY <1>2, <1>4
  <2> QED
    BY <1>1, <2>1
<1>7. \A c, d \in passing : f[c] = f[d] => c = d
  <2> SUFFICES ASSUME NEW c \in passing, NEW d \in passing, f[c] = f[d] PROVE c = d
    OBVIOUS
  <2>1. c - 1 = d - 1
    BY <1>1, <1>2, FilterIdsPermute
  <2>2. c \in Nat /\ d \in Nat
    BY <1>1 DEF Docs
  <2> QED
    BY <2>1, <2>2
<1>8. \A i \in above : \E d \in passing : f[d] = i
  <2> SUFFICES ASSUME NEW i \in above PROVE \E d \in passing : f[d] = i
    OBVIOUS
  <2>1. i \in 0 .. NumDocs - 1 /\ i >= threshold
    BY <1>1
  <2>2. PICK n \in 0 .. NumDocs - 1 : FilterId(NumDocs, n) = i
    BY <1>5, <2>1
  <2>3. n + 1 \in passing /\ (n + 1) - 1 = n
    BY <1>3, <2>1, <2>2
  <2>4. f[n + 1] = i
    BY <2>2, <2>3
  <2> QED
    BY <2>3, <2>4
<1>9. IsFiniteSet(passing) /\ Cardinality(above) = NumDocs - threshold
  <2>1. IsFiniteSet(passing)
    <3>1. passing \in SUBSET Docs
      OBVIOUS
    <3> HIDE DEF passing
    <3> QED
      BY <3>1, DocsAreFinite
  <2>2. Cardinality(above) = NumDocs - threshold
    <3>1. Cardinality(above) = IF threshold > NumDocs - 1 THEN 0 ELSE (NumDocs - 1) - threshold + 1
      BY <1>1, FS_Interval
    <3> HIDE DEF above
    <3> QED
      BY <1>1, <3>1
  <2> QED
    BY <2>1, <2>2
<1> HIDE DEF passing, above, f
<1>10. f \in Surjection(passing, above) /\ f \in Injection(passing, above)
  BY <1>6, <1>7, <1>8 DEF Surjection, Injection, IsInjective
<1>11. Cardinality(above) = Cardinality(passing)
  BY <1>9, <1>10, FS_Surjection
<1> QED
  BY <1>9, <1>11 DEF passing

\* A step of a text case after its preparation, which leaves what was prepared alone.
LEMMA TextRest ==
  ASSUME CaseTypeOK, TextInv, ~Vector, UNCHANGED <<case, ir, kept, ids, truth, rows, lost>>,
         \/ phase' \in {"raised", "crashed"}
         \/ UNCHANGED phase
         \/ phase = "search" /\ phase' = "done"
  PROVE  TextInv'
<1>1. /\ Stream' = Stream /\ (Prepared' <=> Prepared)
      /\ (FilteredInPass' <=> FilteredInPass)
  BY DEF Stream, Prepared, FilteredInPass
<1> QED
  BY <1>1 DEF TextInv, Vector

\* Each step of the preparation leaves what the next one needs.
LEMMA TextPrepares ==
  ASSUME CaseTypeOK, TextInv, ~Vector, LoadIr \/ Materialise \/ ApplyFilter
  PROVE  TextInv'
<1> USE DEF TextInv
<1>1. CASE LoadIr
  <2>1. /\ UNCHANGED <<case, kept>> /\ kept = <<>>
        /\ \/ phase' = "raised" /\ ir' \in {"none", "loaded"}
           \/ phase' = "materialise" /\ ir' = "queries"
           \/ phase' = "init_db" /\ ir' \in {"none", "loaded"}
    BY <1>1 DEF LoadIr, RaiseError, GiveUpPreparing
  <2> QED
    BY <2>1 DEF Vector
<1>2. CASE Materialise
  <2>1. /\ UNCHANGED <<case, ir>> /\ ir = "queries"
        /\ \/ phase' \in {"raised", "init_db"}
           \/ /\ phase' = "filter" /\ ~CapRefused(Required(case.qrels), case.cap)
              /\ kept' = IF case.cap = NumDocs THEN <<>>
                         ELSE Materialised(Required(case.qrels), case.cap)
    BY <1>2 DEF Materialise, RaiseError, GiveUpPreparing
  <2>2. phase' = "filter" => Prepared'
    BY <2>1 DEF Prepared
  <2> QED
    BY <2>1, <2>2 DEF Vector
<1>3. CASE ApplyFilter
  <2>1. /\ UNCHANGED <<case, kept>> /\ phase = "filter" /\ Prepared /\ ir = "queries"
    BY <1>3 DEF ApplyFilter
  <2>2. Prepared' /\ Stream' = Stream
    BY <2>1 DEF Prepared, Stream
  <2>3. \/ phase' = "raised" /\ ir' = "queries"
        \/ phase' = "init_db" /\ (case.threshold = -1 \/ FilteredInPass')
    <3>1. CASE case.threshold = -1
      BY <1>3, <3>1 DEF ApplyFilter
    <3>2. CASE case.threshold # -1
      <4>1. PICK upto \in 0 .. Len(Stream) :
              /\ ids' = QrelIds(Required(case.qrels), Cut(Stream, upto), case.cap)
              /\ IF Required(case.qrels) \subseteq DOMAIN ids'
                 THEN /\ phase' = "init_db" /\ truth' = Filtered(case.qrels, ids', case.threshold)
                      /\ ir' = IF DOMAIN truth' = {} THEN "skipped" ELSE "ready"
                 ELSE RaiseError /\ UNCHANGED <<truth, ir>>
        BY <1>3, <3>2 DEF ApplyFilter
      <4>2. CASE Required(case.qrels) \subseteq DOMAIN ids'
        <5>1. phase' = "init_db" /\ truth' = Filtered(case.qrels, ids', case.threshold)
          BY <4>1, <4>2
        <5>2. FilteredInPass'
          BY <2>1, <2>2, <4>1, <4>2, <5>1 DEF FilteredInPass
        <5> QED
          BY <5>1, <5>2
      <4>3. CASE ~(Required(case.qrels) \subseteq DOMAIN ids')
        BY <2>1, <4>1, <4>3 DEF RaiseError
      <4> QED
        BY <4>2, <4>3
    <3> QED
      BY <3>1, <3>2
  <2> QED
    BY <2>1, <2>2, <2>3 DEF Vector
<1> QED
  BY <1>1, <1>2, <1>3

\* Every step of a text case keeps what its preparation has promised.
LEMMA TextStep ==
  ASSUME CaseTypeOK, TextInv, [CaseNext]_caseVars
  PROVE  TextInv'
<1> SUFFICES ASSUME ~Vector PROVE TextInv'
  BY CaseTypeStep DEF TextInv
<1>1. CASE LoadIr \/ Materialise \/ ApplyFilter
  BY <1>1, TextPrepares
<1>2. CASE \/ ResolveK \/ ListDownloads \/ ReadNext
           \/ \E f \in Files : Download(f) \/ DownloadFails(f)
  BY <1>2 DEF ResolveK, ListDownloads, Download, DownloadFails, ReadNext, TextInv
<1>3. CASE Validate
  BY <1>3 DEF Validate, TextInv
<1>4. CASE InitDb
  <2>1. /\ UNCHANGED <<case, ir, kept, ids, truth, lost>> /\ phase = "init_db"
        /\ phase' = IF case.load = "yes" THEN "load" ELSE "search"
    BY <1>4 DEF InitDb, memory
  <2>2. /\ Stream' = Stream /\ (Prepared' <=> Prepared)
        /\ (FilteredInPass' <=> FilteredInPass)
    BY <2>1 DEF Stream, Prepared, FilteredInPass
  <2> QED
    BY <2>1, <2>2 DEF TextInv, Vector
<1>5. CASE LoadDocuments
  <2>1. /\ UNCHANGED <<case, ir, kept, ids, truth>> /\ phase = "load"
    BY <1>5 DEF LoadDocuments, memory
  <2>2. /\ Stream' = Stream /\ (Prepared' <=> Prepared)
        /\ (FilteredInPass' <=> FilteredInPass)
    BY <2>1 DEF Stream, Prepared, FilteredInPass
  <2>3. \/ phase' = "raised"
        \/ /\ phase' = "search"
           /\ lost' = "yes" \/ rows' = Numbered(Cut(Stream, Len(Stream)), case.cap)
    <3>1. CASE ir = "none"
      BY <1>5, <3>1 DEF LoadDocuments, RaiseError
    <3>2. CASE ir # "none"
      <4>1. PICK upto \in 0 .. Len(Stream) :
              /\ IF upto = Len(Stream) THEN UNCHANGED <<faults, lost>> ELSE Fault /\ lost' = "yes"
              /\ rows' = Numbered(Cut(Stream, upto), case.cap)
              /\ phase' = "search"
        BY <1>5, <3>2 DEF LoadDocuments
      <4> QED
        BY <4>1
    <3> QED
      BY <3>1, <3>2
  <2> QED
    BY <2>1, <2>2, <2>3 DEF TextInv, Vector
<1>6. CASE Search
  BY <1>6, TextRest DEF Search, RaiseError, memory
<1>7. CASE Crash
  BY <1>7, TextRest DEF Crash, memory
<1>8. CASE Rerun
  <2>1. UNCHANGED case /\ phase' = "load_ir" /\ ir' = "none" /\ kept' = <<>>
    BY <1>8 DEF Rerun, Start, Vector
  <2> QED
    BY <2>1 DEF TextInv, Vector
<1>9. CASE UNCHANGED caseVars
  BY <1>9, TextRest DEF caseVars, memory
<1> QED
  BY <1>1, <1>2, <1>3, <1>4, <1>5, <1>6, <1>7, <1>8, <1>9 DEF CaseNext, Step, AllOver

\* What is measured is fair as far as the documents go: those the qrels name are in the
\* database, which holds as many as the size of the case.
LEMMA QrelsAreHeld ==
  ASSUME CaseTypeOK, TextInv PROVE CorpusHoldsEveryQrel
<1> SUFFICES ASSUME RecallMeasured, lost = "no", case.cap # NumDocs \/ case.threshold # -1
             PROVE  /\ Required(case.qrels) \subseteq Range(Items)
                    /\ Cardinality(Range(Items)) = case.cap /\ Len(rows) = case.cap
  BY DEF CorpusHoldsEveryQrel
<1>1. ~Vector /\ Prepared /\ rows = Numbered(Cut(Stream, Len(Stream)), case.cap)
  BY DEF RecallMeasured, TextInv
<1>2. /\ Stream \in Seq(Docs) /\ Len(Stream) = case.cap
      /\ Cardinality(Range(Stream)) = case.cap
  BY <1>1, StreamOfSize
<1>3. rows = [n \in 1 .. case.cap |-> [item |-> Stream[n], id |-> FilterId(case.cap, n - 1)]]
  BY <1>1, <1>2, NumberedWhole
<1>4. case.cap \in Nat
  BY <1>1, TextTypes
<1>5. Len(rows) = case.cap /\ DOMAIN rows = 1 .. case.cap
  BY <1>3, <1>4
<1>6. Items = [n \in 1 .. case.cap |-> Stream[n]]
  BY <1>3, <1>5 DEF Items
<1>7. Range(Items) = Range(Stream)
  <2>1. DOMAIN Stream = 1 .. case.cap
    BY <1>2
  <2> QED
    BY <1>6, <2>1 DEF Range
<1>8. Required(case.qrels) \subseteq Range(Stream)
  <2>1. CASE case.cap # NumDocs
    BY <1>1, <2>1, StreamOfSize
  <2>2. CASE case.cap = NumDocs
    <3>1. FilteredInPass /\ Stream = Corpus
      BY <1>1, <2>2, StreamOfSize DEF RecallMeasured, TextInv
    <3>2. Len(Stream) = NumDocs
      BY <1>2, <2>2
    <3>3. Required(case.qrels) \subseteq Docs
      BY <2>2, <3>1, <3>2, QrelIdsOfCorpus DEF FilteredInPass
    <3>4. Range(Corpus) = Docs
      BY DEF Range, Corpus
    <3> QED
      BY <3>1, <3>3, <3>4
  <2> QED
    BY <2>1, <2>2
<1> QED
  BY <1>2, <1>5, <1>7, <1>8

\* And as far as the filter goes: the ground truth keeps what passes it in the database.
LEMMA TruthPassesFilter ==
  ASSUME CaseTypeOK, TextInv PROVE FilteredTruthIsFair
<1> DEFINE passing == {rows[n].item : n \in {m \in DOMAIN rows : rows[m].id >= case.threshold}}
           over == {d \in Docs : FilterId(NumDocs, d - 1) >= case.threshold}
<1> SUFFICES ASSUME RecallMeasured, lost = "no", case.threshold # -1
             PROVE  /\ Cardinality(passing) = case.cap - case.threshold
                    /\ DOMAIN truth = {q \in Queries : case.qrels[q] \cap passing # {}}
                    /\ \A q \in DOMAIN truth : truth[q] = case.qrels[q] \cap passing
  BY DEF FilteredTruthIsFair
<1>1. /\ ~Vector /\ Prepared /\ rows = Numbered(Cut(Stream, Len(Stream)), case.cap)
      /\ FilteredInPass
  BY DEF RecallMeasured, TextInv
<1>2. case.cap = NumDocs /\ case.threshold \in 0 .. NumDocs /\ NumDocs \in Nat
  BY <1>1, TextTypes
<1>3. Stream = Corpus /\ Stream \in Seq(Docs) /\ Len(Stream) = NumDocs
  BY <1>1, <1>2, StreamOfSize
<1>4. rows = [n \in Docs |-> [item |-> n, id |-> FilterId(NumDocs, n - 1)]]
  <2>1. rows = [n \in 1 .. NumDocs |-> [item |-> Corpus[n], id |-> FilterId(NumDocs, n - 1)]]
    BY <1>1, <1>2, <1>3, NumberedWhole
  <2>2. \A n \in Docs : Corpus[n] = n
    BY DEF Corpus
  <2> QED
    BY <2>1, <2>2 DEF Docs
<1>5. passing = over
  BY <1>4
<1>6. Cardinality(over) = case.cap - case.threshold
  BY <1>2, PassingCount
<1>7. PICK upto \in 0 .. NumDocs :
        /\ ids = QrelIds(Required(case.qrels), Cut(Corpus, upto), NumDocs)
        /\ Required(case.qrels) \subseteq DOMAIN ids
        /\ truth = Filtered(case.qrels, ids, case.threshold)
  BY <1>1, <1>2, <1>3 DEF FilteredInPass
<1>8. DOMAIN ids \subseteq Docs /\ \A d \in DOMAIN ids : ids[d] = FilterId(NumDocs, d - 1)
  BY <1>7, QrelIdsOfCorpus
<1> DEFINE keeps == [q \in Queries |->
                       {d \in case.qrels[q] : d \in DOMAIN ids /\ ids[d] >= case.threshold}]
<1>9. truth = [q \in {p \in Queries : keeps[p] # {}} |-> keeps[q]]
  BY <1>7 DEF Filtered, Positive
<1>10. ASSUME NEW q \in Queries PROVE keeps[q] = case.qrels[q] \cap over
  <2>1. case.qrels \in [Queries -> SUBSET (Docs \cup {Missing})]
    BY <1>1, TextTypes
  <2>2. case.qrels[q] \subseteq Required(case.qrels)
    BY <2>1 DEF Required, Range
  <2>3. \A d \in case.qrels[q] : d \in DOMAIN ids /\ d \in Docs /\ ids[d] = FilterId(NumDocs, d - 1)
    BY <1>7, <1>8, <2>2
  <2> QED
    BY <2>3
<1> HIDE DEF passing, over, keeps
<1>11. DOMAIN truth = {q \in Queries : case.qrels[q] \cap over # {}}
  BY <1>9, <1>10
<1>12. \A q \in DOMAIN truth : truth[q] = case.qrels[q] \cap over
  BY <1>9, <1>10
<1> QED
  BY <1>5, <1>6, <1>11, <1>12

-------------------------------------------------------------------------------
(* What holds of every run of a case.                                         *)

\* A case begins with nothing prepared and nothing sent.
LEMMA CaseBegins == CaseInit => CaseInv
<1> SUFFICES ASSUME CaseInit PROVE CaseInv
  OBVIOUS
<1>1. CaseTypeOK
  BY DEF CaseInit, CaseTypeOK
<1>2. TextInv
  BY DEF CaseInit, TextInv, Start, Vector
<1>3. VectorInv
  <2> SUFFICES ASSUME Vector PROVE VectorInv
    BY DEF VectorInv
  <2>1. phase = "resolve_k" /\ at = [file |-> 1, row |-> 0]
    BY DEF CaseInit, Start, Vector
  <2>2. 1 \in 1 .. LastFile /\ 0 \in 0 .. RowsOf(1)
    BY <1>1, VectorTypes
  <2> QED
    BY <2>1, <2>2 DEF VectorInv
<1> QED
  BY <1>1, <1>2, <1>3 DEF CaseInv

\* The invariant holds in every state of every run of a case.
THEOREM CaseInvariant == CaseSpec => []CaseInv
<1>1. CaseInit => CaseInv
  BY CaseBegins
<1>2. CaseInv /\ [CaseNext]_caseVars => CaseInv'
  BY CaseTypeStep, TextStep, VectorStep DEF CaseInv
<1> QED
  BY <1>1, <1>2, PTL DEF CaseSpec

\* A vector load that ends has sent every row of its files once and in their order, for any
\* number of files, rows and batches, and whatever was interrupted, torn or run again.
THEOREM VectorLoadIsWhole == CaseSpec => []WholeCorpusSent
<1>1. CaseInv => WholeCorpusSent
  BY EndOfTheCorpus DEF CaseInv
<1> QED
  BY CaseInvariant, <1>1, PTL

\* The recall of a text case is measured against documents that are in the database and
\* pass its filter, for a corpus, a cap and a threshold of any size.
THEOREM FairRecall == CaseSpec => []RecallIsFair
<1>1. CaseInv => RecallIsFair
  BY QrelsAreHeld, TruthPassesFilter DEF CaseInv, RecallIsFair
<1> QED
  BY CaseInvariant, <1>1, PTL

-------------------------------------------------------------------------------
(* The concurrent load: ConcurrentInsert.                                     *)

USE NumWorkersAssumption, NumBatchesAssumption, MaxRetryAssumption
USE DEF Workers, Batches, NoBatch

\* The runner starts well typed.
LEMMA TypeInit == Init => TypeOK
<1> SUFFICES ASSUME Init PROVE TypeOK
  OBVIOUS
<1>1. /\ pc \in [Workers -> PCs]
      /\ batch \in [Workers -> {NoBatch} \cup Batches]
      /\ retry \in [Workers -> 0..MaxRetry]
      /\ total \in [Workers -> SUBSET Batches]
      /\ late \in [stop: Nat, expired: [Workers -> Nat]]
  BY DEF Init, PCs
<1>2. errors \in Seq({"error", "timeout"})
  BY DEF Init
<1>3. \A w \in Workers : pc[w] # "insert"
  BY DEF Init
<1>4. /\ mode \in Modes /\ next \in 1..(NumBatches + 1) /\ prefetched = NoBatch
      /\ lock \in 0..NumWorkers /\ waiting \in 1..(NumWorkers + 1)
      /\ main \in Mains /\ outcome \in Outcomes
  BY DEF Init, Mains, Outcomes
<1>5. /\ stop \in BOOLEAN /\ expired \in BOOLEAN /\ rang \in BOOLEAN
      /\ count = {} /\ stored = {} /\ whole = {} /\ pulled = {}
  BY DEF Init
<1>6. QED
  BY <1>1, <1>2, <1>3, <1>4, <1>5 DEF TypeOK

\* A batch that may be handed out is one of the dataset's.
LEMMA NextBatchType ==
    ASSUME TypeOK, ~Exhausted
    PROVE  NextBatch \in Batches
BY DEF TypeOK, Exhausted, NextBatch

\* What a failed attempt leaves behind are batches of the dataset.
LEMMA LeftBehindType ==
    ASSUME TypeOK, NEW w \in Workers, pc[w] = "insert", LeftBehind(w)
    PROVE  /\ batch[w] \in Batches
           /\ stored' \in SUBSET Batches /\ whole' \in SUBSET Batches
<1>1. batch[w] \in Batches
  BY DEF TypeOK
<1>2. QED
  BY <1>1 DEF TypeOK, LeftBehind, database

\* A step that only moves one worker to a place other than its insertion
\* keeps the types.
LEMMA MoveType ==
    ASSUME TypeOK, NEW w \in Workers, NEW place \in PCs \ {"insert"},
           Goto(w, place),
           UNCHANGED <<mode, expired, rang, batch, total, waiter, prefetched,
                       pulled, late>>,
           retry' \in [Workers -> 0..MaxRetry],
           next' \in 1..(NumBatches + 1), lock' \in 0..NumWorkers, stop' \in BOOLEAN,
           stored' \in SUBSET Batches, whole' \in SUBSET Batches
    PROVE  TypeOK'
<1>1. pc' \in [Workers -> PCs]
  BY DEF TypeOK, Goto
<1>2. \A v \in Workers : pc'[v] = "insert" => batch'[v] # NoBatch
  BY DEF TypeOK, Goto
<1>3. QED
  BY <1>1, <1>2 DEF TypeOK, waiter

\* So does a step of the main thread or of the clock.
LEMMA MainType ==
    ASSUME TypeOK, UNCHANGED <<mode, iterator, worker, database, stop>>,
           expired' \in BOOLEAN, rang' \in BOOLEAN,
           main' \in Mains, outcome' \in Outcomes, count' \in SUBSET Batches,
           waiting' \in 1..(NumWorkers + 1), errors' \in Seq({"error", "timeout"})
    PROVE  TypeOK'
BY DEF TypeOK, iterator, worker, database

\* Every step keeps the types.
LEMMA TypeStep ==
    ASSUME TypeOK, [Next]_vars
    PROVE  TypeOK'
<1>1. ASSUME NEW w \in Workers, Test(w) PROVE TypeOK'
  BY <1>1, MoveType DEF Test, TypeOK, PCs, iterator, database
<1>2. ASSUME NEW w \in Workers, Acquire(w) PROVE TypeOK'
  <2>1. lock' \in 0..NumWorkers
    BY <1>2 DEF Acquire
  <2>2. \E place \in {"done", "take"} : Goto(w, place)
    BY <1>2 DEF Acquire
  <2>3. QED
    BY <1>2, <2>1, <2>2, MoveType DEF Acquire, TypeOK, PCs, database
<1>3. ASSUME NEW w \in Workers, Take(w) PROVE TypeOK'
  <2>1. NextBatch \in Batches
    BY <1>3, NextBatchType DEF Take
  <2>2. /\ batch' = [batch EXCEPT ![w] = NextBatch]
        /\ pc' = [pc EXCEPT ![w] = "insert"]
        /\ lock' = 0 /\ pulled' = pulled \cup {NextBatch}
        /\ prefetched' = NoBatch
    BY <1>3 DEF Take, HandOut, Goto
  <2>3. /\ batch' \in [Workers -> {NoBatch} \cup Batches] /\ pc' \in [Workers -> PCs]
        /\ pulled' \in SUBSET Batches
        /\ \A v \in Workers : pc'[v] = "insert" => batch'[v] # NoBatch
    BY <2>1, <2>2 DEF TypeOK, PCs
  <2>4. next' \in 1..(NumBatches + 1)
    BY <1>3 DEF Take, Exhausted, TypeOK
  <2>5. late' \in [stop: Nat, expired: [Workers -> Nat]]
    <3>1. \A flag \in BOOLEAN, n \in Nat : Counted(flag, n) \in Nat
      BY DEF Counted
    <3>2. late.expired \in [Workers -> Nat] /\ late.stop \in Nat
      BY DEF TypeOK
    <3>3. [late.expired EXCEPT ![w] = Counted(expired, @)] \in [Workers -> Nat]
      BY <3>1, <3>2 DEF TypeOK
    <3>4. QED
      BY <1>3, <3>1, <3>2, <3>3 DEF Take, HandOut, TypeOK
  <2>6. UNCHANGED <<mode, stop, expired, rang, retry, total, main, waiting, errors,
                    outcome, count, stored, whole>>
    BY <1>3 DEF Take, waiter, database
  <2>7. /\ prefetched' \in {NoBatch} \cup Batches /\ lock' \in 0..NumWorkers
    BY <2>2
  <2>8. QED
    BY <2>3, <2>4, <2>5, <2>6, <2>7 DEF TypeOK
<1>4. ASSUME NEW w \in Workers, TakeNothing(w) PROVE TypeOK'
  <2>1. Goto(w, "done") /\ lock' = 0
    BY <1>4 DEF TakeNothing
  <2>2. UNCHANGED <<mode, expired, rang, batch, total, waiter, prefetched, pulled,
                    late, retry, next, stop, stored, whole>>
    BY <1>4 DEF TakeNothing, database
  <2>3. /\ retry \in [Workers -> 0..MaxRetry] /\ next \in 1..(NumBatches + 1)
        /\ stop \in BOOLEAN /\ stored \in SUBSET Batches /\ whole \in SUBSET Batches
    BY DEF TypeOK
  <2>4. "done" \in PCs \ {"insert"}
    BY DEF PCs
  <2>5. QED
    BY <2>1, <2>2, <2>3, <2>4, MoveType
<1>5. ASSUME NEW w \in Workers, TakeFails(w) PROVE TypeOK'
  <2>1. Goto(w, "raised") /\ lock' = 0 /\ next' = NumBatches + 1 /\ stop' = TRUE
    BY <1>5 DEF TakeFails, Raises
  <2>2. UNCHANGED <<mode, expired, rang, batch, total, waiter, prefetched, pulled,
                    late, retry, stored, whole>>
    BY <1>5 DEF TakeFails, database
  <2>3. /\ retry \in [Workers -> 0..MaxRetry]
        /\ stored \in SUBSET Batches /\ whole \in SUBSET Batches
    BY DEF TypeOK
  <2>4. "raised" \in PCs \ {"insert"}
    BY DEF PCs
  <2>5. QED
    BY <2>1, <2>2, <2>3, <2>4, MoveType
<1>6. ASSUME NEW w \in Workers, Insert(w) PROVE TypeOK'
  <2>1. batch[w] \in Batches
    BY <1>6 DEF Insert, TypeOK
  <2>2. pc' \in [Workers -> PCs] /\ batch' \in [Workers -> {NoBatch} \cup Batches]
    BY <1>6 DEF Insert, Goto, TypeOK, PCs
  <2>3. retry' \in [Workers -> 0..MaxRetry]
    BY <1>6 DEF Insert, TypeOK
  <2>4. total' \in [Workers -> SUBSET Batches]
    BY <1>6, <2>1 DEF Insert, TypeOK
  <2>5. stored' \in SUBSET Batches /\ whole' \in SUBSET Batches
    BY <1>6, <2>1 DEF Insert, TypeOK
  <2>6. \A v \in Workers : pc'[v] = "insert" => batch'[v] # NoBatch
    BY <1>6 DEF Insert, Goto, TypeOK
  <2>7. UNCHANGED <<mode, iterator, stop, expired, rang, waiter>>
    BY <1>6 DEF Insert
  <2>8. QED
    BY <2>2, <2>3, <2>4, <2>5, <2>6, <2>7 DEF TypeOK, iterator, waiter
<1>7. ASSUME NEW w \in Workers, Retry(w) PROVE TypeOK'
  <2>1. stored' \in SUBSET Batches /\ whole' \in SUBSET Batches
    BY <1>7, LeftBehindType DEF Retry
  <2>2. retry' \in [Workers -> 0..MaxRetry]
    <3>1. retry \in [Workers -> 0..MaxRetry] /\ retry[w] < MaxRetry
      BY <1>7 DEF Retry, TypeOK
    <3>2. retry' = [retry EXCEPT ![w] = @ + 1]
      BY <1>7 DEF Retry
    <3>3. retry[w] + 1 \in 0..MaxRetry
      BY <3>1, MaxRetryAssumption
    <3> QED
      BY <3>1, <3>2, <3>3
  <2>3. QED
    BY <1>7, <2>1, <2>2 DEF Retry, TypeOK, iterator, waiter
<1>8. ASSUME NEW w \in Workers, GiveUp(w) PROVE TypeOK'
  <2>1. stored' \in SUBSET Batches /\ whole' \in SUBSET Batches
    BY <1>8, LeftBehindType DEF GiveUp
  <2>2. retry' \in [Workers -> 0..MaxRetry]
    BY <1>8 DEF GiveUp, TypeOK
  <2>3. QED
    BY <1>8, <2>1, <2>2, MoveType DEF GiveUp, Raises, TypeOK, PCs, iterator
<1>9. CASE Submit
  <2>1. pc' \in [Workers -> PCs] /\ \A w \in Workers : pc'[w] # "insert"
    BY <1>9 DEF Submit, PCs
  <2>2. next' \in 1..(NumBatches + 1) /\ prefetched' \in {NoBatch} \cup Batches
    BY <1>9 DEF Submit, TypeOK
  <2>3. QED
    BY <1>9, <2>1, <2>2 DEF Submit, TypeOK, Mains, database
<1>10. CASE SubmitFails
  BY <1>10, MainType DEF SubmitFails, Ends, TypeOK, Mains, Outcomes
<1>11. CASE WaitFor
  <2>1. errors' \in Seq({"error", "timeout"}) /\ waiting' \in 1..(NumWorkers + 1)
    BY <1>11 DEF WaitFor, TypeOK
  <2>2. QED
    BY <1>11, <2>1, MainType DEF WaitFor, TypeOK
<1>12. CASE Join
  BY <1>12, MainType DEF Join, TypeOK, Mains
<1>13. CASE Return
  <2>1. UNION {total[w] : w \in Workers} \in SUBSET Batches
    BY DEF TypeOK
  <2>2. QED
    BY <1>13, <2>1, MainType DEF Return, Ends, TypeOK, Mains, Outcomes
<1>14. CASE Raise
  <2>1. Head(errors) \in {"error", "timeout"}
    BY <1>14 DEF Raise, TypeOK
  <2>2. QED
    BY <1>14, <2>1, MainType DEF Raise, Ends, TypeOK, Mains, Outcomes
<1>15. CASE Expire
  BY <1>15, MainType DEF Expire, TypeOK, waiter
<1>16. CASE Timeout
  <2>1. /\ pc' \in [Workers -> PCs] /\ batch' \in [Workers -> {NoBatch} \cup Batches]
        /\ retry' \in [Workers -> 0..MaxRetry] /\ total' \in [Workers -> SUBSET Batches]
        /\ \A w \in Workers : pc'[w] # "insert"
    BY <1>16 DEF Timeout, PCs
  <2>2. QED
    BY <1>16, <2>1 DEF Timeout, Ends, TypeOK, Mains, Outcomes, iterator, database
<1>17. CASE Ring
  <2>1. CASE main = "wait" /\ waiting <= NumWorkers
    <3>1. /\ errors' = Append(errors, "timeout") /\ waiting' = waiting + 1
          /\ UNCHANGED <<main, outcome, count>>
      BY <1>17, <2>1 DEF Ring
    <3>2. errors' \in Seq({"error", "timeout"}) /\ waiting' \in 1..(NumWorkers + 1)
      BY <2>1, <3>1 DEF TypeOK
    <3>3. QED
      BY <1>17, <3>1, <3>2, MainType DEF Ring, TypeOK
  <2>2. CASE main \in {"prime", "join"}
    BY <1>17, <2>2, MainType DEF Ring, Ends, TypeOK, Mains, Outcomes
  <2>3. QED
    BY <1>17, <2>1, <2>2 DEF Ring
<1>18. CASE UNCHANGED vars
  BY <1>18 DEF vars, iterator, worker, waiter, database, TypeOK
<1>19. QED
  BY <1>1, <1>2, <1>3, <1>4, <1>5, <1>6, <1>7, <1>8, <1>9, <1>10, <1>11, <1>12,
     <1>13, <1>14, <1>15, <1>16, <1>17, <1>18
     DEF Next, Worker, Main, Clock

\* The runner's state keeps its types.
THEOREM TypeCorrect == Spec => []TypeOK
<1>1. TypeOK /\ [Next]_vars => TypeOK'
  BY TypeStep
<1>2. QED
  BY TypeInit, <1>1, PTL DEF Spec

-----------------------------------------------------------------------------
\* What a worker holds are batches of the dataset.
LEMMA HoldsType ==
    ASSUME TypeOK, NEW w \in Workers
    PROVE  Holds(w) \in SUBSET Batches
BY DEF TypeOK, Holds

\* A step that moves worker w and leaves the others, the iterator and what
\* is held alone, keeps the iterator's invariant.
LEMMA IteratorKept ==
    ASSUME TypeOK, IteratorInv, EachBatchOnce, NEW w \in Workers, NEW place,
           Goto(w, place), place # "take",
           place \in {"test", "acquire", "done"} => batch[w] = NoBatch,
           place # "idle",
           UNCHANGED <<batch, total, prefetched>>,
           next' \in Nat, next <= next',
           lock' = lock \/ pc[w] = "take"
    PROVE  IteratorInv' /\ EachBatchOnce'
<1>1. \A v \in Workers : Holds(v)' = Holds(v)
  BY DEF Holds
<1>2. \A v \in Workers : pc'[v] = IF v = w THEN place ELSE pc[v]
  BY DEF Goto, TypeOK
<1>3. EachBatchOnce'
  BY <1>1 DEF EachBatchOnce
<1>4. \A v \in Workers : pc'[v] = "take" => lock' = v
  BY <1>2 DEF IteratorInv
<1>5. \A v \in Workers : pc'[v] \in {"idle", "test", "acquire", "take", "done"}
                            => batch'[v] = NoBatch
  BY <1>2 DEF IteratorInv
<1>6. \A v \in Workers : \A b \in Holds(v)' : b < next' /\ b # prefetched'
  <2> SUFFICES ASSUME NEW v \in Workers, NEW b \in Holds(v)
               PROVE  b < next' /\ b # prefetched'
    BY <1>1
  <2>1. b \in Batches
    BY HoldsType
  <2>2. b < next /\ b # prefetched
    BY DEF IteratorInv
  <2>3. next \in Nat
    BY DEF TypeOK
  <2>4. QED
    BY <2>1, <2>2, <2>3
<1>7. prefetched' # NoBatch => prefetched' < next'
  BY DEF IteratorInv, TypeOK
<1>8. QED
  BY <1>3, <1>4, <1>5, <1>6, <1>7 DEF IteratorInv

\* Handing out: the batch is in front of everything held.
LEMMA TakeKeepsIterator ==
    ASSUME TypeOK, IteratorInv, EachBatchOnce, NEW w \in Workers, Take(w)
    PROVE  IteratorInv' /\ EachBatchOnce'
<1>1. /\ pc[w] = "take" /\ lock = w /\ lock' = 0
      /\ pc' = [pc EXCEPT ![w] = "insert"]
      /\ batch' = [batch EXCEPT ![w] = NextBatch]
      /\ total' = total /\ prefetched' = NoBatch
      /\ next' = IF prefetched # NoBatch THEN next ELSE next + 1
  BY DEF Take, HandOut, Goto, IteratorInv
<1>2. NextBatch \in Batches
  BY NextBatchType DEF Take
<1>3. NextBatch < next' /\ next' \in Nat /\ next \in Nat /\ next <= next'
  BY <1>1, <1>2 DEF NextBatch, IteratorInv, TypeOK
<1>4. \A v \in Workers : NextBatch \notin Holds(v)
  <2>1. \A v \in Workers : \A b \in Holds(v) : b < next /\ b # prefetched
    BY DEF IteratorInv
  <2>2. ~(next < next)
    BY <1>3
  <2>3. QED
    BY <2>1, <2>2 DEF NextBatch
<1>5. \A v \in Workers : v # w => Holds(v)' = Holds(v)
  BY <1>1 DEF Holds, TypeOK
<1>6. Holds(w)' \subseteq Holds(w) \cup {NextBatch}
  BY <1>1 DEF Holds, TypeOK
<1>7. batch'[w] = NextBatch /\ total'[w] \subseteq Holds(w)
  BY <1>1 DEF Holds, TypeOK
<1>8. EachBatchOnce'
  <2>1. \A u, v \in Workers : u # v => Holds(u)' \cap Holds(v)' = {}
    BY <1>4, <1>5, <1>6 DEF EachBatchOnce
  <2>2. \A v \in Workers : batch'[v] \notin total'[v]
    BY <1>1, <1>4, <1>7 DEF EachBatchOnce, TypeOK
  <2>3. QED
    BY <2>1, <2>2 DEF EachBatchOnce
<1>9. \A v \in Workers : pc'[v] # "take"
  BY <1>1 DEF IteratorInv, TypeOK
<1>10. \A v \in Workers : \A b \in Holds(v)' : b < next' /\ b # prefetched'
  <2> SUFFICES ASSUME NEW v \in Workers, NEW b \in Holds(v)'
               PROVE  b < next' /\ b # prefetched'
    OBVIOUS
  <2>1. b = NextBatch \/ b \in Holds(v)
    BY <1>5, <1>6
  <2>2. CASE b = NextBatch
    BY <1>1, <1>2, <1>3, <2>2
  <2>3. CASE b \in Holds(v)
    <3>1. b \in Batches /\ b < next
      BY <2>3, HoldsType DEF IteratorInv
    <3>2. QED
      BY <1>1, <1>3, <3>1
  <2>4. QED
    BY <2>1, <2>2, <2>3
<1>11. \A v \in Workers : pc'[v] \in {"idle", "test", "acquire", "take", "done"}
                             => batch'[v] = NoBatch
  BY <1>1 DEF IteratorInv, TypeOK
<1>12. QED
  BY <1>1, <1>8, <1>9, <1>10, <1>11 DEF IteratorInv

\* Every step keeps the iterator's invariant and hands no batch out twice.
LEMMA IteratorStep ==
    ASSUME TypeOK, IteratorInv, EachBatchOnce, main = "prime" => MainInv, [Next]_vars
    PROVE  IteratorInv' /\ EachBatchOnce'
<1>0. next \in Nat /\ NumBatches + 1 \in Nat /\ next <= NumBatches + 1 /\ next <= next
  BY DEF TypeOK
<1>1. ASSUME NEW w \in Workers, Test(w) PROVE IteratorInv' /\ EachBatchOnce'
  <2>1. batch[w] = NoBatch
    BY <1>1 DEF Test, IteratorInv
  <2>2. \E place \in {"done", "acquire"} : Goto(w, place)
    BY <1>1 DEF Test
  <2>3. UNCHANGED <<batch, total, prefetched, next, lock>>
    BY <1>1 DEF Test, iterator
  <2>4. QED
    BY <1>0, <2>1, <2>2, <2>3, IteratorKept
<1>2. ASSUME NEW w \in Workers, Acquire(w) PROVE IteratorInv' /\ EachBatchOnce'
  <2>1. /\ pc[w] = "acquire" /\ batch[w] = NoBatch /\ lock = 0
        /\ UNCHANGED <<batch, total, prefetched, next>>
    BY <1>2 DEF Acquire, IteratorInv
  <2>2. CASE stop
    BY <1>0, <1>2, <2>1, <2>2, IteratorKept DEF Acquire
  <2>3. CASE ~stop
    <3>1. pc' = [pc EXCEPT ![w] = "take"] /\ lock' = w
      BY <1>2, <2>3 DEF Acquire, Goto
    <3>2. \A v \in Workers : pc[v] # "take"
      BY <2>1 DEF IteratorInv
    <3>3. \A v \in Workers : Holds(v)' = Holds(v)
      BY <2>1 DEF Holds
    <3>4. \A v \in Workers : pc'[v] = IF v = w THEN "take" ELSE pc[v]
      BY <3>1 DEF TypeOK
    <3>5. QED
      BY <2>1, <3>1, <3>2, <3>3, <3>4 DEF IteratorInv, EachBatchOnce
  <2>4. QED
    BY <2>2, <2>3
<1>3. ASSUME NEW w \in Workers, Take(w) PROVE IteratorInv' /\ EachBatchOnce'
  BY <1>3, TakeKeepsIterator
<1>4. ASSUME NEW w \in Workers, TakeNothing(w) PROVE IteratorInv' /\ EachBatchOnce'
  <2>1. /\ pc[w] = "take" /\ batch[w] = NoBatch /\ Goto(w, "done")
        /\ UNCHANGED <<batch, total, prefetched, next>>
    BY <1>4 DEF TakeNothing, IteratorInv
  <2>2. QED
    BY <1>0, <2>1, IteratorKept
<1>5. ASSUME NEW w \in Workers, TakeFails(w) PROVE IteratorInv' /\ EachBatchOnce'
  <2>1. /\ pc[w] = "take" /\ Goto(w, "raised") /\ next' = NumBatches + 1
        /\ UNCHANGED <<batch, total, prefetched>>
    BY <1>5 DEF TakeFails, Raises
  <2>2. QED
    BY <1>0, <2>1, IteratorKept
<1>6. ASSUME NEW w \in Workers, Insert(w) PROVE IteratorInv' /\ EachBatchOnce'
  <2>1. /\ batch' = [batch EXCEPT ![w] = NoBatch]
        /\ total' = [total EXCEPT ![w] = @ \cup {batch[w]}]
        /\ pc' = [pc EXCEPT ![w] = "test"] /\ batch[w] \in Batches
        /\ UNCHANGED <<prefetched, next, lock>>
    BY <1>6 DEF Insert, Goto, iterator, TypeOK
  <2>2. Holds(w)' = Holds(w)
    BY <2>1 DEF Holds, TypeOK
  <2>3. \A v \in Workers : v # w => Holds(v)' = Holds(v)
    BY <2>1 DEF Holds, TypeOK
  <2>4. \A v \in Workers : batch'[v] \notin total'[v]
    <3>1. \A v \in Workers : v # w => batch'[v] = batch[v] /\ total'[v] = total[v]
      BY <2>1 DEF TypeOK
    <3>2. batch'[w] = 0 /\ total'[w] \subseteq Batches
      BY <2>1 DEF TypeOK
    <3>3. QED
      BY <3>1, <3>2 DEF EachBatchOnce
  <2>5. EachBatchOnce'
    BY <2>2, <2>3, <2>4 DEF EachBatchOnce
  <2>6. \A v \in Workers : pc'[v] = IF v = w THEN "test" ELSE pc[v]
    BY <2>1 DEF TypeOK
  <2>7. \A v \in Workers : batch'[v] = IF v = w THEN NoBatch ELSE batch[v]
    BY <2>1 DEF TypeOK
  <2>8. \A v \in Workers : \A b \in Holds(v)' : b < next' /\ b # prefetched'
    BY <2>1, <2>2, <2>3 DEF IteratorInv
  <2>9. QED
    BY <2>1, <2>5, <2>6, <2>7, <2>8 DEF IteratorInv
<1>7. ASSUME NEW w \in Workers, GiveUp(w) PROVE IteratorInv' /\ EachBatchOnce'
  <2>1. Goto(w, "raised") /\ UNCHANGED <<batch, total, prefetched, next, lock>>
    BY <1>7 DEF GiveUp, Raises, iterator
  <2>2. QED
    BY <1>0, <2>1, IteratorKept
<1>8. CASE Submit
  <2>1. /\ \A w \in Workers : pc'[w] = "test" /\ pc[w] = "idle"
        /\ UNCHANGED <<batch, total, lock>>
        /\ next = 1 /\ prefetched = NoBatch
        /\ \/ prefetched' = next /\ next' = next + 1
           \/ UNCHANGED <<prefetched, next>>
    BY <1>8 DEF Submit, MainInv
  <2>2. \A v \in Workers : Holds(v)' = Holds(v)
    BY <2>1 DEF Holds
  <2>3. \A v \in Workers : Holds(v) = {}
    BY <2>1, HoldsType DEF IteratorInv
  <2>4. QED
    BY <2>1, <2>2, <2>3 DEF IteratorInv, EachBatchOnce
<1>9. CASE Timeout
  <2>1. \A w \in Workers : pc'[w] = "killed" /\ batch'[w] = NoBatch /\ total'[w] = {}
    BY <1>9 DEF Timeout
  <2>2. \A v \in Workers : Holds(v)' = {}
    BY <2>1 DEF Holds
  <2>3. UNCHANGED <<prefetched, next, lock>>
    BY <1>9 DEF Timeout, iterator
  <2>4. QED
    BY <2>1, <2>2, <2>3 DEF IteratorInv, EachBatchOnce
<1>10. CASE UNCHANGED <<pc, batch, total, prefetched, next, lock>>
  BY <1>10 DEF IteratorInv, EachBatchOnce, Holds
<1>11. CASE SubmitFails \/ WaitFor \/ Join \/ Return \/ Raise \/ Expire \/ Ring
            \/ UNCHANGED vars \/ \E w \in Workers : Retry(w)
  BY <1>10, <1>11 DEF SubmitFails, WaitFor, Join, Return, Raise, Expire, Ring, Retry,
                      vars, worker, iterator
<1>12. QED
  BY <1>1, <1>2, <1>3, <1>4, <1>5, <1>6, <1>7, <1>8, <1>9, <1>11
     DEF Next, Worker, Main, Clock

-----------------------------------------------------------------------------
\* A step that keeps what LateInv speaks of, or lets a worker go elsewhere.
LEMMA LateKept ==
    ASSUME LateInv, StopsPulling, DeadlineStopsPulling, late' = late,
           stop => stop', expired => expired',
           \A w \in Workers : pc'[w] = "take" => pc[w] = "take",
           \A w \in Workers : pc'[w] = "acquire" => pc[w] = "acquire"
    PROVE  LateInv' /\ StopsPulling' /\ DeadlineStopsPulling'
BY DEF LateInv, StopsPulling, DeadlineStopsPulling

\* A batch taken after the stop event, or after the deadline, is the last.
LEMMA TakeKeepsLate ==
    ASSUME TypeOK, IteratorInv, LateInv, DeadlineStopsPulling, NEW w \in Workers, Take(w)
    PROVE  LateInv' /\ StopsPulling' /\ DeadlineStopsPulling'
<1>1. /\ pc[w] = "take" /\ lock = w /\ late.stop = 0 /\ late.expired[w] = 0
      /\ stop' = stop /\ expired' = expired
  BY DEF Take, IteratorInv, LateInv
<1>2. /\ late.expired \in [Workers -> Nat]
      /\ late' = [stop |-> Counted(stop, late.stop),
                  expired |-> [late.expired EXCEPT ![w] = Counted(expired, @)]]
  BY DEF Take, HandOut, TypeOK
<1>3. late'.stop = IF stop THEN 1 ELSE 0
  BY <1>1, <1>2 DEF Counted
<1>4. \A v \in Workers : late'.expired[v] = IF v = w THEN (IF expired THEN 1 ELSE 0)
                                                    ELSE late.expired[v]
  BY <1>1, <1>2 DEF Counted
<1>5. \A v \in Workers : pc'[v] = IF v = w THEN "insert" ELSE pc[v]
  BY DEF Take, HandOut, Goto, TypeOK
<1>6. \A v \in Workers : pc'[v] # "take"
  BY <1>1, <1>5 DEF IteratorInv
<1>7. StopsPulling'
  BY <1>3 DEF StopsPulling
<1>8. DeadlineStopsPulling'
  BY <1>4 DEF DeadlineStopsPulling
<1>9. LateInv'
  BY <1>1, <1>3, <1>4, <1>5, <1>6 DEF LateInv
<1>10. QED
  BY <1>7, <1>8, <1>9

\* Every step keeps the two limits on what is taken too late.
LEMMA LateStep ==
    ASSUME TypeOK, IteratorInv, LateInv, StopsPulling, DeadlineStopsPulling, [Next]_vars
    PROVE  LateInv' /\ StopsPulling' /\ DeadlineStopsPulling'
<1>1. ASSUME NEW w \in Workers, Test(w)
      PROVE  LateInv' /\ StopsPulling' /\ DeadlineStopsPulling'
  <2>1. UNCHANGED <<late, stop, expired>>
    BY <1>1 DEF Test, iterator
  <2>2. \A v \in Workers : v # w => pc'[v] = pc[v]
    BY <1>1 DEF Test, Goto, TypeOK
  <2>3. pc'[w] = "done" \/ (pc'[w] = "acquire" /\ ~expired)
    BY <1>1 DEF Test, Goto, TypeOK
  <2>4. QED
    BY <2>1, <2>2, <2>3 DEF LateInv, StopsPulling, DeadlineStopsPulling
<1>2. ASSUME NEW w \in Workers, Acquire(w)
      PROVE  LateInv' /\ StopsPulling' /\ DeadlineStopsPulling'
  <2>1. UNCHANGED <<late, stop, expired>> /\ pc[w] = "acquire"
    BY <1>2 DEF Acquire
  <2>2. \A v \in Workers : v # w => pc'[v] = pc[v]
    BY <1>2 DEF Acquire, Goto, TypeOK
  <2>3. pc'[w] = "done" \/ (pc'[w] = "take" /\ ~stop)
    BY <1>2 DEF Acquire, Goto, TypeOK
  <2>4. QED
    BY <2>1, <2>2, <2>3 DEF LateInv, StopsPulling, DeadlineStopsPulling
<1>3. ASSUME NEW w \in Workers, Take(w)
      PROVE  LateInv' /\ StopsPulling' /\ DeadlineStopsPulling'
  BY <1>3, TakeKeepsLate
<1>4. ASSUME NEW w \in Workers, NEW place \in {"done", "raised", "test"}, Goto(w, place),
             late' = late, stop => stop', expired' = expired
      PROVE  LateInv' /\ StopsPulling' /\ DeadlineStopsPulling'
  <2>1. \A v \in Workers : pc'[v] = IF v = w THEN place ELSE pc[v]
    BY <1>4 DEF Goto, TypeOK
  <2>2. QED
    BY <1>4, <2>1, LateKept
<1>5. ASSUME NEW w \in Workers, TakeNothing(w) \/ TakeFails(w) \/ Insert(w) \/ GiveUp(w)
      PROVE  LateInv' /\ StopsPulling' /\ DeadlineStopsPulling'
  BY <1>4, <1>5 DEF TakeNothing, TakeFails, Insert, GiveUp, Raises, iterator
<1>6. CASE Submit \/ Timeout
  <2>1. late' = late /\ stop' = stop /\ expired' = expired
    BY <1>6 DEF Submit, Timeout, iterator
  <2>2. \A w \in Workers : pc'[w] \notin {"take", "acquire"}
    BY <1>6 DEF Submit, Timeout
  <2>3. QED
    BY <2>1, <2>2, LateKept
<1>7. CASE SubmitFails \/ WaitFor \/ Join \/ Return \/ Raise \/ Expire \/ Ring
           \/ UNCHANGED vars \/ \E w \in Workers : Retry(w)
  <2>1. late' = late /\ stop' = stop /\ pc' = pc /\ (expired => expired')
    BY <1>7 DEF SubmitFails, WaitFor, Join, Return, Raise, Expire, Ring, Retry,
                vars, worker, iterator
  <2>2. QED
    BY <2>1, LateKept
<1>8. QED
  BY <1>1, <1>2, <1>3, <1>5, <1>6, <1>7 DEF Next, Worker, Main, Clock

-----------------------------------------------------------------------------
\* A worker that takes a step is neither waiting to start nor over.
LEMMA WorkerIsAtWork ==
    ASSUME NEW w \in Workers, Worker(w)
    PROVE  pc[w] \notin Over
BY DEF Worker, Over, Test, Acquire, Take, TakeNothing, TakeFails, Insert, Retry, GiveUp

\* After the end nothing moves.
LEMMA EndIsFinal ==
    ASSUME MainInv, main = "ended", [Next]_vars
    PROVE  UNCHANGED vars
<1>1. \A w \in Workers : ~Worker(w)
  BY WorkerIsAtWork DEF MainInv
<1>2. ~Main
  BY DEF Main, Submit, SubmitFails, WaitFor, Join, Return, Raise
<1>3. ~Clock
  BY DEF Clock, Expire, Timeout, Ring
<1>4. QED
  BY <1>1, <1>2, <1>3 DEF Next

\* A worker's step touches nothing of the main thread's.
LEMMA WorkerLeavesMain ==
    ASSUME NEW w \in Workers, Worker(w)
    PROVE  waiter' = waiter
BY DEF Worker, Test, Acquire, Take, TakeNothing, TakeFails, Insert, Retry, GiveUp, waiter

\* Every step keeps what is known of the main thread.
LEMMA MainStep ==
    ASSUME TypeOK, MainInv, [Next]_vars
    PROVE  MainInv'
<1>1. CASE main = "ended"
  <2>1. UNCHANGED vars
    BY <1>1, EndIsFinal
  <2>2. QED
    BY <2>1 DEF vars, iterator, worker, waiter, MainInv
<1>2. ASSUME main # "ended", NEW w \in Workers, Worker(w) PROVE MainInv'
  <2>1. main # "prime" /\ main # "join"
    BY <1>2, WorkerIsAtWork DEF MainInv, Over
  <2>2. waiter' = waiter
    BY <1>2, WorkerLeavesMain
  <2>3. QED
    BY <1>2, <2>1, <2>2 DEF waiter, MainInv
<1>3. CASE Submit
  BY <1>3 DEF Submit, MainInv
<1>4. CASE SubmitFails
  BY <1>4 DEF SubmitFails, Ends, MainInv, Over, worker
<1>5. CASE WaitFor
  BY <1>5 DEF WaitFor, MainInv, worker
<1>6. CASE Join
  BY <1>6 DEF Join, MainInv, worker
<1>7. CASE Return
  BY <1>7 DEF Return, Ends, MainInv, worker
<1>8. CASE Raise
  <2>1. Head(errors) \in {"error", "timeout"}
    BY <1>8 DEF Raise, TypeOK
  <2>2. QED
    BY <1>8, <2>1 DEF Raise, Ends, MainInv, worker
<1>9. CASE Expire
  BY <1>9 DEF Expire, MainInv, iterator, worker, waiter
<1>10. CASE Timeout
  BY <1>10 DEF Timeout, Ends, MainInv, Over
<1>11. CASE Ring
  BY <1>11 DEF Ring, Ends, MainInv, Over, iterator, worker
<1>12. CASE UNCHANGED vars
  BY <1>12 DEF vars, iterator, worker, waiter, MainInv
<1>13. CASE main # "ended"
  BY <1>2, <1>3, <1>4, <1>5, <1>6, <1>7, <1>8, <1>9, <1>10, <1>11, <1>12, <1>13
     DEF Next, Main, Clock
<1>14. QED
  BY <1>1, <1>13

-----------------------------------------------------------------------------
\* A step that keeps what is held and what is whole, adds to the database
\* only what is held, and moves the iterator only once the load has failed.
LEMMA AccountKept ==
    ASSUME AccountInv, Counts,
           \A v \in Workers : Holds(v) \subseteq Holds(v)',
           \A v \in Workers : total'[v] \subseteq whole',
           \A b \in stored' \ stored : \E v \in Workers : b \in Holds(v)',
           \/ stop'
           \/ stop' = stop /\ next' = next /\ prefetched' = prefetched
    PROVE  AccountInv'
<1>1. \A b \in stored' : \E v \in Workers : b \in Holds(v)'
  <2> SUFFICES ASSUME NEW b \in stored' PROVE \E v \in Workers : b \in Holds(v)'
    OBVIOUS
  <2>1. CASE b \in stored
    BY <2>1 DEF AccountInv
  <2>2. QED
    BY <2>1
<1>2. ~stop' => \A b \in 1..(next' - 1) :
                   b = prefetched' \/ \E v \in Workers : b \in Holds(v)'
  BY DEF AccountInv
<1>3. QED
  BY <1>1, <1>2 DEF AccountInv

\* Handing out: the batch leaves the iterator and is held.
LEMMA TakeKeepsAccount ==
    ASSUME TypeOK, IteratorInv, AccountInv, Counts, NEW w \in Workers, Take(w)
    PROVE  AccountInv'
<1>1. /\ batch[w] = NoBatch
      /\ batch' = [batch EXCEPT ![w] = NextBatch]
      /\ UNCHANGED <<total, stored, whole, stop>> /\ prefetched' = NoBatch
      /\ next' = IF prefetched # NoBatch THEN next ELSE next + 1
  BY DEF Take, HandOut, IteratorInv, database
<1>2. \A v \in Workers : batch'[v] = IF v = w THEN NextBatch ELSE batch[v]
  BY <1>1 DEF TypeOK
<1>3. \A v \in Workers : Holds(v) \subseteq Holds(v)'
  BY <1>1, <1>2 DEF Holds
<1>4. NextBatch \in Batches
  BY NextBatchType DEF Take
<1>5. NextBatch \in Holds(w)'
  BY <1>2, <1>4 DEF Holds
<1>6. ~stop' => \A b \in 1..(next' - 1) : \E v \in Workers : b \in Holds(v)'
  <2> SUFFICES ASSUME ~stop', NEW b \in 1..(next' - 1)
               PROVE  \E v \in Workers : b \in Holds(v)'
    OBVIOUS
  <2>1. next \in Nat
    BY DEF TypeOK
  <2>2. b \in 1..(next - 1) \/ b = NextBatch
    BY <1>1, <2>1 DEF NextBatch
  <2>3. CASE b = NextBatch
    BY <1>5, <2>3
  <2>4. CASE b \in 1..(next - 1) /\ b # NextBatch
    <3>1. ~stop
      BY <1>1
    <3>2. b # prefetched
      BY <2>4 DEF NextBatch
    <3>3. \E v \in Workers : b \in Holds(v)
      BY <2>4, <3>1, <3>2 DEF AccountInv
    <3>4. QED
      BY <1>3, <3>3
  <2>5. QED
    BY <2>2, <2>3, <2>4
<1>7. \A b \in stored' : \E v \in Workers : b \in Holds(v)'
  BY <1>1, <1>3 DEF AccountInv
<1>8. \A v \in Workers : total'[v] \subseteq whole'
  BY <1>1 DEF AccountInv
<1>9. QED
  BY <1>6, <1>7, <1>8 DEF AccountInv

\* A worker's step keeps the account of the rows.
LEMMA WorkerKeepsAccount ==
    ASSUME TypeOK, IteratorInv, AccountInv, Counts, NEW w \in Workers, Worker(w)
    PROVE  AccountInv'
<1>1. CASE Take(w)
  BY <1>1, TakeKeepsAccount
<1>2. CASE Test(w) \/ Acquire(w) \/ TakeNothing(w)
  <2>1. UNCHANGED <<batch, total, stored, whole, stop, next, prefetched>>
    BY <1>2 DEF Test, Acquire, TakeNothing, iterator, database
  <2>2. \A v \in Workers : Holds(v)' = Holds(v)
    BY <2>1 DEF Holds
  <2>3. \A v \in Workers : total'[v] \subseteq whole'
    BY <2>1 DEF AccountInv
  <2>4. QED
    BY <2>1, <2>2, <2>3, AccountKept
<1>3. CASE TakeFails(w)
  <2>1. UNCHANGED <<batch, total, stored, whole>> /\ stop'
    BY <1>3 DEF TakeFails, Raises, database
  <2>2. \A v \in Workers : Holds(v)' = Holds(v)
    BY <2>1 DEF Holds
  <2>3. \A v \in Workers : total'[v] \subseteq whole'
    BY <2>1 DEF AccountInv
  <2>4. QED
    BY <2>1, <2>2, <2>3, AccountKept
<1>4. CASE Insert(w)
  <2>1. /\ batch' = [batch EXCEPT ![w] = NoBatch]
        /\ total' = [total EXCEPT ![w] = @ \cup {batch[w]}]
        /\ stored' = stored \cup {batch[w]} /\ whole' = whole \cup {batch[w]}
        /\ batch[w] \in Batches /\ UNCHANGED <<stop, next, prefetched>>
    BY <1>4 DEF Insert, iterator, TypeOK
  <2>2. \A v \in Workers : /\ total'[v] = IF v = w THEN total[v] \cup {batch[v]} ELSE total[v]
                           /\ batch'[v] = IF v = w THEN NoBatch ELSE batch[v]
    BY <2>1 DEF TypeOK
  <2>3. \A v \in Workers : Holds(v) \subseteq Holds(v)'
    BY <2>2 DEF Holds
  <2>4. \A v \in Workers : total'[v] \subseteq whole'
    BY <2>1, <2>2 DEF AccountInv
  <2>5. batch[w] \in Holds(w)'
    BY <2>2 DEF Holds
  <2>6. \A b \in stored' \ stored : \E v \in Workers : b \in Holds(v)'
    BY <2>1, <2>5
  <2>7. QED
    BY <2>1, <2>3, <2>4, <2>6, AccountKept
<1>5. CASE Retry(w) \/ GiveUp(w)
  <2>1. /\ UNCHANGED <<batch, total, next, prefetched>> /\ (stop' \/ stop' = stop)
        /\ pc[w] = "insert" /\ LeftBehind(w)
    BY <1>5 DEF Retry, GiveUp, Raises, iterator
  <2>2. \A v \in Workers : Holds(v)' = Holds(v)
    BY <2>1 DEF Holds
  <2>3. batch[w] \in Holds(w)
    BY <2>1 DEF TypeOK, Holds
  <2>4. whole \subseteq whole' /\ stored' \subseteq stored \cup {batch[w]}
    BY <2>1 DEF LeftBehind, database
  <2>5. \A v \in Workers : total'[v] \subseteq whole'
    BY <2>1, <2>4 DEF AccountInv
  <2>6. \A b \in stored' \ stored : \E v \in Workers : b \in Holds(v)'
    BY <2>2, <2>3, <2>4
  <2>7. QED
    BY <2>1, <2>2, <2>5, <2>6, AccountKept
<1>6. QED
  BY <1>1, <1>2, <1>3, <1>4, <1>5 DEF Worker

\* Every step keeps it.
LEMMA AccountStep ==
    ASSUME TypeOK, IteratorInv, MainInv, AccountInv, [Next]_vars
    PROVE  AccountInv'
<1>1. CASE main = "ended"
  <2>1. UNCHANGED vars
    BY <1>1, EndIsFinal
  <2>2. QED
    BY <2>1 DEF vars, iterator, worker, waiter, database, AccountInv, Counts, Holds
<1>2. CASE ~Counts'
  BY <1>2 DEF AccountInv
<1>3. ASSUME main # "ended", NEW w \in Workers, Worker(w) PROVE AccountInv'
  BY <1>3, WorkerKeepsAccount DEF Counts
<1>4. CASE main # "ended" /\ UNCHANGED <<batch, total, stored, whole, stop, next, prefetched>>
  BY <1>4 DEF AccountInv, Counts, Holds
<1>5. CASE Submit
  <2>1. /\ UNCHANGED <<batch, total, stored, whole, stop>> /\ next = 1 /\ Counts
        /\ \/ prefetched' = next /\ next' = next + 1
           \/ UNCHANGED <<prefetched, next>>
    BY <1>5 DEF Submit, MainInv, database, Counts
  <2>2. \A v \in Workers : Holds(v)' = Holds(v)
    BY <2>1 DEF Holds
  <2>3. \A b \in 1..(next' - 1) : b = prefetched'
    BY <2>1
  <2>4. QED
    BY <2>1, <2>2, <2>3 DEF AccountInv
<1>6. CASE main # "ended" /\ (WaitFor \/ Join \/ Return \/ Expire \/ Ring)
  BY <1>4, <1>6 DEF WaitFor, Join, Return, Expire, Ring, worker, iterator, database
<1>7. CASE SubmitFails \/ Raise \/ Timeout
  <2>1. CASE SubmitFails \/ Timeout
    BY <1>2, <2>1 DEF SubmitFails, Timeout, Ends, Counts
  <2>2. CASE Raise
    <3>1. Head(errors) \in {"error", "timeout"}
      BY <2>2 DEF Raise, TypeOK
    <3>2. QED
      BY <1>2, <2>2, <3>1 DEF Raise, Ends, Counts
  <2>3. QED
    BY <1>7, <2>1, <2>2
<1>8. CASE UNCHANGED vars
  BY <1>1, <1>4, <1>8 DEF vars, iterator, worker, database
<1>9. QED
  BY <1>1, <1>3, <1>5, <1>6, <1>7, <1>8 DEF Next, Main, Clock

-----------------------------------------------------------------------------
\* Once exhausted the iterator stays so: nothing is put back.
LEMMA ExhaustedStays ==
    ASSUME TypeOK, NEW w \in Workers, Worker(w), Exhausted
    PROVE  Exhausted'
<1>1. ~Take(w) /\ ~TakeFails(w)
  BY DEF Take, TakeFails, Exhausted, TypeOK
<1>2. UNCHANGED <<next, prefetched>>
  BY <1>1 DEF Worker, Test, Acquire, TakeNothing, Insert, Retry, GiveUp, iterator
<1>3. QED
  BY <1>2 DEF Exhausted

\* A worker becomes done for one of the three reasons, and raises with the
\* stop event set.
LEMMA WorkerSaysWhy ==
    ASSUME TypeOK, NEW w \in Workers, Worker(w)
    PROVE  /\ \A v \in Workers : v # w => pc'[v] = pc[v]
           /\ pc[w] \notin {"done", "raised"}
           /\ pc'[w] = "done" => stop' \/ expired' \/ Exhausted'
           /\ stop => stop'
           /\ expired' = expired
           /\ stop' => stop \/ pc'[w] = "raised"
<1>1. CASE Test(w) \/ Acquire(w)
  BY <1>1 DEF Test, Acquire, Goto, TypeOK
<1>2. CASE Take(w) \/ Insert(w) \/ Retry(w)
  <2>1. /\ UNCHANGED <<stop, expired>> /\ pc[w] \in {"take", "insert"}
        /\ \E place \in {"insert", "test"} : Goto(w, place) \/ pc' = pc
    BY <1>2 DEF Take, HandOut, Insert, Retry
  <2>2. (\A v \in Workers : v # w => pc'[v] = pc[v]) /\ pc'[w] \in {"insert", "test", "take"}
    BY <2>1 DEF Goto, TypeOK
  <2>3. QED
    BY <2>1, <2>2
<1>3. CASE TakeNothing(w)
  BY <1>3 DEF TakeNothing, Goto, TypeOK, Exhausted
<1>4. CASE TakeFails(w) \/ GiveUp(w)
  BY <1>4 DEF TakeFails, GiveUp, Raises, Goto, TypeOK
<1>5. QED
  BY <1>1, <1>2, <1>3, <1>4 DEF Worker

\* A worker's step keeps the reasons.
LEMMA WorkerKeepsWhy ==
    ASSUME TypeOK, WhyInv, Counts, NEW w \in Workers, Worker(w)
    PROVE  WhyInv'
<1>1. stop' => \E v \in Workers : pc'[v] = "raised"
  <2>1. CASE stop
    <3>1. PICK v \in Workers : pc[v] = "raised"
      BY <2>1 DEF WhyInv
    <3>2. pc'[v] = "raised"
      BY <3>1, WorkerSaysWhy
    <3>3. QED
      BY <3>2
  <2>2. CASE ~stop
    BY <2>2, WorkerSaysWhy
  <2>3. QED
    BY <2>1, <2>2
<1>2. \A v \in Workers : pc'[v] = "done" => stop' \/ expired' \/ Exhausted'
  <2> SUFFICES ASSUME NEW v \in Workers, pc'[v] = "done"
               PROVE  stop' \/ expired' \/ Exhausted'
    OBVIOUS
  <2>1. CASE v = w
    BY <2>1, WorkerSaysWhy
  <2>2. CASE v # w
    <3>1. stop \/ expired \/ Exhausted
      BY <2>2, WorkerSaysWhy DEF WhyInv
    <3>2. QED
      BY <3>1, WorkerSaysWhy, ExhaustedStays
  <2>3. QED
    BY <2>1, <2>2
<1>3. errors' = <<>> => \A v \in Workers : v < waiting' => pc'[v] = "done"
  <2>1. errors' = errors /\ waiting' = waiting
    BY WorkerLeavesMain DEF waiter
  <2>2. \A v \in Workers : pc[v] = "done" => pc'[v] = "done"
    BY WorkerSaysWhy
  <2>3. QED
    BY <2>1, <2>2 DEF WhyInv
<1>4. QED
  BY <1>1, <1>2, <1>3 DEF WhyInv

\* Every step keeps them.
LEMMA WhyStep ==
    ASSUME TypeOK, MainInv, WhyInv, [Next]_vars
    PROVE  WhyInv'
<1>1. CASE main = "ended"
  <2>1. UNCHANGED vars
    BY <1>1, EndIsFinal
  <2>2. QED
    BY <2>1 DEF vars, iterator, worker, waiter, WhyInv, Counts, Exhausted
<1>2. CASE ~Counts'
  BY <1>2 DEF WhyInv
<1>3. ASSUME main # "ended", NEW w \in Workers, Worker(w) PROVE WhyInv'
  BY <1>3, WorkerKeepsWhy DEF Counts
<1>4. CASE Submit
  <2>1. /\ ~stop /\ stop' = stop /\ waiting' = 1
        /\ \A w \in Workers : pc'[w] = "test"
    BY <1>4 DEF Submit, MainInv
  <2>2. \A w \in Workers : ~(w < 1)
    OBVIOUS
  <2>3. QED
    BY <2>1, <2>2 DEF WhyInv
<1>5. CASE WaitFor
  <2>1. /\ UNCHANGED <<pc, stop, expired, next, prefetched>> /\ Counts
        /\ waiting' = waiting + 1 /\ waiting \in Nat
        /\ errors' = IF pc[waiting] = "raised" THEN Append(errors, "error") ELSE errors
        /\ pc[waiting] \in {"done", "raised"}
    BY <1>5 DEF WaitFor, worker, iterator, Counts, TypeOK
  <2>2. errors' = <<>> => errors = <<>> /\ pc[waiting] = "done"
    <3>1. Append(errors, "error") # <<>>
      <4>1. errors \in Seq({"error", "timeout"})
        BY DEF TypeOK
      <4>. HIDE DEF TypeOK
      <4>2. Len(Append(errors, "error")) = Len(errors) + 1 /\ Len(errors) \in Nat
        BY <4>1
      <4>. QED
        BY <4>2
    <3>2. QED
      BY <2>1, <3>1
  <2>3. \A w \in Workers : w < waiting' => w < waiting \/ w = waiting
    BY <2>1
  <2>4. errors' = <<>> => \A w \in Workers : w < waiting' => pc'[w] = "done"
    BY <2>1, <2>2, <2>3 DEF WhyInv
  <2>5. QED
    BY <2>1, <2>4 DEF WhyInv, Exhausted
<1>6. CASE main # "ended" /\ (Join \/ Return \/ Expire)
  <2>1. /\ UNCHANGED <<pc, stop, next, prefetched, errors, waiting>> /\ Counts
        /\ expired => expired'
    BY <1>6 DEF Join, Return, Expire, worker, iterator, waiter, Counts
  <2>2. QED
    BY <2>1 DEF WhyInv, Exhausted
<1>7. CASE SubmitFails \/ Timeout
  BY <1>2, <1>7 DEF SubmitFails, Timeout, Ends, Counts
<1>8. CASE Raise
  <2>1. Head(errors) \in {"error", "timeout"}
    BY <1>8 DEF Raise, TypeOK
  <2>2. QED
    BY <1>2, <1>8, <2>1 DEF Raise, Ends, Counts
<1>9. CASE Ring
  <2>1. CASE main' = "ended"
    BY <1>1, <1>2, <1>9, <2>1 DEF Ring, Ends, Counts
  <2>2. CASE main' # "ended"
    <3>1. /\ UNCHANGED <<pc, stop, expired, next, prefetched>> /\ main = "wait"
          /\ errors' = Append(errors, "timeout")
      BY <1>9, <2>2 DEF Ring, Ends, worker, iterator
    <3>2. errors' # <<>>
      BY <3>1 DEF TypeOK
    <3>3. QED
      BY <3>1, <3>2 DEF WhyInv, Exhausted, Counts
  <2>3. QED
    BY <2>1, <2>2
<1>10. CASE main # "ended" /\ UNCHANGED vars
  BY <1>10 DEF vars, iterator, worker, waiter, WhyInv, Counts, Exhausted
<1>11. QED
  BY <1>1, <1>3, <1>4, <1>5, <1>6, <1>7, <1>8, <1>9, <1>10 DEF Next, Main, Clock

-----------------------------------------------------------------------------
\* It all holds before anything is submitted.
LEMMA LoadInvInit == Init => LoadInv
<1> SUFFICES ASSUME Init PROVE LoadInv
  OBVIOUS
<1>1. /\ next = 1 /\ prefetched = NoBatch /\ ~stop /\ ~expired /\ main = "prime"
      /\ waiting = 1 /\ outcome = "none" /\ stored = {}
      /\ \A w \in Workers : pc[w] = "idle" /\ batch[w] = NoBatch /\ total[w] = {}
      /\ late.stop = 0 /\ \A w \in Workers : late.expired[w] = 0
  BY DEF Init
<1>2. \A w \in Workers : Holds(w) = {}
  BY <1>1 DEF Holds
<1>3. TypeOK
  BY TypeInit
<1>4. IteratorInv /\ EachBatchOnce
  BY <1>1, <1>2 DEF IteratorInv, EachBatchOnce
<1>5. LateInv /\ StopsPulling /\ DeadlineStopsPulling
  BY <1>1 DEF LateInv, StopsPulling, DeadlineStopsPulling
<1>6. AccountInv
  BY <1>1 DEF AccountInv
<1>7. WhyInv
  <2>1. \A w \in Workers : ~(w < 1)
    OBVIOUS
  <2>2. QED
    BY <1>1, <2>1 DEF WhyInv
<1>8. MainInv
  BY <1>1 DEF MainInv
<1>9. QED
  BY <1>3, <1>4, <1>5, <1>6, <1>7, <1>8 DEF LoadInv

\* Every step keeps it all.
LEMMA LoadInvStep == LoadInv /\ [Next]_vars => LoadInv'
<1> SUFFICES ASSUME LoadInv, [Next]_vars PROVE LoadInv'
  OBVIOUS
<1>1. TypeOK /\ IteratorInv /\ LateInv /\ AccountInv /\ WhyInv /\ MainInv
      /\ EachBatchOnce /\ StopsPulling /\ DeadlineStopsPulling
  BY DEF LoadInv
<1>2. TypeOK'
  BY <1>1, TypeStep
<1>3. IteratorInv' /\ EachBatchOnce'
  BY <1>1, IteratorStep
<1>4. LateInv' /\ StopsPulling' /\ DeadlineStopsPulling'
  BY <1>1, LateStep
<1>5. AccountInv'
  BY <1>1, AccountStep
<1>6. WhyInv'
  BY <1>1, WhyStep
<1>7. MainInv'
  BY <1>1, MainStep
<1>8. QED
  BY <1>2, <1>3, <1>4, <1>5, <1>6, <1>7 DEF LoadInv

\* The inductive invariant of a load.
THEOREM LoadInvariant == Spec => []LoadInv
<1>1. LoadInv /\ [Next]_vars => LoadInv'
  BY LoadInvStep
<1>2. QED
  BY LoadInvInit, <1>1, PTL DEF Spec

\* No batch is handed to two workers or to one of them twice.
THEOREM BatchesOnce == Spec => []EachBatchOnce
<1>1. LoadInv => EachBatchOnce
  BY DEF LoadInv
<1>2. QED
  BY LoadInvariant, <1>1, PTL

\* Once a worker has failed at most one more batch leaves the iterator,
\* however many workers there are.
THEOREM FailureStopsPulling == Spec => []StopsPulling
<1>1. LoadInv => StopsPulling
  BY DEF LoadInv
<1>2. QED
  BY LoadInvariant, <1>1, PTL

\* After the deadline of a cloud insert no worker takes two batches.
THEOREM DeadlineBoundsPulling == Spec => []DeadlineStopsPulling
<1>1. LoadInv => DeadlineStopsPulling
  BY DEF LoadInv
<1>2. QED
  BY LoadInvariant, <1>1, PTL

\* The two together: neither a failure nor the deadline (concurrent_runner.py
\* 161-171) leaves the workers pulling.
THEOREM PullingStops == Spec => []EndsStopPulling
<1>1. StopsPulling /\ DeadlineStopsPulling => EndsStopPulling
  BY DEF EndsStopPulling
<1>. QED
  BY <1>1, FailureStopsPulling, DeadlineBoundsPulling, PTL

\* A count returned is the count of what the database has, and of the whole
\* dataset unless the load was cut short.  No worker can have raised, so
\* each is done for one of the other two reasons and holds no batch.
LEMMA CountIsSound == LoadInv => ReturnedMeansLoaded
<1> SUFFICES ASSUME LoadInv, outcome = "count"
             PROVE  /\ count \subseteq whole
                    /\ stored \subseteq count
                    /\ ~expired => count = Batches
  BY DEF ReturnedMeansLoaded
<1>1. /\ Counts /\ errors = <<>> /\ waiting > NumWorkers
      /\ count = UNION {total[w] : w \in Workers}
  BY DEF LoadInv, MainInv, Counts
<1>2. \A w \in Workers : w < waiting
  BY <1>1 DEF LoadInv, TypeOK
<1>3. \A w \in Workers : pc[w] = "done"
  BY <1>1, <1>2 DEF LoadInv, WhyInv
<1>4. ~stop
  BY <1>1, <1>3 DEF LoadInv, WhyInv
<1>5. \A w \in Workers : Holds(w) = total[w]
  BY <1>3 DEF LoadInv, IteratorInv, Holds
<1>6. count \subseteq whole
  BY <1>1 DEF LoadInv, AccountInv
<1>7. \A b : (\E w \in Workers : b \in Holds(w)) => b \in count
  BY <1>1, <1>5
<1>8. stored \subseteq count
  BY <1>1, <1>7 DEF LoadInv, AccountInv
<1>9. ASSUME ~expired PROVE count = Batches
  <2>1. 1 \in Workers
    OBVIOUS
  <2>2. Exhausted
    BY <1>1, <1>3, <1>4, <1>9, <2>1 DEF LoadInv, WhyInv
  <2>3. \A b \in Batches : b \in 1..(next - 1) /\ b # prefetched
    BY <2>2 DEF Exhausted, LoadInv, TypeOK
  <2>4. Batches \subseteq count
    BY <1>1, <1>4, <1>7, <2>3 DEF LoadInv, AccountInv
  <2>5. count \subseteq Batches
    BY DEF LoadInv, TypeOK
  <2>6. QED
    BY <2>4, <2>5
<1>10. QED
  BY <1>6, <1>8, <1>9

\* The result of a load can be trusted, for any number of workers, batches
\* and retries.
THEOREM CountCanBeTrusted == Spec => []ReturnedMeansLoaded
<1>1. LoadInv => ReturnedMeansLoaded
  BY CountIsSound
<1>2. QED
  BY LoadInvariant, <1>1, PTL

\* Nothing is inserted after the load has ended, by count, error or timeout.
THEOREM EndIsTheEnd == Spec => NothingAfterTheEnd
<1>1. LoadInv /\ [Next]_vars => [main = "ended" => UNCHANGED database]_vars
  <2> SUFFICES ASSUME LoadInv, [Next]_vars, main = "ended" PROVE UNCHANGED database
    OBVIOUS
  <2>1. UNCHANGED vars
    BY EndIsFinal DEF LoadInv
  <2>2. QED
    BY <2>1 DEF vars, database
<1>2. QED
  BY LoadInvariant, <1>1, PTL DEF Spec, NothingAfterTheEnd

===============================================================================
