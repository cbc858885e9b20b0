------------------------------ MODULE DatasetCase ------------------------------
(*******************************************************************************)
(* From the files of a dataset to the rows a database is sent: CaseRunner._pre_run  *)
(* (backend/task_runner.py), the managers and iterators of backend/dataset.py and     *)
(* the readers of backend/data_source.py.  A full text case prepares its corpus        *)
(* before the old collection is dropped; a vector case drops it first and downloads     *)
(* and validates its files afterwards.  The process may die and the case be run again;   *)
(* the files and the collection stay.                                                      *)
(*******************************************************************************)
EXTENDS FtsCorpus

CONSTANTS
  NumFiles,    \* train files of a Parquet dataset
  MaxRows,     \* rows of a file
  BatchSize,   \* insert_batch_size
  MaxFaults,   \* failures and crashes: a bound of the model
  MaxRuns      \* runs of the case: a bound of the model

\* The file of the queries and ground truth of a Parquet dataset is number 0.
QueryFile == 0
Files == QueryFile .. NumFiles

FtsCases ==
  [corpus : {"fts"}, qrels : [Queries -> SUBSET (Docs \cup {Missing})], cap : Docs,
   threshold : {-1} \cup 0 .. NumDocs, load : {"yes", "no"}, serial : {"yes", "no"}]

\* A vector case: how its files come and what they hold.  k is the depth that is asked for,
\* within the published ground truth or not; a dataset publishes a width or has it read
\* from the file.
VectorCases ==
  [corpus : {"parquet", "hdf5"}, source : {"sized", "hub", "local"},
   rows : [1 .. NumFiles -> 0 .. MaxRows], k : {"within", "beyond"},
   widths : {"published", "read"}, content : {"sound", "unsound"}, load : {"yes", "no"}]

\* Only datasets of the largest size are filtered (-1 is no filter), and rates give thresholds
\* within the size; HDF5 datasets have one file, come from a hub, and publish their width.
IsCase(c) ==
  IF c.corpus = "fts" THEN c.threshold = -1 \/ c.cap = NumDocs
  ELSE c.corpus = "hdf5" =>
         /\ c.source # "sized" /\ c.widths = "published"
         /\ \A f \in 2 .. NumFiles : c.rows[f] = 0

ASSUME DatasetAssumption ==
  /\ NumDocs \in Nat \ {0} /\ NumFiles \in Nat \ {0} /\ MaxRows \in Nat
  /\ BatchSize \in Nat \ {0} /\ MaxFaults \in Nat /\ MaxRuns \in Nat

VARIABLES
  case,      \* the case
  disk,      \* the local files: absent, torn or whole
  todo,      \* the files the reader has still to download
  ir,        \* FTS: whether the corpus, its queries and the recall data are loaded
  kept,      \* FTS: the capped documents that were written down, if any
  ids,       \* FTS: qrel_filter_ids
  truth,     \* FTS: recall_gt_data
  old,       \* whether the collection of an earlier load is there
  rows,      \* the rows the database was sent since it was dropped
  at,        \* the iterator: the file it has open, and the rows read from it
  phase,
  lost,      \* whether an error ended a pass over the corpus
  faults, runs

memory == <<todo, ir, kept, ids, truth, at>>
caseVars == <<case, disk, memory, old, rows, phase, lost, faults, runs>>

NoTruth == [q \in {} |-> {}]
NoIds == [d \in {} |-> 0]

Vector == case.corpus # "fts"
Ended == {"raised", "crashed", "done"}

-------------------------------------------------------------------------------
Start == IF case.corpus = "fts" THEN "load_ir" ELSE "resolve_k"

CaseInit ==
  /\ case \in {c \in FtsCases \cup VectorCases : IsCase(c)}
  /\ disk \in IF case.corpus = "fts" THEN {[f \in Files |-> "absent"]}
              ELSE IF case.source = "local" THEN [Files -> {"absent", "torn", "whole"}]
              ELSE {[f \in Files |-> "absent"]}
  /\ todo = {} /\ ir = "none" /\ kept = <<>> /\ ids = NoIds /\ truth = NoTruth
  /\ at = [file |-> 1, row |-> 0] /\ old = "there" /\ rows = <<>> /\ phase = Start
  /\ lost = "no" /\ faults = 0 /\ runs = 1

Fault == faults < MaxFaults /\ faults' = faults + 1

RaiseError == phase' = "raised"

-------------------------------------------------------------------------------
(* FTS: prepare, of which _pre_run ignores the result.                           *)

\* A failure that is no TypeError or ValueError is logged, and prepare returns False.
GiveUpPreparing == Fault /\ (phase' = "init_db" \/ RaiseError)

LoadIr ==
  /\ phase = "load_ir"
  /\ \/ /\ UNCHANGED faults
        /\ IF Positive(case.qrels) = {} THEN RaiseError /\ UNCHANGED ir
           ELSE phase' = "materialise" /\ ir' = "queries"
     \/ GiveUpPreparing /\ ir' \in {"none", "loaded"}
  /\ UNCHANGED <<case, disk, todo, kept, ids, truth, at, old, rows, lost, runs>>

Materialise ==
  /\ phase = "materialise"
  /\ \/ /\ CapRefused(Required(case.qrels), case.cap) /\ RaiseError
        /\ UNCHANGED <<kept, faults>>
     \/ /\ ~CapRefused(Required(case.qrels), case.cap) /\ phase' = "filter"
        /\ kept' = IF case.cap = NumDocs THEN <<>> ELSE Materialised(Required(case.qrels), case.cap)
        /\ UNCHANGED faults
     \/ case.cap # NumDocs /\ GiveUpPreparing /\ UNCHANGED kept
  /\ UNCHANGED <<case, disk, todo, ir, ids, truth, at, old, rows, lost, runs>>

Stream == IF kept # <<>> THEN kept ELSE Corpus

\* One pass gives the qrel documents their ids; a document without one is refused.
ApplyFilter ==
  /\ phase = "filter"
  /\ \/ /\ case.threshold = -1 /\ truth' = [q \in Positive(case.qrels) |-> case.qrels[q]]
        /\ ir' = "ready" /\ phase' = "init_db" /\ UNCHANGED <<ids, faults>>
     \/ /\ case.threshold # -1
        /\ \E upto \in 0 .. Len(Stream) :
             /\ IF upto = Len(Stream) THEN UNCHANGED faults ELSE Fault
             /\ ids' = QrelIds(Required(case.qrels), Cut(Stream, upto), case.cap)
             /\ IF Required(case.qrels) \subseteq DOMAIN ids'
                THEN /\ phase' = "init_db" /\ truth' = Filtered(case.qrels, ids', case.threshold)
                     /\ ir' = IF DOMAIN truth' = {} THEN "skipped" ELSE "ready"
                ELSE RaiseError /\ UNCHANGED <<truth, ir>>
  /\ UNCHANGED <<case, disk, todo, kept, at, old, rows, lost, runs>>

-------------------------------------------------------------------------------
(* Vector: prepare, after init_db.                                               *)

\* Datasets that publish the width of their ground truth refuse a depth beyond it at once.
ResolveK ==
  /\ phase = "resolve_k"
  /\ IF case.widths = "published" /\ case.k = "beyond" THEN RaiseError ELSE phase' = "init_db"
  /\ UNCHANGED <<case, disk, memory, old, rows, lost, faults, runs>>

InitDb ==
  /\ phase = "init_db"
  /\ old' = IF case.load = "yes" THEN "dropped" ELSE old
  /\ rows' = IF case.load = "yes" THEN <<>> ELSE rows
  /\ phase' = IF Vector THEN "read" ELSE IF case.load = "yes" THEN "load" ELSE "search"
  /\ UNCHANGED <<case, disk, memory, lost, faults, runs>>

Needed ==
  IF case.corpus = "hdf5" THEN {1}
  ELSE {QueryFile} \cup (IF case.load = "yes" THEN 1 .. NumFiles ELSE {})

\* Mutant: a file that is there is taken for complete.
CompleteIfThere(f) == disk[f] # "absent"

\* validate_file: S3 and OSS compare sizes, a hub keeps what it downloaded completely, a custom dataset is
\* taken as it is.
Complete(f) == disk[f] = "whole"

ListDownloads ==
  /\ phase = "read"
  /\ todo' = IF case.source = "local" THEN {} ELSE {f \in Needed : ~Complete(f)}
  /\ phase' = "download"
  /\ UNCHANGED <<case, disk, ir, kept, ids, truth, at, old, rows, lost, faults, runs>>

InOrder(f) == \A g \in todo : f <= g

Interrupted(f) == disk' = [disk EXCEPT ![f] = IF case.source = "sized" THEN "torn" ELSE @]

Download(f) ==
  /\ phase = "download" /\ f \in todo /\ InOrder(f)
  /\ disk' = [disk EXCEPT ![f] = "whole"] /\ todo' = todo \ {f}
  /\ UNCHANGED <<case, ir, kept, ids, truth, at, old, rows, phase, lost, faults, runs>>

DownloadFails(f) ==
  /\ phase = "download" /\ f \in todo /\ InOrder(f) /\ Fault /\ RaiseError
  /\ Interrupted(f)
  /\ UNCHANGED <<case, memory, old, rows, lost, runs>>

\* Selectors are resolved, the queries and the ground truth read and validated; HDF5 has
\* the shape of the corpus validated too.
Validate ==
  /\ phase = "download" /\ todo = {}
  /\ IF \/ \E f \in Needed : disk[f] = "absent"
        \/ \E f \in Needed : (f = QueryFile \/ case.corpus = "hdf5") /\ disk[f] = "torn"
        \/ case.k = "beyond" \/ case.content = "unsound"
     THEN RaiseError
     ELSE phase' = IF case.load = "yes" THEN "load" ELSE "search"
  /\ UNCHANGED <<case, disk, memory, old, rows, lost, faults, runs>>

-------------------------------------------------------------------------------
(* Loading: batches in the order of the iterator.                                *)

\* FTS documents carry an id when a filter was applied; an error ends the stream and is
\* taken for its end.
LoadDocuments ==
  /\ phase = "load" /\ ~Vector
  /\ IF ir = "none" THEN RaiseError /\ UNCHANGED <<rows, faults, lost>>
     ELSE \E upto \in 0 .. Len(Stream) :
            /\ IF upto = Len(Stream) THEN UNCHANGED <<faults, lost>> ELSE Fault /\ lost' = "yes"
            /\ rows' = Numbered(Cut(Stream, upto), case.cap)
            /\ phase' = "search"
  /\ UNCHANGED <<case, disk, memory, old, runs>>

RowsOf(f) == case.rows[f]
LastFile == IF case.corpus = "hdf5" THEN 1 ELSE NumFiles

Batch(f, from) ==
  LET upto == IF from + BatchSize < RowsOf(f) THEN from + BatchSize ELSE RowsOf(f)
  IN  [n \in 1 .. upto - from |-> [item |-> <<f, from + n>>, id |-> 0]]

\* Mutant: a torn file is taken for the end of the data.
ReadFromTorn(f, from) ==
  IF disk[f] # "whole" THEN phase' = "search" /\ UNCHANGED <<rows, at>>
  ELSE /\ rows' = rows \o Batch(f, from)
       /\ at' = [file |-> f, row |-> from + Len(Batch(f, from))]
       /\ UNCHANGED phase

\* Read a batch of a file, which must not be torn.
ReadFrom(f, from) ==
  IF disk[f] # "whole" THEN RaiseError /\ UNCHANGED <<rows, at>>
  ELSE /\ rows' = rows \o Batch(f, from)
       /\ at' = [file |-> f, row |-> from + Len(Batch(f, from))]
       /\ UNCHANGED phase

Stop == phase' = "search" /\ UNCHANGED <<rows, at>>

\* ParquetDatasetIterator.__next__ and Hdf5DatasetIterator.__next__.
ReadNext ==
  /\ phase = "load" /\ Vector
  /\ IF at.row < RowsOf(at.file) \/ disk[at.file] # "whole" THEN ReadFrom(at.file, at.row)
     ELSE IF at.file = LastFile THEN Stop
     ELSE IF disk[at.file + 1] = "whole" /\ RowsOf(at.file + 1) = 0 THEN Stop
     ELSE ReadFrom(at.file + 1, 0)
  /\ UNCHANGED <<case, disk, todo, ir, kept, ids, truth, old, lost, faults, runs>>

\* A full text case needs its queries, and for recall its ground truth.
Search ==
  /\ phase = "search"
  /\ IF ~Vector /\ \/ ir \in {"none", "loaded"}
                   \/ case.serial = "yes" /\ ir = "queries"
     THEN RaiseError
     ELSE phase' = "done"
  /\ UNCHANGED <<case, disk, memory, old, rows, lost, faults, runs>>

-------------------------------------------------------------------------------
Crash ==
  /\ phase \notin Ended /\ Fault /\ phase' = "crashed"
  /\ IF phase = "download" /\ todo # {} THEN \E f \in todo : InOrder(f) /\ Interrupted(f)
     ELSE UNCHANGED disk
  /\ UNCHANGED <<case, memory, old, rows, lost, runs>>

\* The same case is run again, in a process of its own.
Rerun ==
  /\ phase \in Ended /\ runs < MaxRuns /\ runs' = runs + 1
  /\ phase' = Start /\ lost' = "no"
  /\ todo' = {} /\ ir' = "none" /\ kept' = <<>> /\ ids' = NoIds /\ truth' = NoTruth
  /\ at' = [file |-> 1, row |-> 0]
  /\ UNCHANGED <<case, disk, old, rows, faults>>

Step ==
  \/ LoadIr \/ Materialise \/ ApplyFilter \/ ResolveK \/ InitDb \/ ListDownloads
  \/ \E f \in Files : Download(f) \/ DownloadFails(f)
  \/ Validate \/ LoadDocuments \/ ReadNext \/ Search

AllOver == phase \in Ended /\ UNCHANGED caseVars

CaseNext == Step \/ Crash \/ Rerun \/ AllOver

CaseSpec == CaseInit /\ [][CaseNext]_caseVars

FairCaseSpec == CaseSpec /\ WF_caseVars(Step) /\ WF_caseVars(Rerun)

-------------------------------------------------------------------------------
Items == [n \in DOMAIN rows |-> rows[n].item]

\* Recall is measured over the documents this run has sent.
RecallMeasured == phase = "done" /\ ~Vector /\ case.load = "yes" /\ case.serial = "yes" /\ ir = "ready"

\* Recall of a capped corpus is measured with every document the qrels name in the database,
\* in a corpus of the size the case names; an uncapped corpus without a filter is taken as it
\* is, and an error in the corpus stream during the load shortens it unnoticed.
CorpusHoldsEveryQrel ==
  (RecallMeasured /\ lost = "no" /\ (case.cap # NumDocs \/ case.threshold # -1))
    => /\ Required(case.qrels) \subseteq Range(Items)
       /\ Cardinality(Range(Items)) = case.cap /\ Len(rows) = case.cap

\* The filter of the database and the filtered ground truth agree: the documents a query is
\* to find are the relevant ones whose id in the database passes the threshold, and
\* matched_doc_count is the number of documents that pass.
FilteredTruthIsFair ==
  (RecallMeasured /\ lost = "no" /\ case.threshold # -1)
    => LET Passing == {rows[n].item : n \in {m \in DOMAIN rows : rows[m].id >= case.threshold}}
       IN  /\ Cardinality(Passing) = case.cap - case.threshold
           /\ DOMAIN truth = {q \in Queries : case.qrels[q] \cap Passing # {}}
           /\ \A q \in DOMAIN truth : truth[q] = case.qrels[q] \cap Passing

\* Recall is fair: what a query is to find is in the database, and passes its filter.
RecallIsFair == CorpusHoldsEveryQrel /\ FilteredTruthIsFair

\* What the vector case is to send: every row of its files, file after file and row after row.
CorpusRows == {place \in (1 .. LastFile) \X (1 .. MaxRows) : place[2] <= RowsOf(place[1])}

Before(a, b) == a[1] < b[1] \/ (a[1] = b[1] /\ a[2] < b[2])

\* A vector load that ends has sent every row once, in order, whatever downloads were broken
\* off before, unless a file after the first is empty; the old rows went before the first.
WholeCorpusSent ==
  (Vector /\ phase = "search" /\ case.load = "yes" /\ \A f \in 2 .. LastFile : RowsOf(f) > 0)
    => /\ Range(Items) = CorpusRows
       /\ \A i, j \in DOMAIN Items : i < j => Before(Items[i], Items[j])
       /\ old = "dropped"

\* A download that was broken off is repaired by the next run: in the end a run finishes the
\* case, when its configuration and data are sound and something is left to fail.
CaseIsFinished ==
  (Vector /\ case.source # "local" /\ case.k = "within" /\ case.content = "sound")
    => <>(phase = "done" \/ (runs = MaxRuns /\ faults = MaxFaults))

===============================================================================
