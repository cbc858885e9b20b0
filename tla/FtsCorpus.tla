------------------------------- MODULE FtsCorpus -------------------------------
(*******************************************************************************)
(* What the passes of FtsDatasetManager (backend/dataset.py) over an ir_datasets   *)
(* corpus return: the documents a capped corpus keeps, the filter ids they are       *)
(* given, and the ground truth that is left under an integer filter.  Documents are   *)
(* numbered in the order of the corpus.                                                *)
(*******************************************************************************)
EXTENDS Integers, Sequences, FiniteSets, Functions

CONSTANTS
  NumDocs,   \* documents of the corpus, the largest size a dataset can be asked for
  Queries    \* its queries

Docs == 1 .. NumDocs

\* A document the qrels name and the corpus does not have.
Missing == NumDocs + 1

Corpus == [d \in Docs |-> d]

Required(qrels) == UNION Range(qrels)

-------------------------------------------------------------------------------
(* The capped corpus.                                                            *)

\* Every qrel document, and the first others up to the cap.
Kept(required, cap) ==
  LET Fillers(d) == Cardinality((1 .. d) \ required)
  IN  {d \in Docs : d \in required \/ Fillers(d) <= cap - Cardinality(required)}

\* They are written down in the order of the corpus.
Materialised(required, cap) ==
  LET kept == Kept(required, cap)
  IN  [n \in 1 .. Cardinality(kept) |->
         CHOOSE d \in kept : Cardinality({e \in kept : e <= d}) = n]

\* What _prepare_qrel_preserving_documents refuses.
CapRefused(required, cap) ==
  cap # NumDocs /\ \/ Cardinality(required) > cap
                   \/ Missing \in required
                   \/ Cardinality(Kept(required, cap)) # cap

-------------------------------------------------------------------------------
(* Filter ids: an affine permutation of the positions of the documents.          *)

Coprime(a, b) == \A d \in 2 .. b : a % d # 0 \/ b % d # 0

\* size * 0x9E3779B97F4A7C15 >> 64, for sizes of a few thousands at most.
GoldenPart(size) == (size * 618034) \div 1000000

Multiplier(size) ==
  LET first == IF GoldenPart(size) > 1 THEN GoldenPart(size) ELSE 1
      From(least) == {m \in least .. size - 1 : Coprime(m, size)}
      next == IF From(first) # {} THEN From(first) ELSE From(1)
  IN  IF size = 1 THEN 1 ELSE CHOOSE m \in next : \A n \in next : m <= n

\* 0xD1B54A32D192ED03 % size, from its parts of 16 bits.
Offset(size) ==
  LET Append16(rest, part) == (rest * 65536 + part) % size
  IN  IF size = 1 THEN 0
      ELSE Append16(Append16(Append16(53685 % size, 18994), 53650), 60675)

\* The id of the document at an ordinal: FtsFilterIdPermutation.map.
FilterId(size, ordinal) == (Multiplier(size) * ordinal + Offset(size)) % size

\* The documents of a stream, up to the size, with their ids.
Numbered(stream, size) ==
  [n \in 1 .. (IF Len(stream) < size THEN Len(stream) ELSE size) |->
     [item |-> stream[n], id |-> FilterId(size, n - 1)]]

\* An error in the corpus iterator ends it: what comes before is all that is seen.
Cut(stream, at) == SubSeq(stream, 1, at)

-------------------------------------------------------------------------------
(* Ground truth under an integer filter.                                         *)

\* Mutant: the ids are those of ordinals that count from 1.
QrelIdsFromOne(required, stream, size) ==
  LET met == {n \in DOMAIN Numbered(stream, size) : stream[n] \in required}
  IN  [d \in {stream[n] : n \in met} |-> FilterId(size, CHOOSE n \in met : stream[n] = d)]

\* filter_id of the qrel documents that a pass met.
QrelIds(required, stream, size) ==
  LET met == {n \in DOMAIN Numbered(stream, size) : stream[n] \in required}
  IN  [d \in {stream[n] : n \in met} |->
         Numbered(stream, size)[CHOOSE n \in met : stream[n] = d].id]

Positive(qrels) == {q \in Queries : qrels[q] # {}}

\* The queries that keep a relevant document, with the documents they keep.
Filtered(qrels, ids, threshold) ==
  LET kept == [q \in Queries |-> {d \in qrels[q] : d \in DOMAIN ids /\ ids[d] >= threshold}]
  IN  [q \in Positive(kept) |-> kept[q]]

===============================================================================
