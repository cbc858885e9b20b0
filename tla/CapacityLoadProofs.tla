-------------------------- MODULE CapacityLoadProofs --------------------------
(*******************************************************************************)
(* Proofs about CapacityLoad: for every client a profile can describe, every      *)
(* size of a round and of the database, and any number of attempts and faults      *)
(*******************************************************************************)
EXTENDS CapacityLoad, FiniteSetTheorems, TLAPS

-------------------------------------------------------------------------------
(* The inductive invariant                                                       *)

\* The rows of the round that are in the database.
Kept == {r \in Rows : total <= r /\ r < total + BatchSize /\ copies[r] > 0}

RoundInv ==
  /\ pc = "insert" => total + BatchSize <= BatchSize * MaxRounds /\ tries < MaxTry
  /\ pc = "insert" /\ client.insert.counts # "chunks" => already <= BatchSize
  /\ client.insert.after = "usable" => conn # "aborted"
  /\ conn = "lost" => pc = "reported"
  /\ client.insert.again # "add" => \A r \in Rows : copies[r] <= 1

\* The rows counted are there: those of the rounds before, and of this round the first
\* ones, or, where a row that is there is never written again, as many.
CountedInv ==
  Counts(client) =>
    /\ \A r \in Rows : r < total => copies[r] > 0
    /\ pc = "insert" =>
         /\ client.insert.again \in {"once", "add"}
              => \A r \in Rows : r < total + already => copies[r] > 0
         /\ client.insert.again \in {"skip", "refuse"} => already <= Cardinality(Kept)
    /\ pc = "close" => \A r \in Rows : r < total + already => copies[r] > 0

\* Without a fault an attempt fails for want of room only.
RoomInv ==
  Resends(client) =>
    /\ limit - Used < BatchSize \/ tries <= faults
    /\ pc = "reported" /\ conn # "lost" => limit - Used < BatchSize \/ tries = MaxTry

CapacityInv == TypeOK /\ RoundInv /\ CountedInv /\ RoomInv

-------------------------------------------------------------------------------
(* Rows                                                                          *)

LEMMA RowsType ==
  \E m \in Nat : m = BatchSize * MaxRounds /\ Rows = 0 .. m - 1 /\ IsFiniteSet(Rows)
<1>1. PICK m \in Nat : m = BatchSize * MaxRounds
  BY CapacityAssumption
<1>2. IsFiniteSet(0 .. m - 1)
  BY <1>1, FS_Interval
<1> QED
  BY <1>1, <1>2 DEF Rows

\* Rows in a row, and how many they are.
LEMMA Interval ==
  ASSUME NEW a \in Nat, NEW b \in Nat, NEW S, \A r : r \in S <=> r \in Nat /\ a <= r /\ r < b
  PROVE  /\ IsFiniteSet(S) /\ Cardinality(S) = IF a <= b THEN b - a ELSE 0
         /\ S \in SUBSET Nat
<1>1. S = a .. b - 1
  <2>1. \A r : r \in a .. b - 1 <=> r \in Nat /\ a <= r /\ r < b
    OBVIOUS
  <2>2. \A r : r \in S <=> r \in a .. b - 1
    BY <2>1, Zenon
  <2> QED
    BY <2>2, Zenon
<1>2. a \in Int /\ b - 1 \in Int
  OBVIOUS
<1>3. IsFiniteSet(a .. b - 1)
      /\ Cardinality(a .. b - 1) = IF a > b - 1 THEN 0 ELSE b - 1 - a + 1
  BY <1>2, FS_Interval
<1> QED
  BY <1>1, <1>3

\* What an attempt of a round sends: the rows from the first that is not counted on.
LEMMA ToSendRows ==
  ASSUME TypeOK, total + BatchSize <= BatchSize * MaxRounds
  PROVE  /\ ToSend \in SUBSET Rows /\ IsFiniteSet(ToSend) /\ Cardinality(ToSend) \in Nat
         /\ Cardinality(ToSend) <= BatchSize
         /\ already <= BatchSize => already + Cardinality(ToSend) = BatchSize
<1>1. PICK m \in Nat : m = BatchSize * MaxRounds /\ Rows = 0 .. m - 1
  BY RowsType
<1>2. total \in Nat /\ already \in Nat /\ BatchSize \in Nat
  BY CapacityAssumption DEF TypeOK
<1>3. PICK a \in Nat, b \in Nat : a = total + already /\ b = total + BatchSize
  BY <1>2
<1>4. \A r : r \in ToSend <=> r \in Nat /\ a <= r /\ r < b
  BY <1>1, <1>3 DEF ToSend
<1>5. IsFiniteSet(ToSend) /\ Cardinality(ToSend) = IF a <= b THEN b - a ELSE 0
  BY <1>4, Interval
<1>6. ToSend \in SUBSET Rows
  BY DEF ToSend
<1> QED
  BY <1>2, <1>3, <1>5, <1>6

-------------------------------------------------------------------------------
(* What an attempt leaves                                                        *)

LEMMA WrittenRows ==
  ASSUME NEW p \in Insertions, NEW c \in [Rows -> 0 .. MaxCopies], NEW w \in SUBSET Rows
  PROVE  /\ Written(p, c, w) \in [Rows -> 0 .. MaxCopies]
         /\ \A r \in Rows :
              /\ r \notin w => Written(p, c, w)[r] = c[r]
              /\ r \in w => Written(p, c, w)[r] >= 1
              /\ Written(p, c, w)[r] <= c[r] + 1
              /\ p.again # "add" => (c[r] <= 1 => Written(p, c, w)[r] <= 1)
              /\ p.again = "add" \/ c[r] <= 1 => c[r] <= Written(p, c, w)[r]
BY CapacityAssumption, SMTT(30) DEF Written, Least

\* An answer a of an attempt that sent rows: the rows w it wrote, and how it counts them.
Wrote(p, c, sent, a, w) ==
  /\ w \in SUBSET sent /\ a.copies = Written(p, c, w) /\ a.count \in Nat
  /\ p.counts # "chunks" => a.count <= Cardinality(sent)
  /\ a.ok => /\ p.counts # "chunks" => a.count = Cardinality(sent)
             /\ ~p.quiet => w = sent
             /\ ~p.quiet /\ p.again \in {"skip", "refuse"} => There(c, sent) = {}
  /\ ~a.ok => /\ p.counts \in {"none", "prefix", "written"} => a.count <= Cardinality(w)
              /\ p.again \in {"skip", "refuse"} => w \cap There(c, sent) = {}
              /\ p.again \in {"once", "add"} =>
                   /\ p.counts = "none" => a.count = 0
                   /\ p.leaves # "any" => w = {} \/ w = sent \/ \E r \in sent : w = Before(sent, r)

\* Whole chunks are a number of rows.
LEMMA ChunkType ==
  ASSUME NEW n \in Nat
  PROVE  Chunk * (n \div Chunk) \in Nat /\ Chunk * ((n + Chunk - 1) \div Chunk) \in Nat
<1>1. Chunk \in Nat \ {0}
  BY CapacityAssumption
<1>2. \A k \in Nat : k \div Chunk \in Nat
  BY <1>1
<1>3. n \div Chunk \in Nat /\ (n + Chunk - 1) \div Chunk \in Nat
  BY <1>1, <1>2
<1>4. \A k \in Nat : Chunk * k \in Nat
  BY <1>1
<1> QED
  BY <1>3, <1>4

LEMMA OkCountType ==
  ASSUME NEW p \in Insertions, NEW sent, Cardinality(sent) \in Nat
  PROVE  /\ OkCount(p, sent) \in Nat
         /\ p.counts # "chunks" => OkCount(p, sent) = Cardinality(sent)
BY ChunkType DEF OkCount

LEMMA ErrorCountsType ==
  ASSUME NEW p \in Insertions, NEW sent, IsFiniteSet(sent), NEW w \in SUBSET sent,
         NEW n \in ErrorCounts(p, sent, w)
  PROVE  /\ n \in Nat
         /\ p.counts # "chunks" => n <= Cardinality(sent)
         /\ p.counts \in {"none", "prefix", "written"} => n <= Cardinality(w)
         /\ p.counts = "none" => n = 0
<1>1. PICK s \in Nat, k \in Nat : s = Cardinality(sent) /\ k = Cardinality(w) /\ k <= s
  BY FS_Subset, FS_CardinalityType
<1>2. p.counts \in {"none", "prefix", "any", "sent", "written", "chunks"}
  BY DEF Insertions
<1>3. CASE p.counts = "none"
  BY <1>1, <1>3 DEF ErrorCounts
<1>4. CASE p.counts = "prefix"
  BY <1>1, <1>4 DEF ErrorCounts
<1>5. CASE p.counts = "any"
  BY <1>1, <1>5 DEF ErrorCounts
<1>6. CASE p.counts = "sent"
  BY <1>1, <1>6 DEF ErrorCounts
<1>7. CASE p.counts = "written"
  BY <1>1, <1>7 DEF ErrorCounts
<1>8. CASE p.counts = "chunks"
  <2>1. n \in {Chunk * (k \div Chunk), Chunk * ((k + Chunk - 1) \div Chunk)}
    BY <1>1, <1>8 DEF ErrorCounts
  <2> QED
    BY <1>1, <1>8, <2>1, ChunkType
<1> QED
  BY <1>2, <1>3, <1>4, <1>5, <1>6, <1>7, <1>8

LEMMA FailingRows ==
  ASSUME NEW p \in Insertions, NEW c \in [Rows -> 0 .. MaxCopies], NEW sent \in SUBSET Rows,
         IsFiniteSet(sent), NEW a \in Failing(p, c, sent)
  PROVE  ~a.ok /\ \E w : Wrote(p, c, sent, a, w)
<1>1. PICK w \in Partial(p, c, sent) : \E n \in ErrorCounts(p, sent, w) :
        a = [copies |-> Written(p, c, w), count |-> n, ok |-> FALSE]
  BY DEF Failing
<1>0. PICK n \in ErrorCounts(p, sent, w) :
        a = [copies |-> Written(p, c, w), count |-> n, ok |-> FALSE]
  BY <1>1
<1>2. /\ w \in SUBSET Writable(p, c, sent)
      /\ w = {} \/ w = sent \/ p.leaves = "any" \/ (\E r \in sent : w = Before(sent, r))
  BY <1>1 DEF Partial
<1>3. w \in SUBSET sent /\ (p.again \in {"skip", "refuse"} => w \cap There(c, sent) = {})
  BY <1>2 DEF Writable
<1>4. /\ n \in Nat
      /\ p.counts # "chunks" => n <= Cardinality(sent)
      /\ p.counts \in {"none", "prefix", "written"} => n <= Cardinality(w)
      /\ p.counts = "none" => n = 0
  BY <1>0, <1>3, ErrorCountsType
<1>5. ~a.ok /\ a.copies = Written(p, c, w) /\ a.count = n
  BY <1>0
<1>6. Wrote(p, c, sent, a, w)
  BY <1>2, <1>3, <1>4, <1>5 DEF Wrote
<1> QED
  BY <1>5, <1>6

LEMMA AnswerRows ==
  ASSUME NEW p \in Insertions, NEW c \in [Rows -> 0 .. MaxCopies], NEW sent \in SUBSET Rows,
         IsFiniteSet(sent), NEW a \in Undisturbed(p, c, sent) \cup Faulty(p, c, sent)
  PROVE  \E w : Wrote(p, c, sent, a, w)
<1>1. Cardinality(sent) \in Nat
  BY FS_CardinalityType
<1>2. CASE a \in Failing(p, c, sent)
  BY <1>2, FailingRows
<1>3. CASE ~Blocked(p, c, sent)
           /\ a = [copies |-> Written(p, c, sent), count |-> OkCount(p, sent), ok |-> TRUE]
  <2>1. a.ok /\ a.copies = Written(p, c, sent) /\ a.count = OkCount(p, sent)
    BY <1>3
  <2>2. p.again \in {"skip", "refuse"} => There(c, sent) = {}
    BY <1>3 DEF Blocked
  <2>3. Wrote(p, c, sent, a, sent)
    BY <1>1, <2>1, <2>2, OkCountType DEF Wrote
  <2> QED
    BY <2>3
<1>4. CASE Blocked(p, c, sent) /\ p.again = "skip"
           /\ a = [copies |-> Written(p, c, Writable(p, c, sent)),
                   count |-> Cardinality(Writable(p, c, sent)), ok |-> FALSE]
  <2> DEFINE w == Writable(p, c, sent)
  <2>1. ~a.ok /\ a.copies = Written(p, c, w) /\ a.count = Cardinality(w)
    BY <1>4
  <2>2. w \in SUBSET sent /\ w \cap There(c, sent) = {}
    BY <1>4 DEF Writable
  <2>3. Cardinality(w) \in Nat /\ Cardinality(w) <= Cardinality(sent)
    BY <2>2, FS_Subset, FS_CardinalityType
  <2>4. Wrote(p, c, sent, a, w)
    BY <1>4, <2>1, <2>2, <2>3 DEF Wrote
  <2> QED
    BY <2>4
<1>5. CASE p.quiet /\ \E w \in SUBSET sent :
             a = [copies |-> Written(p, c, w), count |-> OkCount(p, sent), ok |-> TRUE]
  <2>1. PICK w \in SUBSET sent :
          a = [copies |-> Written(p, c, w), count |-> OkCount(p, sent), ok |-> TRUE]
    BY <1>5
  <2>2. a.ok /\ a.copies = Written(p, c, w) /\ a.count = OkCount(p, sent)
    BY <2>1
  <2>3. Wrote(p, c, sent, a, w)
    BY <1>1, <1>5, <2>2, OkCountType DEF Wrote
  <2> QED
    BY <2>3
<1>6. CASE a \in Undisturbed(p, c, sent)
  <2>1. CASE Blocked(p, c, sent)
    BY <1>2, <1>4, <1>6, <2>1 DEF Undisturbed
  <2>2. CASE ~Blocked(p, c, sent)
    BY <1>3, <1>6, <2>2 DEF Undisturbed
  <2> QED
    BY <2>1, <2>2
<1> QED
  BY <1>2, <1>5, <1>6 DEF Faulty
-------------------------------------------------------------------------------
(* What is used                                                                  *)

LEMMA StoredType ==
  ASSUME NEW c
  PROVE  IsFiniteSet(Stored(c)) /\ Cardinality(Stored(c)) \in Nat
<1>1. IsFiniteSet(Rows) /\ IsFiniteSet(1 .. MaxCopies)
  BY RowsType, CapacityAssumption, FS_Interval
<1>2. IsFiniteSet(Rows \X (1 .. MaxCopies))
  BY <1>1, FS_Product
<1>3. Stored(c) \subseteq Rows \X (1 .. MaxCopies)
  BY DEF Stored
<1> QED
  BY <1>2, <1>3, FS_Subset, FS_CardinalityType

\* More copies of every row take no less room.
LEMMA StoredGrows ==
  ASSUME NEW c \in [Rows -> 0 .. MaxCopies], NEW d \in [Rows -> 0 .. MaxCopies],
         \A r \in Rows : c[r] <= d[r]
  PROVE  Cardinality(Stored(c)) <= Cardinality(Stored(d))
<1>1. Stored(c) \subseteq Stored(d)
  <2> SUFFICES ASSUME NEW r \in Rows, NEW k \in 1 .. MaxCopies, k <= c[r]
               PROVE  k <= d[r]
    BY DEF Stored
  <2>1. c[r] \in Nat /\ d[r] \in Nat /\ c[r] <= d[r]
    BY CapacityAssumption
  <2> QED
    BY <2>1
<1> QED
  BY <1>1, StoredType, FS_Subset

\* One more copy of each of some rows takes at most the room of as many rows.
LEMMA StoredMore ==
  ASSUME NEW c \in [Rows -> 0 .. MaxCopies], NEW d \in [Rows -> 0 .. MaxCopies],
         NEW sent \in SUBSET Rows, IsFiniteSet(sent),
         \A r \in Rows : d[r] <= c[r] + 1 /\ (r \notin sent => d[r] = c[r])
  PROVE  Cardinality(Stored(d)) <= Cardinality(Stored(c)) + Cardinality(sent)
<1> DEFINE new == {<<r, d[r]>> : r \in sent}
           f == [r \in sent |-> <<r, d[r]>>]
<1>1. IsFiniteSet(new) /\ Cardinality(new) <= Cardinality(sent)
  <2>1. f \in Surjection(sent, new)
    BY DEF Surjection
  <2> QED
    BY <2>1, FS_Surjection
<1>2. Stored(d) \subseteq Stored(c) \cup new
  <2> SUFFICES ASSUME NEW r \in Rows, NEW k \in 1 .. MaxCopies, k <= d[r], ~(k <= c[r])
               PROVE  r \in sent /\ k = d[r]
    BY DEF Stored
  <2>1. c[r] \in Nat /\ d[r] \in Nat /\ d[r] <= c[r] + 1 /\ (r \notin sent => d[r] = c[r])
    BY CapacityAssumption
  <2> QED
    BY <2>1
<1> HIDE DEF new
<1>3. IsFiniteSet(Stored(c) \cup new)
      /\ Cardinality(Stored(c) \cup new)
           = Cardinality(Stored(c)) + Cardinality(new) - Cardinality(Stored(c) \cap new)
  BY <1>1, StoredType, FS_Union
<1>4. Cardinality(Stored(d)) <= Cardinality(Stored(c) \cup new)
  BY <1>2, <1>3, FS_Subset
<1>5. IsFiniteSet(Stored(c) \cap new)
  BY <1>1, FS_Subset
<1>6. /\ Cardinality(Stored(c)) \in Nat /\ Cardinality(Stored(d)) \in Nat
      /\ Cardinality(new) \in Nat /\ Cardinality(sent) \in Nat
      /\ Cardinality(Stored(c) \cap new) \in Nat
  BY <1>1, <1>5, StoredType, FS_CardinalityType
<1> QED
  BY <1>1, <1>3, <1>4, <1>6
-------------------------------------------------------------------------------
(* The rows counted                                                              *)

LEMMA ClientType ==
  ASSUME TypeOK
  PROVE  client \in ClientProfiles /\ client.insert \in Insertions
BY CapacityAssumption DEF TypeOK, client, ClientProfiles

\* An attempt takes nothing away, writes a row at most once more, and only rows it sent.
LEMMA WroteRows ==
  ASSUME TypeOK, RoundInv, pc = "insert", NEW a, NEW w,
         Wrote(client.insert, copies, ToSend, a, w)
  PROVE  /\ a.copies \in [Rows -> 0 .. MaxCopies] /\ a.count \in Nat
         /\ w \in SUBSET ToSend /\ w \in SUBSET Rows
         /\ \A r \in Rows :
              /\ copies[r] \in Nat /\ a.copies[r] \in Nat
              /\ copies[r] <= a.copies[r] /\ a.copies[r] <= copies[r] + 1
              /\ r \notin w => a.copies[r] = copies[r]
              /\ r \in w => a.copies[r] >= 1
              /\ client.insert.again # "add" => a.copies[r] <= 1
<1> DEFINE p == client.insert
<1>1. p \in Insertions /\ copies \in [Rows -> 0 .. MaxCopies]
  BY ClientType DEF TypeOK
<1>2. ToSend \in SUBSET Rows
  BY DEF ToSend
<1>3. w \in SUBSET ToSend /\ a.copies = Written(p, copies, w) /\ a.count \in Nat
  BY DEF Wrote
<1>4. p.again # "add" => \A r \in Rows : copies[r] <= 1
  BY DEF RoundInv
<1> HIDE DEF p
<1>5. w \in SUBSET Rows
  BY <1>2, <1>3
<1>6. /\ a.copies \in [Rows -> 0 .. MaxCopies]
      /\ \A r \in Rows :
           /\ r \notin w => a.copies[r] = copies[r]
           /\ r \in w => a.copies[r] >= 1
           /\ a.copies[r] <= copies[r] + 1
           /\ p.again # "add" => (copies[r] <= 1 => a.copies[r] <= 1)
           /\ p.again = "add" \/ copies[r] <= 1 => copies[r] <= a.copies[r]
  BY <1>1, <1>3, <1>5, WrittenRows
<1>7. \A r \in Rows : copies[r] \in Nat /\ a.copies[r] \in Nat
  BY <1>1, <1>6
<1>8. \A r \in Rows : /\ copies[r] <= a.copies[r]
                      /\ p.again # "add" => a.copies[r] <= 1
  BY <1>4, <1>6
<1> QED
  BY <1>3, <1>5, <1>6, <1>7, <1>8 DEF p

\* Where rows are written in order and may be written again, the first rows are there.
LEMMA FirstRowsCounted ==
  ASSUME CapacityInv, pc = "insert", Counts(client), client.insert.again \in {"once", "add"},
         NEW a, NEW w, Wrote(client.insert, copies, ToSend, a, w)
  PROVE  \A r \in Rows : r < total + already + a.count => a.copies[r] > 0
<1> USE DEF CapacityInv
<1>1. PICK t \in Nat, y \in Nat, n \in Nat, b \in Nat :
        t = total /\ y = already /\ n = a.count /\ b = BatchSize
  BY WroteRows, CapacityAssumption DEF TypeOK
<1>2. \A r \in Rows : r < t + y => copies[r] > 0
  BY <1>1 DEF CountedInv
<1>3. client.insert.counts \in {"none", "prefix", "written"} /\ ~client.insert.quiet
  BY DEF Counts
<1>4. t + b <= BatchSize * MaxRounds /\ y <= b
  BY <1>1, <1>3 DEF RoundInv
<1>5. Cardinality(ToSend) = b - y /\ n <= b - y
  <2>1. y + Cardinality(ToSend) = b /\ Cardinality(ToSend) \in Nat
    BY <1>1, <1>4, ToSendRows
  <2>2. n <= Cardinality(ToSend)
    BY <1>1, <1>3 DEF Wrote
  <2> QED
    BY <2>1, <2>2
<1>6. \A r \in Rows : r \in ToSend <=> t + y <= r /\ r < t + b
  BY <1>1 DEF ToSend
<1>7. ASSUME NEW r \in Rows, t + y <= r, r < t + y + n PROVE r \in w
  <2>0. r \in Nat
    BY <1>7, RowsType
  <2>1. r \in ToSend
    BY <1>5, <1>6, <1>7, <2>0
  <2>2. CASE a.ok
    BY <1>3, <2>1, <2>2 DEF Wrote
  <2>3. CASE ~a.ok
    <3>1. n > 0
      BY <1>7, <2>0
    <3>2. n <= Cardinality(w)
      BY <1>1, <1>3, <2>3 DEF Wrote
    <3>3. client.insert.leaves # "any"
      BY <1>1, <2>3, <3>1 DEF Wrote, Counts
    <3>4. w = {} \/ w = ToSend \/ \E q \in ToSend : w = Before(ToSend, q)
      BY <2>3, <3>3 DEF Wrote
    <3>5. w # {}
      BY <3>1, <3>2, FS_EmptySet
    <3>6. CASE \E q \in ToSend : w = Before(ToSend, q)
      <4>1. PICK q \in ToSend : w = Before(ToSend, q)
        BY <3>6
      <4>2. q \in Rows /\ q \in Nat /\ t + y <= q /\ q < t + b
        BY <1>6, RowsType DEF ToSend
      <4>3. \A x : x \in w <=> x \in Nat /\ t + y <= x /\ x < q
        <5>1. \A x \in Nat : x < q => x \in Rows
          BY <4>2, RowsType
        <5>2. \A x \in Rows : x \in Nat
          BY RowsType
        <5>3. \A x : x \in w <=> x \in Rows /\ t + y <= x /\ x < t + b /\ x < q
          BY <1>6, <4>1 DEF Before, ToSend
        <5>4. ASSUME NEW x \in Nat, t + y <= x, x < q PROVE x \in w
          BY <4>2, <5>1, <5>3, <5>4
        <5>5. ASSUME NEW x \in w PROVE x \in Nat /\ t + y <= x /\ x < q
          BY <5>2, <5>3, <5>5
        <5> QED
          BY <5>4, <5>5
      <4>4. Cardinality(w) = q - (t + y)
        <5>1. t + y \in Nat /\ t + y <= q
          BY <4>2
        <5> QED
          BY <4>2, <4>3, <5>1, Interval
      <4>5. r < q
        BY <1>7, <2>0, <3>2, <4>2, <4>4
      <4> QED
        BY <1>7, <2>0, <4>3, <4>5
    <3> QED
      BY <2>1, <3>4, <3>5, <3>6
  <2> QED
    BY <2>2, <2>3
<1>8. ASSUME NEW r \in Rows, r < t + y + n PROVE a.copies[r] > 0
  <2>0. r \in Nat
    BY <1>8, RowsType
  <2>1. copies[r] \in Nat /\ a.copies[r] \in Nat /\ copies[r] <= a.copies[r]
        /\ (r \in w => a.copies[r] >= 1)
    BY <1>8, WroteRows
  <2>2. CASE r < t + y
    BY <1>2, <1>8, <2>1, <2>2
  <2>3. CASE t + y <= r
    BY <1>7, <1>8, <2>1, <2>3
  <2> QED
    BY <2>0, <2>2, <2>3
<1> QED
  BY <1>1, <1>8

\* Where a row that is there is never written again, each row is counted once at most.
LEMMA NewRowsCounted ==
  ASSUME CapacityInv, pc = "insert", Counts(client), client.insert.again \in {"skip", "refuse"},
         NEW a, NEW w, Wrote(client.insert, copies, ToSend, a, w), ~a.ok,
         NEW K, K = {r \in Rows : total <= r /\ r < total + BatchSize /\ a.copies[r] > 0}
  PROVE  already + a.count <= Cardinality(K)
<1> USE DEF CapacityInv
<1>1. IsFiniteSet(Kept) /\ IsFiniteSet(w) /\ IsFiniteSet(K)
  <2>1. IsFiniteSet(Rows)
    BY RowsType
  <2> QED
    BY <2>1, WroteRows, FS_Subset DEF Kept
<1>2. Kept \cap w = {}
  BY DEF Wrote, There, Kept
<1>3. Kept \cup w \subseteq K
  <2>1. ASSUME NEW r \in Kept PROVE r \in K
    BY <2>1, WroteRows DEF Kept
  <2>2. ASSUME NEW r \in w PROVE r \in K
    <3>1. r \in Rows /\ r \in ToSend /\ a.copies[r] > 0
      BY <2>2, WroteRows
    <3>2. r \in Nat /\ total \in Nat /\ already \in Nat
      BY <3>1, RowsType DEF TypeOK
    <3>3. total + already <= r /\ r < total + BatchSize
      BY <3>1 DEF ToSend
    <3> QED
      BY <3>1, <3>2, <3>3
  <2> QED
    BY <2>1, <2>2
<1>4. Cardinality(Kept \cup w) = Cardinality(Kept) + Cardinality(w) - Cardinality(Kept \cap w)
  BY <1>1, FS_Union
<1>5. Cardinality(Kept \cap w) = 0
  BY <1>2, FS_EmptySet
<1>6. Cardinality(Kept \cup w) <= Cardinality(K) /\ IsFiniteSet(Kept \cup w)
  BY <1>1, <1>3, FS_Subset
<1>7. /\ Cardinality(Kept) \in Nat /\ Cardinality(w) \in Nat /\ Cardinality(K) \in Nat
      /\ Cardinality(Kept \cup w) \in Nat
  BY <1>1, <1>6, FS_CardinalityType
<1>8. a.count <= Cardinality(w) /\ a.count \in Nat
  BY DEF Wrote, Counts
<1>9. already <= Cardinality(Kept) /\ already \in Nat
  BY DEF CountedInv, TypeOK
<1> QED
  BY <1>4, <1>5, <1>6, <1>7, <1>8, <1>9

\* When such a client reports success, no row it sent was there: what was counted before
\* is all that goes before.
LEMMA SuccessCountsAll ==
  ASSUME CapacityInv, pc = "insert", Counts(client), client.insert.again \in {"skip", "refuse"},
         NEW a, NEW w, Wrote(client.insert, copies, ToSend, a, w), a.ok
  PROVE  \A r \in Rows : r < total + already + a.count => a.copies[r] > 0
<1> USE DEF CapacityInv
<1>1. PICK t \in Nat, y \in Nat, n \in Nat, b \in Nat :
        t = total /\ y = already /\ n = a.count /\ b = BatchSize
  BY WroteRows, CapacityAssumption DEF TypeOK
<1>2. \A r \in Rows : r < t => copies[r] > 0
  BY <1>1 DEF CountedInv
<1>3. client.insert.counts # "chunks" /\ ~client.insert.quiet
  BY DEF Counts
<1>4. t + b <= BatchSize * MaxRounds /\ y <= b
  BY <1>1, <1>3 DEF RoundInv
<1>5. n = b - y
  <2>1. y + Cardinality(ToSend) = b /\ Cardinality(ToSend) \in Nat
    BY <1>1, <1>4, ToSendRows
  <2>2. n = Cardinality(ToSend)
    BY <1>1, <1>3 DEF Wrote
  <2> QED
    BY <2>1, <2>2
<1>6. w = ToSend /\ There(copies, ToSend) = {}
  BY <1>3 DEF Wrote
<1>7. \A r \in Rows : r \in ToSend <=> t + y <= r /\ r < t + b
  BY <1>1 DEF ToSend
<1> DEFINE F == {r \in Rows : t <= r /\ r < t + y}
<1>8. IsFiniteSet(F) /\ Cardinality(F) = y
  <2>1. PICK m \in Nat : m = BatchSize * MaxRounds /\ Rows = 0 .. m - 1
    BY RowsType
  <2>2. t + y \in Nat /\ t <= t + y /\ t + y <= m
    BY <1>4, <2>1
  <2>3. \A r : r \in F <=> r \in Nat /\ t <= r /\ r < t + y
    BY <2>1, <2>2
  <2>4. IsFiniteSet(F) /\ Cardinality(F) = t + y - t
    BY <2>2, <2>3, Interval
  <2> QED
    BY <2>4
<1>9. Kept \subseteq F
  <2> SUFFICES ASSUME NEW r \in Kept PROVE r \in F
    OBVIOUS
  <2>1. r \in Rows /\ r \in Nat /\ t <= r /\ r < t + b /\ copies[r] > 0
    BY <1>1, RowsType DEF Kept
  <2>2. r \notin ToSend
    BY <1>6, <2>1 DEF There
  <2> QED
    BY <1>7, <2>1, <2>2
<1>10. y <= Cardinality(Kept)
  BY <1>1 DEF CountedInv
<1>11. Kept = F
  <2>1. IsFiniteSet(Kept) /\ Cardinality(Kept) <= Cardinality(F)
        /\ (Cardinality(Kept) = Cardinality(F) => Kept = F)
    BY <1>8, <1>9, FS_Subset
  <2>2. Cardinality(Kept) \in Nat
    BY <2>1, FS_CardinalityType
  <2> QED
    BY <1>8, <1>10, <2>1, <2>2
<1>12. ASSUME NEW r \in Rows, r < t + y + n PROVE a.copies[r] > 0
  <2>1. r \in Nat /\ r < t + b
    BY <1>5, <1>12, RowsType
  <2>2. copies[r] \in Nat /\ a.copies[r] \in Nat /\ copies[r] <= a.copies[r]
        /\ (r \in w => a.copies[r] >= 1)
    BY <1>12, WroteRows
  <2>3. CASE r < t
    BY <1>2, <1>12, <2>2, <2>3
  <2>4. CASE t <= r /\ r < t + y
    <3>1. r \in Kept
      BY <1>11, <1>12, <2>4
    <3>2. copies[r] > 0
      BY <3>1 DEF Kept
    <3> QED
      BY <2>2, <3>2
  <2>5. CASE t + y <= r
    BY <1>6, <1>7, <1>12, <2>1, <2>2, <2>5
  <2> QED
    BY <2>1, <2>3, <2>4, <2>5
<1> QED
  BY <1>1, <1>12
-------------------------------------------------------------------------------
(* An attempt                                                                    *)

LEMMA LessRoom ==
  ASSUME NEW l \in Nat, NEW b \in Nat, NEW u \in Nat, NEW v \in Nat, u <= v, l - u < b
  PROVE  l - v < b
OBVIOUS

\* What becomes of the round.
LEMMA AnswerTaken ==
  ASSUME TypeOK, RoundInv, pc = "insert", NEW a, NEW w,
         Wrote(client.insert, copies, ToSend, a, w), TakeAnswer(a)
  PROVE  /\ copies' = a.copies /\ already' = already + a.count
         /\ UNCHANGED <<db, limit, clock>> /\ client' = client
         /\ \/ a.ok /\ pc' = "close" /\ total' = total /\ UNCHANGED <<tries, conn>>
            \/ /\ pc' = "reported" /\ total' = total /\ UNCHANGED <<tries, conn>>
               /\ \/ a.ok /\ already + a.count # BatchSize
                  \/ ~a.ok /\ client.insert.fails # "report"
            \/ /\ pc' = "reported" /\ total' = total /\ tries' = tries + 1
               /\ conn' = client.insert.after
               /\ ~a.ok /\ tries + 1 = MaxTry
            \/ /\ pc' = "insert" /\ total' = total /\ ~a.ok /\ conn' = client.insert.after
               /\ tries' = tries + 1 /\ tries + 1 < MaxTry
            \/ /\ pc' = "insert" /\ total' = total /\ ~a.ok /\ client.insert.fails = "again"
               /\ UNCHANGED <<tries, conn>>
<1>1. copies' = a.copies /\ already' = already + a.count /\ UNCHANGED <<db, limit, clock>>
  BY DEF TakeAnswer
<1>2. client' = client
  BY <1>1 DEF client
<1>3. tries \in Nat /\ tries < MaxTry /\ MaxTry \in Nat
  BY CapacityAssumption DEF TypeOK, RoundInv
<1>4. CASE a.ok /\ EndRound(a.count) /\ UNCHANGED <<tries, conn>>
  BY <1>1, <1>2, <1>4 DEF EndRound, ReachLimit
<1>5. CASE ~a.ok /\ client.insert.fails = "report" /\ AnotherTry /\ conn' = client.insert.after
  BY <1>1, <1>2, <1>3, <1>5 DEF AnotherTry, ReachLimit
<1>6. CASE ~a.ok /\ client.insert.fails \in {"raise", "final"} /\ ReachLimit
           /\ UNCHANGED <<tries, conn>>
  BY <1>1, <1>2, <1>6 DEF ReachLimit
<1>7. CASE ~a.ok /\ client.insert.fails = "again" /\ UNCHANGED <<pc, total, tries, conn>>
  BY <1>1, <1>2, <1>7
<1> QED
  BY <1>4, <1>5, <1>6, <1>7 DEF TakeAnswer

\* An attempt that fails without a fault finds no room for the round.
LEMMA AttemptStep ==
  ASSUME CapacityInv, pc = "insert", NEW a, NEW w,
         Wrote(client.insert, copies, ToSend, a, w), TakeAnswer(a),
         faults' \in faults .. MaxFaults,
         Resends(client) => a.ok \/ faults' = faults + 1 \/ limit - Used < BatchSize
  PROVE  CapacityInv'
<1> USE DEF CapacityInv
<1> DEFINE p == client.insert
<1>1. p \in Insertions
  BY ClientType
<1>2. /\ a.copies \in [Rows -> 0 .. MaxCopies] /\ a.count \in Nat
      /\ \A r \in Rows :
           /\ copies[r] \in Nat /\ a.copies[r] \in Nat /\ copies[r] <= a.copies[r]
           /\ p.again # "add" => a.copies[r] <= 1
  BY WroteRows
<1>3. /\ copies' = a.copies /\ already' = already + a.count
      /\ UNCHANGED <<db, limit, clock>> /\ client' = client
  BY AnswerTaken
<1>4. total \in Nat /\ already \in Nat /\ tries \in Nat /\ tries <= MaxTry /\ MaxTry \in Nat
      /\ faults \in Nat /\ MaxFaults \in Nat /\ BatchSize \in Nat \ {0} /\ limit \in Nat
  BY CapacityAssumption DEF TypeOK
<1>5. TypeOK'
  <2>1. pc' \in {"insert", "close", "reported"} /\ total' \in Nat
        /\ tries' \in 0 .. MaxTry
    BY <1>2, <1>4, AnswerTaken DEF RoundInv, TypeOK
  <2>2. conn' \in {"usable", "aborted"}
    BY <1>1, AnswerTaken DEF TypeOK, RoundInv, Insertions
  <2>3. faults' \in 0 .. MaxFaults /\ already' \in Nat
    BY <1>2, <1>3, <1>4
  <2> QED
    BY <1>2, <1>3, <2>1, <2>2, <2>3 DEF TypeOK
<1>6. p.counts # "chunks" => already + a.count <= BatchSize
                             /\ (a.ok => already + a.count = BatchSize)
  <2> SUFFICES ASSUME p.counts # "chunks"
               PROVE  already + a.count <= BatchSize /\ (a.ok => already + a.count = BatchSize)
    OBVIOUS
  <2>1. already + Cardinality(ToSend) = BatchSize /\ Cardinality(ToSend) \in Nat
    BY ToSendRows DEF RoundInv
  <2>2. a.count <= Cardinality(ToSend) /\ (a.ok => a.count = Cardinality(ToSend))
    BY DEF Wrote
  <2> QED
    BY <1>2, <1>4, <2>1, <2>2
<1>7. RoundInv'
  <2>1. pc' = "insert" => total' + BatchSize <= BatchSize * MaxRounds /\ tries' < MaxTry
    BY AnswerTaken DEF RoundInv
  <2>2. pc' = "insert" /\ p.counts # "chunks" => already' <= BatchSize
    BY <1>3, <1>6
  <2>3. /\ p.after = "usable" => conn' # "aborted"
        /\ conn' # "lost"
    BY <1>1, AnswerTaken DEF RoundInv, Insertions
  <2> QED
    BY <1>2, <1>3, <2>1, <2>2, <2>3 DEF RoundInv
<1>8. CountedInv'
  <2> SUFFICES ASSUME Counts(client)
               PROVE  /\ \A r \in Rows : r < total' => a.copies[r] > 0
                      /\ pc' = "insert" =>
                           /\ p.again \in {"once", "add"}
                                => \A r \in Rows : r < total + already + a.count => a.copies[r] > 0
                           /\ p.again \in {"skip", "refuse"} => already + a.count <= Cardinality(Kept')
                      /\ pc' = "close" => \A r \in Rows : r < total + already + a.count => a.copies[r] > 0
    <3>1. pc' \in {"insert", "close"} => total' + already' = total + already + a.count
      BY <1>2, <1>3, <1>4, AnswerTaken
    <3> QED
      BY <1>3, <3>1 DEF CountedInv
  <2>1. p.again \in {"once", "add", "skip", "refuse"}
    BY <1>1 DEF Insertions
  <2>2. p.again \in {"once", "add"} \/ a.ok
          => \A r \in Rows : r < total + already + a.count => a.copies[r] > 0
    BY <2>1, FirstRowsCounted, SuccessCountsAll
  <2>3. pc' = "insert" /\ p.again \in {"skip", "refuse"} => already + a.count <= Cardinality(Kept')
    <3> SUFFICES ASSUME pc' = "insert", p.again \in {"skip", "refuse"}
                 PROVE  already + a.count <= Cardinality(Kept')
      OBVIOUS
    <3>1. total' = total /\ ~a.ok
      BY AnswerTaken
    <3>2. Kept' = {r \in Rows : total <= r /\ r < total + BatchSize /\ a.copies[r] > 0}
      BY <1>3, <3>1 DEF Kept
    <3> QED
      BY <3>1, <3>2, NewRowsCounted
  <2>4. \A r \in Rows : r < total => a.copies[r] > 0
    <3> SUFFICES ASSUME NEW r \in Rows, r < total PROVE a.copies[r] > 0
      OBVIOUS
    <3>1. copies[r] > 0
      BY DEF CountedInv
    <3> QED
      BY <1>2, <3>1
  <2>5. \A r \in Rows : r < total' => a.copies[r] > 0
    <3>1. total' = total
      BY AnswerTaken
    <3> QED
      BY <2>4, <3>1
  <2>6. pc' = "close" => a.ok
    BY AnswerTaken
  <2> QED
    BY <2>2, <2>3, <2>5, <2>6
<1>9. RoomInv'
  <2> SUFFICES ASSUME Resends(client)
               PROVE  /\ limit - Used' < BatchSize \/ tries' <= faults'
                      /\ pc' = "reported" => limit - Used' < BatchSize \/ tries' = MaxTry
    BY <1>3 DEF RoomInv
  <2>1. Used \in Nat /\ Used' \in Nat /\ Used <= Used'
    <3>1. Cardinality(Stored(copies)) <= Cardinality(Stored(a.copies))
      BY <1>2, StoredGrows DEF TypeOK
    <3>2. Cardinality(Stored(copies)) \in Nat /\ Cardinality(Stored(a.copies)) \in Nat
      BY StoredType
    <3>3. Stored(a.copies) = Stored(copies)'
      BY <1>3 DEF Stored
    <3> QED
      BY <3>1, <3>2, <3>3 DEF Used
  <2>2. limit - Used < BatchSize => limit - Used' < BatchSize
    <3>1. PICK u \in Nat, v \in Nat : u = Used /\ v = Used' /\ u <= v
      BY <2>1
    <3>2. limit - u < BatchSize => limit - v < BatchSize
      BY <1>4, <3>1, LessRoom
    <3> QED
      BY <3>1, <3>2
  <2>3. limit - Used < BatchSize \/ tries <= faults
    BY DEF RoomInv
  <2>4. a.ok \/ faults' = faults + 1 \/ limit - Used < BatchSize
    OBVIOUS
  <2>5. faults' \in Nat /\ faults <= faults'
    BY <1>4
  <2>6. limit - Used' < BatchSize \/ tries' <= faults'
    <3>1. (a.ok /\ tries' = tries) \/ (~a.ok /\ (tries' = tries \/ tries' = tries + 1))
      BY AnswerTaken
    <3> QED
      BY <1>4, <2>2, <2>3, <2>4, <2>5, <3>1
  <2>7. pc' = "reported" => tries' = MaxTry
    <3>1. p.fails = "report" /\ p.counts # "chunks"
      BY DEF Resends
    <3>2. a.ok => already + a.count = BatchSize
      BY <1>6, <3>1
    <3> QED
      BY <3>1, <3>2, AnswerTaken
  <2> QED
    BY <2>6, <2>7
<1> QED
  BY <1>5, <1>7, <1>8, <1>9
\* A client that can have rows sent again has failed without a fault for want of room.
LEMMA NoRoom ==
  ASSUME CapacityInv, pc = "insert", Resends(client), InsertRows
  PROVE  \E a : TakeAnswer(a) /\ a \in Undisturbed(client.insert, copies, ToSend)
                                      \cup Faulty(client.insert, copies, ToSend)
                /\ (a.ok \/ limit - Used < BatchSize)
<1> USE DEF CapacityInv
<1> DEFINE p == client.insert
           full == Written(p, copies, ToSend)
<1>1. conn = "usable" /\ p.again \in {"once", "add"} /\ p \in Insertions
  BY ClientType DEF Resends, RoundInv, TypeOK
<1>2. Undisturbed(p, copies, ToSend)
        = {[copies |-> full, count |-> OkCount(p, ToSend), ok |-> TRUE]}
  BY <1>1 DEF Undisturbed, Blocked
<1>3. CASE \A answer \in Undisturbed(p, copies, ToSend) : Fits(answer)
  <2>1. PICK a \in Undisturbed(p, copies, ToSend) : TakeAnswer(a)
    BY <1>1, <1>3 DEF InsertRows
  <2>2. a.ok
    BY <1>2, <2>1
  <2> QED
    BY <2>1, <2>2
<1>4. CASE ~(\A answer \in Undisturbed(p, copies, ToSend) : Fits(answer))
  <2>1. PICK a \in Crowded : TakeAnswer(a)
    BY <1>1, <1>4 DEF InsertRows
  <2>2. a \in Faulty(p, copies, ToSend)
    BY <2>1 DEF Crowded, Faulty
  <2>3. ~(Cardinality(Stored(full)) <= limit)
    BY <1>2, <1>4 DEF Fits
  <2>4. /\ ToSend \in SUBSET Rows /\ IsFiniteSet(ToSend) /\ Cardinality(ToSend) \in Nat
        /\ Cardinality(ToSend) <= BatchSize
    BY ToSendRows DEF RoundInv
  <2>5. copies \in [Rows -> 0 .. MaxCopies] /\ limit \in Nat /\ BatchSize \in Nat
    BY CapacityAssumption DEF TypeOK
  <2>6. /\ full \in [Rows -> 0 .. MaxCopies]
        /\ \A r \in Rows : full[r] <= copies[r] + 1 /\ (r \notin ToSend => full[r] = copies[r])
    BY <1>1, <2>4, <2>5, WrittenRows
  <2> HIDE DEF full
  <2>7. Cardinality(Stored(full)) <= Cardinality(Stored(copies)) + Cardinality(ToSend)
    BY <2>4, <2>5, <2>6, StoredMore
  <2>8. PICK x \in Nat, u \in Nat, n \in Nat :
          x = Cardinality(Stored(full)) /\ u = Cardinality(Stored(copies))
          /\ n = Cardinality(ToSend)
    BY <2>4, StoredType
  <2>9. limit - u < BatchSize
    BY <2>3, <2>4, <2>5, <2>7, <2>8
  <2>10. limit - Used < BatchSize
    BY <2>8, <2>9 DEF Used
  <2> QED
    BY <2>1, <2>2, <2>10
<1> QED
  BY <1>3, <1>4

\* A connection that was left in a failed transaction refuses all rows.
LEMMA RefusalRows ==
  ASSUME TypeOK, ToSend \in SUBSET Rows, IsFiniteSet(ToSend)
  PROVE  Wrote(client.insert, copies, ToSend, Refusal, {})
<1> DEFINE p == client.insert
<1>1. copies = Written(p, copies, {})
  BY DEF Written, TypeOK
<1>2. Refusal.copies = copies /\ Refusal.count = 0 /\ ~Refusal.ok
  BY DEF Refusal
<1>3. Cardinality({}) = 0 /\ Cardinality(ToSend) \in Nat
  BY FS_EmptySet, FS_CardinalityType
<1> HIDE DEF p
<1>4. Wrote(p, copies, ToSend, Refusal, {})
  BY <1>1, <1>2, <1>3 DEF Wrote
<1> QED
  BY <1>4 DEF p

LEMMA InsertStep ==
  ASSUME CapacityInv, InsertRows \/ InsertRowsFails
  PROVE  CapacityInv'
<1> USE DEF CapacityInv
<1> DEFINE Answers == Undisturbed(client.insert, copies, ToSend)
                        \cup Faulty(client.insert, copies, ToSend)
<1>1. /\ pc = "insert" /\ client.insert \in Insertions /\ copies \in [Rows -> 0 .. MaxCopies]
      /\ faults \in Nat /\ MaxFaults \in Nat /\ faults <= MaxFaults
  BY ClientType, CapacityAssumption DEF InsertRows, InsertRowsFails, TypeOK
<1>2. ToSend \in SUBSET Rows /\ IsFiniteSet(ToSend)
  BY <1>1, ToSendRows DEF RoundInv
<1>3. \A a \in Answers : \E w : Wrote(client.insert, copies, ToSend, a, w)
  BY <1>1, <1>2, AnswerRows
<1>4. CASE InsertRows /\ Resends(client)
  <2>1. PICK a \in Answers : TakeAnswer(a) /\ (a.ok \/ limit - Used < BatchSize)
    BY <1>1, <1>4, NoRoom
  <2>2. faults' \in faults .. MaxFaults
    BY <1>1, <1>4 DEF InsertRows
  <2> QED
    BY <1>1, <1>3, <2>1, <2>2, AttemptStep
<1>5. CASE InsertRows /\ ~Resends(client)
  <2>1. PICK a \in Answers \cup {Refusal} : TakeAnswer(a)
    BY <1>5 DEF InsertRows, Crowded, Faulty
  <2>2. \E w : Wrote(client.insert, copies, ToSend, a, w)
    BY <1>2, <1>3, <2>1, RefusalRows
  <2>3. faults' \in faults .. MaxFaults
    BY <1>1, <1>5 DEF InsertRows
  <2> QED
    BY <1>1, <1>5, <2>1, <2>2, <2>3, AttemptStep
<1>6. CASE InsertRowsFails
  <2>1. PICK a \in Answers : TakeAnswer(a)
    BY <1>6 DEF InsertRowsFails
  <2>2. faults' = faults + 1 /\ faults' \in faults .. MaxFaults
    BY <1>1, <1>6 DEF InsertRowsFails
  <2> QED
    BY <1>1, <1>3, <2>1, <2>2, AttemptStep
<1> QED
  BY <1>4, <1>5, <1>6

-------------------------------------------------------------------------------
(* The other steps                                                               *)

LEMMA InitCapacity ==
  ASSUME Init
  PROVE  CapacityInv
<1> USE DEF Init
<1>1. TypeOK
  BY CapacityAssumption DEF TypeOK
<1>2. RoundInv
  BY DEF RoundInv
<1>3. CountedInv
  <2>1. \A r \in Rows : ~(r < 0)
    BY RowsType
  <2> QED
    BY <2>1 DEF CountedInv
<1>4. RoomInv
  BY DEF RoomInv
<1> QED
  BY <1>1, <1>2, <1>3, <1>4 DEF CapacityInv

LEMMA StartStep ==
  ASSUME CapacityInv, StartRound
  PROVE  CapacityInv'
<1> USE DEF CapacityInv, StartRound, MayStart
<1>1. client' = client /\ Used' = Used
  BY DEF client, Used, Stored
<1>2. total \in Nat /\ faults \in Nat /\ MaxTry \in Nat \ {0} /\ BatchSize \in Nat
  BY CapacityAssumption DEF TypeOK
<1>3. TypeOK'
  BY <1>2 DEF TypeOK
<1>4. RoundInv'
  BY <1>1, <1>2 DEF RoundInv
<1>5. CountedInv'
  <2>1. total + 0 = total
    BY <1>2
  <2>2. IsFiniteSet(Kept')
    BY RowsType, FS_Subset DEF Kept
  <2>3. 0 <= Cardinality(Kept')
    BY <2>2, FS_CardinalityType
  <2> QED
    BY <1>1, <2>1, <2>3 DEF CountedInv
<1>6. RoomInv'
  BY <1>1, <1>2 DEF RoomInv
<1> QED
  BY <1>3, <1>4, <1>5, <1>6

\* A round whose connection is closed counts.
LEMMA CloseStep ==
  ASSUME CapacityInv, CloseRound
  PROVE  CapacityInv'
<1> USE DEF CapacityInv, CloseRound
<1>1. client' = client /\ Used' = Used
  BY DEF client, Used, Stored
<1>2. total \in Nat /\ already \in Nat /\ total' = total + already
  BY DEF TypeOK
<1>3. TypeOK'
  BY <1>2 DEF TypeOK
<1>4. RoundInv'
  BY <1>1 DEF RoundInv
<1>5. CountedInv'
  BY <1>1 DEF CountedInv
<1>6. RoomInv'
  BY <1>1 DEF RoomInv
<1> QED
  BY <1>3, <1>4, <1>5, <1>6

\* An error that no attempt reports: of the connection, or raised before the rows are sent.
LEMMA ErrorStep ==
  ASSUME CapacityInv, OpenFails \/ CloseFails \/ InsertRaises
  PROVE  CapacityInv'
<1> USE DEF CapacityInv
<1>1. /\ UNCHANGED <<db, limit, copies, total, already, tries, clock>>
      /\ pc' = "reported" /\ conn' \in {"lost", conn}
      /\ faults' = faults \/ (faults < MaxFaults /\ faults' = faults + 1)
      /\ InsertRaises => pc = "insert" /\ client.insert.raises # "nothing"
      /\ ~InsertRaises => conn' = "lost"
  BY DEF OpenFails, CloseFails, InsertRaises, LoseConnection, ReachLimit, TooFew
<1>2. client' = client /\ Used' = Used
  BY <1>1 DEF client, Used, Stored
<1>3. faults \in Nat /\ MaxFaults \in Nat /\ tries \in Nat
  BY CapacityAssumption DEF TypeOK
<1>4. TypeOK'
  BY <1>1, <1>3 DEF TypeOK
<1>5. RoundInv'
  <2>1. client.insert.after = "usable" => conn' # "aborted"
    <3>1. CASE conn' = "lost"
      BY <3>1
    <3>2. CASE conn' = conn
      BY <3>2 DEF RoundInv
    <3> QED
      BY <1>1, <3>1, <3>2
  <2>2. client.insert.again # "add" => \A r \in Rows : copies[r] <= 1
    BY DEF RoundInv
  <2> QED
    BY <1>1, <1>2, <2>1, <2>2 DEF RoundInv
<1>6. CountedInv'
  BY <1>1, <1>2 DEF CountedInv
<1>7. Resends(client) => conn' = "lost"
  BY <1>1 DEF Resends
<1>8. RoomInv'
  BY <1>1, <1>2, <1>3, <1>7 DEF RoomInv
<1> QED
  BY <1>4, <1>5, <1>6, <1>8

\* The clock, and a case that is over.
LEMMA WaitStep ==
  ASSUME CapacityInv, TimesOut \/ TimePasses \/ UNCHANGED vars
  PROVE  CapacityInv'
<1> USE DEF CapacityInv
<1>1. /\ UNCHANGED <<db, limit, copies, total, already, tries, conn, faults>>
      /\ pc' = pc \/ (pc = "between" /\ pc' = "timed_out")
      /\ clock' \in {"running", "over"}
  BY DEF TimesOut, TimePasses, vars, TypeOK
<1>2. client' = client /\ Used' = Used /\ Kept' = Kept
  BY <1>1 DEF client, Used, Stored, Kept
<1>3. TypeOK'
  BY <1>1 DEF TypeOK
<1>4. RoundInv'
  BY <1>1, <1>2 DEF RoundInv
<1>5. CountedInv'
  BY <1>1, <1>2 DEF CountedInv
<1>6. RoomInv'
  BY <1>1, <1>2 DEF RoomInv
<1> QED
  BY <1>3, <1>4, <1>5, <1>6

\* The rows counted, those stored and the attempts made agree after every step, for any
\* client and any size of the database (serial_runner.py 78-232).
THEOREM CapacityInvariant == Spec => []CapacityInv
<1>1. Init => CapacityInv
  BY InitCapacity
<1>2. CapacityInv /\ [Next]_vars => CapacityInv'
  BY InsertStep, StartStep, CloseStep, ErrorStep, WaitStep DEF Next, Runner, Ended
<1> QED
  BY <1>1, <1>2, PTL DEF Spec

\* A capacity case keeps its types.
THEOREM TypeCorrect == Spec => []TypeOK
<1>1. CapacityInv => TypeOK
  BY DEF CapacityInv
<1> QED
  BY <1>1, CapacityInvariant, PTL

\* The capacity reported is in the database, for every client that counts what is there; and
\* it is all that the database takes, or the attempts were used up by faults, or a single
\* connection failed, for every client that can have rows sent again (serial_runner.py 52-130).
THEOREM HonestCapacity == Spec => []CapacityIsHonest
<1>1. CapacityInv => CapacityIsHonest
  <2> SUFFICES ASSUME CapacityInv PROVE CapacityIsStored /\ CapacityMeansFull
    BY DEF CapacityIsHonest
  <2>1. CapacityIsStored
    BY DEF CapacityInv, CountedInv, CapacityIsStored
  <2>2. CapacityMeansFull
    <3> SUFFICES ASSUME pc = "reported", Resends(client), conn # "lost"
                 PROVE  limit - Used < BatchSize \/ faults >= MaxTry
      BY DEF CapacityMeansFull
    <3>1. limit - Used < BatchSize \/ tries <= faults
      BY DEF CapacityInv, RoomInv
    <3>2. limit - Used < BatchSize \/ tries = MaxTry
      BY DEF CapacityInv, RoomInv
    <3>3. faults \in Nat /\ MaxTry \in Nat
      BY CapacityAssumption DEF CapacityInv, TypeOK
    <3> QED
      BY <3>1, <3>2, <3>3
  <2> QED
    BY <2>1, <2>2
<1> QED
  BY <1>1, CapacityInvariant, PTL
===============================================================================
