---------------------------- MODULE MCResultStore ----------------------------
(*******************************************************************************)
(* Values for ResultStore: two databases, two labels of runs and that of merges *)
(*******************************************************************************)
EXTENDS ResultPage

CONSTANTS milvus, pgvector, mine, yours, merged

MCDatabases == {milvus, pgvector}
MCLabels == {mine, yours, merged}

\* On milvus the second run is the faster one; on pgvector, where nothing is searched, it
\* fails.
MCDirectory == [d \in MCDatabases |-> IF d = milvus THEN 1 ELSE 2]
MCFailed == {<<2, pgvector>>}
MCQps == [r \in Results |-> IF r[2] = milvus THEN r[1] ELSE 0]

\* Where results may be lost, nothing more is said of what becomes of them.
NothingLost == harm # "lost"

===============================================================================
