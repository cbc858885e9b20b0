--------------------------- MODULE MCTaskSequence ---------------------------
(***************************************************************************)
(* TaskSequence on small runs: every sequence of at most MaxTasks tasks    *)
(* from a catalogue, put in order by AssembleAll.                          *)
(***************************************************************************)
EXTENDS TaskSequence

CONSTANTS
    db1, db2, t1, t2, cA, cB,
    MaxTasks,      \* longest run submitted
    DropWithLoad   \* TRUE: only the stages the command line can produce

MCDatabases == {db1, db2}
MCTargets == {t1, t2}
MCContents == {cA, cB}

Full == {"DROP_OLD", "LOAD", "SEARCH_SERIAL", "SEARCH_CONCURRENT"}

\* Both contents have the same size: parameters of one index, say.
Perf(db, t, c, stages) ==
    [db |-> db, target |-> t, content |-> c, label |-> "Performance",
     size |-> 1, streq |-> FALSE, supported |-> TRUE, stages |-> stages]

Other(l, stages) ==
    [db |-> db1, target |-> t1, content |-> cB, label |-> l,
     size |-> 1, streq |-> FALSE, supported |-> TRUE, stages |-> stages]

Catalogue ==
    { Perf(db1, t1, cA, Full), Perf(db1, t1, cB, Full), Perf(db2, t2, cA, Full),
      Perf(db1, t1, cA, {"SEARCH_SERIAL"}),
      Perf(db1, t1, cB, {"DROP_OLD", "LOAD"}),
      Other("Load", Full), Other("Streaming", Full), Other("CloudInsert", {"LOAD"}),
      Other("CloudColdLatency", {"SEARCH_SERIAL"}),
      Other("CloudColdLatency", Full),
      Other("FullTextSearch", Full) }
    \cup IF DropWithLoad THEN {}
         ELSE { Perf(db1, t1, cA, {"LOAD", "SEARCH_SERIAL"}),
                Perf(db1, t1, cB, {"DROP_OLD", "SEARCH_SERIAL"}),
                Other("CloudColdLatency", {"DROP_OLD", "SEARCH_SERIAL"}) }

MCPlans == { AssembleAll(ts) : ts \in BoundedSeq(Catalogue, MaxTasks) \ {<<>>} }
=============================================================================
