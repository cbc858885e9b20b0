-------------------------- MODULE MCRunnerSession --------------------------
(***************************************************************************)
(* RunnerSession with two callers: two open pages, or a page and a REST    *)
(* handler of the same process.                                            *)
(***************************************************************************)
EXTENDS RunnerSession

CONSTANTS c1, c2

TwoCallers == {c1, c2}

\* Bound: behaviours are followed up to the first start that overlaps; every
\* property excepts what comes after it.
NoStartOverlaps == "start" \notin races
=============================================================================
