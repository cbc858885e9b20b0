---------------------------- MODULE MCDatasetCase ----------------------------
(*******************************************************************************)
(* Values for DatasetCase: a corpus of three documents and two queries, three     *)
(* train files of up to three rows, and a case that is run twice.                  *)
(*******************************************************************************)
EXTENDS DatasetCase

\* The filter ids of a corpus of any size are the numbers below it, each given once.
ASSUME FilterIdsArePermutation ==
  \A size \in 1 .. 60 : {FilterId(size, n) : n \in 0 .. size - 1} = 0 .. size - 1

===============================================================================
