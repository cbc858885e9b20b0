--------------------------- MODULE MCStreamingCase ---------------------------
(* StreamingCase on a few batches and two stages.  The dataset is no whole   *)
(* number of rounds, and the second stage waits for its last whole round.    *)
EXTENDS StreamingCase

EarlyAndLast == <<29, 90>>

\* The products of a double with a whole number of at most 100 that int() cuts off
\* one short.
Doubles == {<<50, 58>>, <<90, 70>>, <<100, 29>>, <<100, 57>>, <<100, 58>>}
=============================================================================
