--------------------------- MODULE MCSearchBarrier ---------------------------
(* SearchBarrier on two small concurrency levels. *)
EXTENDS SearchBarrier

Falling == <<3, 2>>
Pair == <<2, 1>>

=============================================================================
