------------------------------ MODULE ClientKinds ------------------------------
(*******************************************************************************)
(* What the benchmark can tell of a database client (a subclass of             *)
(* backend/clients/api.py VectorDB): for each method the runners call, the few  *)
(* things in which the clients differ and on which a result depends.  The        *)
(* modules SqlClients, SearchEngineClients and VectorClients say which client    *)
(* does what; Clients gives the table of all of them.                            *)
(*******************************************************************************)
EXTENDS Naturals, FiniteSets

-------------------------------------------------------------------------------
(* __init__(drop_old): what is done with the rows of an earlier run when they   *)
(* must go, what a failure of that does, and when the container is made: only   *)
(* when dropping, whenever it is missing, by the first write, or never.  With    *)
(* fresh it raises unless the old rows go.                                        *)
Prepares == [old : {"drop", "keep"}, oldFails : {"raise", "ignore"},
             make : {"drop_old", "missing", "at_write", "never"}, fresh : BOOLEAN]

DropAndMake == [old |-> "drop", oldFails |-> "raise", make |-> "drop_old", fresh |-> FALSE]
DropOrReuse == [DropAndMake EXCEPT !.make = "missing"]

-------------------------------------------------------------------------------
(* insert_embeddings, as one attempt to write a batch:                          *)
(*  leaves  which rows a failing attempt may have written: none, those before   *)
(*          the failing one, or any.  Whatever the client, the answer of an     *)
(*          attempt that wrote every row may be lost;                            *)
(*  again   what happens to a row whose id is there: one of the two is kept,     *)
(*          the request is refused, the row is added a second time, or it is     *)
(*          skipped and not counted;                                             *)
(*  fails   an error is reported as (count, error), raised, reported as final    *)
(*          (PartialInsertError.non_retryable), or the client tries again itself *)
(*          for ever;                                                            *)
(*  counts  the count reported with an error: none, the rows of the requests     *)
(*          that were answered ("prefix": in order, "any": in any order), every  *)
(*          row sent, the rows written, or whole chunks (on success too);        *)
(*  quiet   rows may be missing although the attempt reports success;            *)
(*  after   whether the connection can be used after a failure: a transaction    *)
(*          that is not rolled back refuses every later statement;               *)
(*  raises  what is raised, however errors are reported, before a row is         *)
(*          written: nothing, an error on a batch of too few rows, or that of     *)
(*          the first call made.                                                 *)
Insertions == [leaves : {"nothing", "prefix", "any"},
               again  : {"once", "refuse", "add", "skip"},
               fails  : {"report", "raise", "final", "again"},
               counts : {"none", "prefix", "any", "sent", "written", "chunks"},
               quiet  : BOOLEAN, after : {"usable", "aborted"},
               raises : {"nothing", "few", "first"}]

Inserts(leaves, again, fails, counts) ==
  [leaves |-> leaves, again |-> again, fails |-> fails, counts |-> counts,
   quiet |-> FALSE, after |-> "usable", raises |-> "nothing"]

\* One COPY in a transaction that an error leaves open: psycopg, autocommit off.
CopyWithoutRollback ==
  [Inserts("nothing", "refuse", "report", "none") EXCEPT !.after = "aborted"]

-------------------------------------------------------------------------------
(* optimize: what it waits for before the search starts.  "call" is a statement *)
(* that returns when the index is built, "poll" asks until it is, "row_count"    *)
(* until the number of rows is that of the dataset, a capped poll ends with an    *)
(* error or silently, "broken" fails whenever it is called.                      *)
Waits == {"none", "call", "poll", "row_count", "capped_raise", "capped_ignore", "broken"}

(* poll_insert_readiness, for the cloud insert case: true at once; by the rows     *)
(* counted and then the rows pending in the index; by the rows counted and the last  *)
(* write that queries see; or by the bytes not indexed yet.                           *)
Readiness == {"assumed", "counted", "fresh", "bytes"}

-------------------------------------------------------------------------------
(* Which metric the index is built with when the case asks for one, and which   *)
(* one a query ranks by: "named" is the one the user gives by name whatever the  *)
(* case asks, "index" that of the index, "none" has no operator, or a statement   *)
(* the database cannot read (an error).                                           *)
(* unit: the vectors of a cosine case are normalised first                       *)
(* (need_normalize_cosine).                                                      *)
Metrics == {"L2", "IP", "COSINE"}

IndexMetrics == [L2 : Metrics \cup {"named", "none"}, IP : Metrics \cup {"named", "none"},
                 COSINE : Metrics \cup {"named", "none"}, unit : BOOLEAN]
IndexAsAsked == [L2 |-> "L2", IP |-> "IP", COSINE |-> "COSINE", unit |-> FALSE]
IndexByName == [L2 |-> "named", IP |-> "named", COSINE |-> "named", unit |-> FALSE]
IndexAlwaysCosine == [L2 |-> "COSINE", IP |-> "COSINE", COSINE |-> "COSINE", unit |-> FALSE]

(* search_embedding: the metric it ranks by, and the failures it turns into an   *)
(* empty answer: of the call, or of reading the answer.                           *)
Searches == [L2 : Metrics \cup {"index", "none"}, IP : Metrics \cup {"index", "none"},
             COSINE : Metrics \cup {"index", "none"}, swallows : SUBSET {"call", "answer"}]
SearchAsAsked == [L2 |-> "L2", IP |-> "IP", COSINE |-> "COSINE", swallows |-> {}]
SearchByIndex == [L2 |-> "index", IP |-> "index", COSINE |-> "index", swallows |-> {}]

-------------------------------------------------------------------------------
(* supported_filter_types and prepare_filter: the filters declared, whether the  *)
(* number filter takes the bound itself (>=) or not (>), and whether the label    *)
(* filter is a statement the database can read.                                   *)
FilterOp == {"NonFilter", "NumGE", "StrEqual"}
Filters == [declares : SUBSET FilterOp, atLeast : BOOLEAN, label : {"label", "none"}]

NoFilter == [declares |-> {"NonFilter"}, atLeast |-> TRUE, label |-> "label"]
IdFilter == [NoFilter EXCEPT !.declares = {"NonFilter", "NumGE"}]
IdAndLabelFilter == [NoFilter EXCEPT !.declares = FilterOp]

-------------------------------------------------------------------------------
\* What one client is, method by method.
Client(prepare, insert, optimize, readiness, metric, filter, search) ==
  [prepare |-> prepare, insert |-> insert, optimize |-> optimize, readiness |-> readiness,
   metric |-> metric, filter |-> filter, search |-> search]

ClientProfiles == [prepare : Prepares, insert : Insertions, optimize : Waits,
                   readiness : Readiness, metric : IndexMetrics, filter : Filters,
                   search : Searches]

===============================================================================
