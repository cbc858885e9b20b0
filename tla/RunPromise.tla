----------------------------- MODULE RunPromise -----------------------------
(***************************************************************************)
(* What a run promises: its cases are gone through one at a time, and it   *)
(* is a success only when it has been through them all.  It may fail at    *)
(* any time.  The child process (TaskSequence) keeps the promise as it     *)
(* works, the parent (RunnerSession) as it hears of it.                    *)
(***************************************************************************)
EXTENDS Naturals

VARIABLES
    cases,    \* cases of the run
    done,     \* cases gone through
    verdict   \* "running", "success" or "failed"

vars == <<cases, done, verdict>>

Init ==
    /\ cases \in Nat
    /\ done = 0
    /\ verdict = "running"

Advance ==
    /\ verdict = "running"
    /\ done < cases
    /\ done' = done + 1
    /\ UNCHANGED <<cases, verdict>>

Succeed ==
    /\ verdict = "running"
    /\ done = cases
    /\ verdict' = "success"
    /\ UNCHANGED <<cases, done>>

Fail ==
    /\ verdict = "running"
    /\ verdict' = "failed"
    /\ UNCHANGED <<cases, done>>

Next == Advance \/ Succeed \/ Fail

Spec == Init /\ [][Next]_vars
=============================================================================
