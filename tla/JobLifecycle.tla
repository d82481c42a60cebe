---------------------------- MODULE JobLifecycle ----------------------------
(***************************************************************************)
(* What the jobs table promises, whatever component writes to it: the      *)
(* statuses a row goes through (JobStatus) and the attempts it is charged  *)
(* on the way.  The rows are written by SQL statements in                  *)
(* internal/store/queries.go; here only the moves those statements are     *)
(* meant to make are allowed.  Worker implements this specification.       *)
(***************************************************************************)
EXTENDS JobStatus, Naturals

CONSTANT MaxJobAttempts   \* store.MaxJobAttempts

VARIABLE attempts         \* attempts[j]: the row's attempts column

vars == <<status, attempts>>

\* The type invariant of the table: every row has one of the seven statuses
\* of job.Status and an attempt counter that never passes the cap.
TypeOK == StatusOK /\ attempts \in [Job -> 0 .. MaxJobAttempts]

Init == NoRows /\ attempts = [j \in Job |-> 0]

-----------------------------------------------------------------------------

Insert(j)  == Inserts(j) /\ UNCHANGED attempts
Release(j) == Releases(j) /\ UNCHANGED attempts

\* A claim charges an attempt.
Claim(j) ==
    /\ Claims(j)
    /\ attempts[j] < MaxJobAttempts
    /\ attempts' = [attempts EXCEPT ![j] = @ + 1]

\* A ready row with no attempt left is failed instead.
GiveUp(j) ==
    /\ GivesUp(j)
    /\ attempts[j] = MaxJobAttempts
    /\ UNCHANGED attempts

Finish(j) == Finishes(j) /\ UNCHANGED attempts

\* A pause refunds the attempt.
Requeue(j) == Requeues(j) /\ attempts' = [attempts EXCEPT ![j] = @ - 1]

\* After a restart attempts stay charged.
Recover == Recovers /\ UNCHANGED attempts

\* Attempts are forgiven, or gone with the row.
Forgive(S) == attempts' = [j \in Job |-> IF j \in S THEN 0 ELSE attempts[j]]

Retry(S)  == Retries(S) /\ Forgive(S)
Delete(S) == Deletes(S) /\ Forgive(S)

Next ==
    \/ \E j \in Job :
          Insert(j) \/ Release(j) \/ Claim(j) \/ GiveUp(j) \/ Finish(j) \/ Requeue(j)
    \/ Recover
    \/ \E S \in SUBSET Job : Retry(S) \/ Delete(S)

Spec == Init /\ [][Next]_vars

=============================================================================
