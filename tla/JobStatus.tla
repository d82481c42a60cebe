------------------------------ MODULE JobStatus ------------------------------
(***************************************************************************)
(* The status column of the jobs table, whatever component writes to it.   *)
(* A row goes through the seven statuses of job.Status; only the moves the *)
(* SQL statements in internal/store/queries.go are meant to make are       *)
(* allowed.  Gates implements this specification, JobLifecycle adds the    *)
(* attempts a row is charged.                                              *)
(***************************************************************************)

CONSTANT Job       \* ids of the jobs table (AUTOINCREMENT: never reused)

VARIABLE status    \* status[j]: the row's status, "none" before its INSERT, "deleted" after its DELETE

Waiting  == {"waiting_for_seed", "waiting_for_hardlink"}
Terminal == {"done", "failed", "skipped"}
RowStatus == Waiting \cup {"ready", "encoding"} \cup Terminal
NoRow == {"none", "deleted"}

\* A row has one of the seven statuses, or there is none.
StatusOK == status \in [Job -> RowStatus \cup NoRow]

NoRows == status = [j \in Job |-> "none"]

-----------------------------------------------------------------------------

\* A row is inserted behind one of the two gates.
Inserts(j) ==
    /\ status[j] = "none"
    /\ \E s \in Waiting : status' = [status EXCEPT ![j] = s]

\* A gate opens.
Releases(j) ==
    /\ status[j] \in Waiting
    /\ status' = [status EXCEPT ![j] = "ready"]

\* The worker takes a ready row.
Claims(j) ==
    /\ status[j] = "ready"
    /\ status' = [status EXCEPT ![j] = "encoding"]

\* A ready row is failed instead of claimed.
GivesUp(j) ==
    /\ status[j] = "ready"
    /\ status' = [status EXCEPT ![j] = "failed"]

\* The claimed row gets its outcome.
Finishes(j) ==
    /\ status[j] = "encoding"
    /\ \E s \in Terminal : status' = [status EXCEPT ![j] = s]

\* A pause hands the row back.
Requeues(j) ==
    /\ status[j] = "encoding"
    /\ status' = [status EXCEPT ![j] = "ready"]

\* A restart hands back every claimed row at once.
Recovers == status' = [j \in Job |-> IF status[j] = "encoding" THEN "ready" ELSE status[j]]

\* The user retries finished rows: back to the first gate.
Retries(S) ==
    /\ \A j \in S : status[j] \in Terminal
    /\ status' = [j \in Job |-> IF j \in S THEN "waiting_for_seed" ELSE status[j]]

\* The user deletes rows, never one that is being encoded.
Deletes(S) ==
    /\ \A j \in S : status[j] \in RowStatus \ {"encoding"}
    /\ status' = [j \in Job |-> IF j \in S THEN "deleted" ELSE status[j]]

Moves ==
    \/ \E j \in Job :
          Inserts(j) \/ Releases(j) \/ Claims(j) \/ GivesUp(j) \/ Finishes(j) \/ Requeues(j)
    \/ Recovers
    \/ \E S \in SUBSET Job : Retries(S) \/ Deletes(S)

StatusSpec == NoRows /\ [][Moves]_status

-----------------------------------------------------------------------------
\* The stage a row is in.
StageOf(s) ==
    CASE s \in NoRow               -> "none"
      [] s \in Waiting \cup {"ready"} -> "queued"
      [] s = "encoding"            -> "encoding"
      [] OTHER                     -> "over"

Stages == INSTANCE JobStages WITH stage <- [j \in Job |-> StageOf(status[j])]

\* Every move of the status is one of the moves between stages (queries.go).
ImplementsStages == Stages!Spec

=============================================================================
