------------------------------ MODULE JobStages ------------------------------
(***************************************************************************)
(* The jobs table as the parts of the program that do not look at its      *)
(* gates see it: there is no row, or it waits for its encode, is being     *)
(* encoded, or is over.  The statements of internal/store/queries.go that  *)
(* write to the table are the moves.  JobStatus says more of the waiting;  *)
(* MediaFile and ProfileChoice, which have tables of their own, implement  *)
(* this specification as it stands.                                        *)
(***************************************************************************)

CONSTANT Job      \* the rows, by their ids or by what they are for

VARIABLE stage    \* stage[j]: "none" before an INSERT and after a DELETE

Stage == {"none", "queued", "encoding", "over"}

\* A row is in one of the stages.
TypeOK == stage \in [Job -> Stage]

Init == stage = [j \in Job |-> "none"]

\* The rows S go from one stage to another in one statement.
Go(S, here, there) ==
    /\ \A j \in S : stage[j] = here
    /\ stage' = [j \in Job |-> IF j \in S THEN there ELSE stage[j]]

Queue(j)    == Go({j}, "none", "queued")
Claim(j)    == Go({j}, "queued", "encoding")
End(j)      == Go({j}, "encoding", "over")

\* A row with no attempt left ends without an encode.
GiveUp(j)   == Go({j}, "queued", "over")

\* A pause hands back one row, a restart all.
HandBack(S) == Go(S, "encoding", "queued")
Retry(S)    == Go(S, "over", "queued")

\* A row that is being encoded cannot be deleted.
Delete(S) ==
    /\ \A j \in S : stage[j] \in {"queued", "over"}
    /\ stage' = [j \in Job |-> IF j \in S THEN "none" ELSE stage[j]]

Next ==
    \/ \E j \in Job : Queue(j) \/ Claim(j) \/ End(j) \/ GiveUp(j)
    \/ \E S \in SUBSET Job : HandBack(S) \/ Retry(S) \/ Delete(S)

Spec == Init /\ [][Next]_stage

=============================================================================
