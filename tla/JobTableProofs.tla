--------------------------- MODULE JobTableProofs ---------------------------
(***************************************************************************)
(* The three specifications of the jobs table, one above the other: with   *)
(* its attempts left out JobLifecycle is JobStatus, and seen in stages     *)
(* JobStatus is JobStages.  So what implements one of them implements all  *)
(* above it: Worker the three, Gates the last two.                         *)
(***************************************************************************)
EXTENDS JobLifecycle, TLAPS

\* Charging attempts restricts the moves of the status and adds none.
THEOREM LifecycleMovesStatus == Spec => StatusSpec
<1>1. Init => NoRows
  BY DEF Init
<1>2. [Next]_vars => [Moves]_status
  <2>1. ASSUME NEW j \in Job, Insert(j) \/ Release(j) \/ Claim(j) \/ GiveUp(j) \/ Finish(j) \/ Requeue(j)
        PROVE  Moves
    BY <2>1 DEF Moves, Insert, Release, Claim, GiveUp, Finish, Requeue
  <2>2. Recover => Moves
    BY DEF Moves, Recover
  <2>3. ASSUME NEW S \in SUBSET Job, Retry(S) \/ Delete(S) PROVE Moves
    BY <2>3 DEF Moves, Retry, Delete
  <2> QED
    BY <2>1, <2>2, <2>3 DEF Next, vars
<1> QED
  BY <1>1, <1>2, PTL DEF Spec, StatusSpec

-----------------------------------------------------------------------------

\* What the moves do to the stages needs a row to have a status at all.
THEOREM StatusTypes == StatusSpec => []StatusOK
<1> USE DEF StatusOK, RowStatus, NoRow, Waiting, Terminal
<1>1. NoRows => StatusOK
  BY DEF NoRows
<1>2. StatusOK /\ [Moves]_status => StatusOK'
  <2>1. ASSUME StatusOK, NEW j \in Job,
               Inserts(j) \/ Releases(j) \/ Claims(j) \/ GivesUp(j) \/ Finishes(j) \/ Requeues(j)
        PROVE  StatusOK'
    BY <2>1 DEF Inserts, Releases, Claims, GivesUp, Finishes, Requeues
  <2>2. StatusOK /\ Recovers => StatusOK'
    BY DEF Recovers
  <2>3. ASSUME StatusOK, NEW S \in SUBSET Job, Retries(S) \/ Deletes(S) PROVE StatusOK'
    BY <2>3 DEF Retries, Deletes
  <2> HIDE DEF StatusOK, RowStatus, NoRow, Waiting, Terminal
  <2>4. StatusOK /\ UNCHANGED status => StatusOK'
    BY DEF StatusOK
  <2> QED
    BY <2>1, <2>2, <2>3, <2>4 DEF Moves
<1> QED
  BY <1>1, <1>2, PTL DEF StatusSpec

\* The rows S go to status t in one statement, from statuses of the stage here.
LEMMA StatementGoes ==
    ASSUME StatusOK, NEW S \in SUBSET Job, NEW t, NEW here,
           \A j \in S : StageOf(status[j]) = here,
           status' = [j \in Job |-> IF j \in S THEN t ELSE status[j]]
    PROVE  Stages!Go(S, here, StageOf(t))
BY DEF Stages!Go

\* One row goes, as EXCEPT writes it.
LEMMA RowGoes ==
    ASSUME StatusOK, NEW j \in Job, NEW t, status' = [status EXCEPT ![j] = t]
    PROVE  Stages!Go({j}, StageOf(status[j]), StageOf(t))
<1>1. status' = [k \in Job |-> IF k \in {j} THEN t ELSE status[k]]
  BY DEF StatusOK
<1> QED
  BY <1>1, StatementGoes

\* The stages of the statuses.
LEMMA StageTable ==
    /\ \A s \in NoRow : StageOf(s) = "none"
    /\ \A s \in Waiting \cup {"ready"} : StageOf(s) = "queued"
    /\ StageOf("encoding") = "encoding"
    /\ \A s \in Terminal : StageOf(s) = "over"
BY DEF StageOf, NoRow, Waiting, Terminal

\* Every move of the status column is a move between the stages, or a gate
\* that opens, which the stages do not show.
THEOREM StatusMovesStages == StatusSpec => ImplementsStages
<1>1. NoRows => Stages!Init
  BY StageTable DEF NoRows, Stages!Init, NoRow
<1>2. StatusOK /\ [Moves]_status => [Stages!Next]_([j \in Job |-> StageOf(status[j])])
  <2> USE StageTable
  <2>1. ASSUME StatusOK, NEW j \in Job, Inserts(j) PROVE Stages!Queue(j)
    BY <2>1, RowGoes DEF Inserts, NoRow, Stages!Queue
  <2>2. ASSUME StatusOK, NEW j \in Job, Releases(j) PROVE UNCHANGED [k \in Job |-> StageOf(status[k])]
    BY <2>2 DEF Releases, StatusOK
  <2>3. ASSUME StatusOK, NEW j \in Job, Claims(j) PROVE Stages!Claim(j)
    BY <2>3, RowGoes DEF Claims, Stages!Claim
  <2>4. ASSUME StatusOK, NEW j \in Job, GivesUp(j) PROVE Stages!GiveUp(j)
    BY <2>4, RowGoes DEF GivesUp, Terminal, Stages!GiveUp
  <2>5. ASSUME StatusOK, NEW j \in Job, Finishes(j) PROVE Stages!End(j)
    <3>1. PICK s \in Terminal : status' = [status EXCEPT ![j] = s]
      BY <2>5 DEF Finishes
    <3>2. Stages!Go({j}, StageOf(status[j]), StageOf(s))
      BY <2>5, <3>1, RowGoes
    <3> QED
      BY <2>5, <3>1, <3>2 DEF Finishes, Stages!End
  <2>6. ASSUME StatusOK, NEW j \in Job, Requeues(j) PROVE Stages!HandBack({j})
    BY <2>6, RowGoes DEF Requeues, Stages!HandBack
  <2>7. ASSUME StatusOK, Recovers PROVE \E S \in SUBSET Job : Stages!HandBack(S)
    <3> DEFINE S == {j \in Job : status[j] = "encoding"}
    <3>1. status' = [j \in Job |-> IF j \in S THEN "ready" ELSE status[j]]
      BY <2>7 DEF Recovers
    <3>2. Stages!Go(S, "encoding", StageOf("ready"))
      BY <2>7, <3>1, StatementGoes
    <3> QED
      BY <3>2 DEF Stages!HandBack
  <2>8. ASSUME StatusOK, NEW S \in SUBSET Job, Retries(S) PROVE Stages!Retry(S)
    BY <2>8, StatementGoes DEF Retries, Waiting, Stages!Retry
  <2>9. ASSUME StatusOK, NEW S \in SUBSET Job, Deletes(S) PROVE Stages!Delete(S)
    <3>1. \A j \in S : StageOf(status[j]) \in {"queued", "over"}
      BY <2>9 DEF Deletes, RowStatus
    <3>2. StageOf("deleted") = "none"
      BY DEF NoRow
    <3> QED
      BY <2>9, <3>1, <3>2 DEF Deletes, Stages!Delete
  <2> QED
    BY <2>1, <2>2, <2>3, <2>4, <2>5, <2>6, <2>7, <2>8, <2>9 DEF Moves, Stages!Next
<1> QED
  BY <1>1, <1>2, StatusTypes, PTL DEF StatusSpec, ImplementsStages, Stages!Spec

=============================================================================
