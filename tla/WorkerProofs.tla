---------------------------- MODULE WorkerProofs ----------------------------
(***************************************************************************)
(* Theorems of Worker, for every set of jobs and runners, every limit and  *)
(* with or without failing statements.                                     *)
(***************************************************************************)
EXTENDS Worker, FiniteSetTheorems, TLAPS

\* The number of entries is a number: Job is finite.
LEMMA EntriesFinite ==
    IsFiniteSet(Entries) /\ Cardinality(Entries) \in Nat
BY JobAssumption, FS_Subset, FS_CardinalityType DEF Entries

\* What runEncodes takes for the free slots is no more than the limit.
LEMMA FreeSlotsType ==
    FreeSlots \in 0 .. MaxParallel
BY EntriesFinite, BoundAssumption DEF FreeSlots

\* Every action of the tick goroutine keeps the types.
LEMMA TickTypeOK ==
    ASSUME TypeOK, Tick
    PROVE  TypeOK'
<1> USE BoundAssumption, NoneAssumption DEF TypeOK, TickPhase, Alive
<1>1. CASE TickStarts
  BY <1>1 DEF TickStarts, rowVars, pauseVars, runVars, mapVars, startVars
<1>2. CASE SkipEncodes
  BY <1>2 DEF SkipEncodes, rowVars, pauseVars, runVars, mapVars, startVars
<1>3. CASE PassPauseCheck
  BY <1>3 DEF PassPauseCheck, rowVars, pauseVars, runVars, mapVars, startVars
<1>4. CASE TakeSlots
  BY <1>4, FreeSlotsType DEF TakeSlots, rowVars, pauseVars, runVars, mapVars, startVars
<1>5. CASE ListReady
  <2>1. batch' \subseteq Job /\ spent' \subseteq batch' /\ tick' \in {"sleep", "claim"} /\ slots' = 0
    BY <1>5 DEF ListReady
  <2>2. UNCHANGED <<rowVars, pauseVars, runVars, restarts>>
    BY <1>5 DEF ListReady
  <2> QED
    BY <2>1, <2>2 DEF rowVars, pauseVars, runVars, mapVars, startVars
<1>6. ASSUME NEW j \in Job, Release(j) PROVE TypeOK'
  BY <1>6 DEF Release, pauseVars, tickVars, runVars, mapVars, startVars, RowStatus
<1>7. ASSUME NEW j \in Job, ClaimRow(j) PROVE TypeOK'
  BY <1>7 DEF ClaimRow, Claimable, pauseVars, runVars, mapVars, startVars, RowStatus
<1>8. ASSUME NEW j \in Job, PassOverRow(j) PROVE TypeOK'
  BY <1>8 DEF PassOverRow, NextRow, rowVars, pauseVars, runVars, mapVars, startVars
<1>9. ASSUME NEW j \in Job, GiveUp(j) PROVE TypeOK'
  BY <1>9 DEF GiveUp, MarkJob, NextRow, pauseVars, runVars, mapVars, startVars, RowStatus, Terminal
<1>10. ASSUME NEW j \in Job, RefuseTempFile(j) PROVE TypeOK'
  BY <1>10 DEF RefuseTempFile, MarkJob, NextRow, pauseVars, runVars, mapVars, startVars, RowStatus, Terminal
<1>11. ASSUME NEW j \in Job, NEW g \in Runner, StartEncode(j, g) PROVE TypeOK'
  BY <1>11 DEF StartEncode, Register, NextRow, rowVars, pauseVars, RunPhase
<1> QED
  BY <1>1, <1>2, <1>3, <1>4, <1>5, <1>6, <1>7, <1>8, <1>9, <1>10, <1>11 DEF Tick

\* Every step of an encode goroutine keeps the types.
LEMMA RunTypeOK ==
    ASSUME TypeOK, NEW g \in Runner, Run(g)
    PROVE  TypeOK'
<1> USE BoundAssumption, NoneAssumption DEF TypeOK, RunPhase, Alive, Goes
<1>1. CASE RejectJob(g)
  BY <1>1 DEF RejectJob, MarkJob, pauseVars, tickVars, mapVars, startVars, RowStatus, Terminal
<1>2. CASE BeginEncode(g)
  BY <1>2 DEF BeginEncode, rowVars, pauseVars, tickVars, mapVars, startVars
<1>3. CASE EncodeFails(g)
  BY <1>3 DEF EncodeFails, rowVars, pauseVars, tickVars, mapVars, startVars
<1>4. CASE KeepOriginal(g)
  BY <1>4 DEF KeepOriginal, MarkJob, pauseVars, tickVars, mapVars, startVars, RowStatus, Terminal
<1>5. CASE EncodeCommits(g)
  BY <1>5 DEF EncodeCommits, rowVars, pauseVars, tickVars, mapVars, startVars
<1>6. CASE SettleError(g)
  BY <1>6 DEF SettleError, DropMark, rowVars, pauseVars, tickVars, startVars
<1>7. CASE RequeueEncoding(g)
  BY <1>7 DEF RequeueEncoding, Refund, rowVars, pauseVars, tickVars, mapVars, startVars, RowStatus
<1>8. CASE MarkFailed(g)
  BY <1>8 DEF MarkFailed, MarkJob, pauseVars, tickVars, mapVars, startVars, RowStatus, Terminal
<1>9. CASE MarkDone(g)
  BY <1>9 DEF MarkDone, pauseVars, tickVars, mapVars, startVars, RowStatus, Terminal
<1>10. CASE RefreshArr(g)
  BY <1>10 DEF RefreshArr, rowVars, pauseVars, tickVars, mapVars, startVars
<1>11. CASE Cleanup(g)
  BY <1>11 DEF Cleanup, DropEntry, DropMark, rowVars, pauseVars, tickVars
<1> HIDE DEF TypeOK, Alive, Goes
<1> QED
  BY <1>1, <1>2, <1>3, <1>4, <1>5, <1>6, <1>7, <1>8, <1>9, <1>10, <1>11 DEF Run

\* Every handler keeps the types.
LEMMA HandlerTypeOK ==
    ASSUME TypeOK, Handler
    PROVE  TypeOK'
<1> USE BoundAssumption, NoneAssumption DEF TypeOK, Alive
<1>1. ASSUME NEW j \in Job, InsertJob(j) PROVE TypeOK'
  BY <1>1 DEF InsertJob, pauseVars, tickVars, runVars, mapVars, startVars, RowStatus
<1>2. ASSUME NEW j \in Job, CancelEncoding(j) PROVE TypeOK'
  BY <1>2 DEF CancelEncoding, rowVars, pauseVars, tickVars, mapVars, startVars
<1>3. ASSUME NEW S \in SUBSET Job, RetryRows(S) PROVE TypeOK'
  BY <1>3 DEF RetryRows, pauseVars, tickVars, runVars, mapVars, startVars, RowStatus, Waiting
<1>4. ASSUME NEW S \in SUBSET Job, DeleteRows(S) PROVE TypeOK'
  BY <1>4 DEF DeleteRows, pauseVars, tickVars, runVars, mapVars, startVars, NoRow
<1>5. CASE WritePause \/ PutPaused \/ Resume
  BY <1>5 DEF WritePause, PutPaused, Resume, rowVars, tickVars, runVars, mapVars, startVars
<1>6. CASE CancelForPause
  BY <1>6 DEF CancelForPause, Marked, Entries, rowVars, tickVars, startVars
<1>7. ASSUME NEW j \in Job, DeleteJob(j) PROVE TypeOK'
  BY <1>7, <1>4 DEF DeleteJob
<1>8. CASE RetryAllFailed
  BY <1>8, <1>3 DEF RetryAllFailed
<1>9. ASSUME NEW ids \in SUBSET Job, RetryJobsByIDs(ids) \/ DeleteJobsByIDs(ids) PROVE TypeOK'
  BY <1>9, <1>3, <1>4 DEF RetryJobsByIDs, DeleteJobsByIDs
<1>10. ASSUME NEW statuses, DeleteTerminalJobs(statuses) PROVE TypeOK'
  BY <1>10, <1>4 DEF DeleteTerminalJobs
<1> HIDE DEF TypeOK, Alive
<1> QED
  BY <1>1, <1>2, <1>5, <1>6, <1>7, <1>8, <1>9, <1>10 DEF Handler

\* A restart keeps the types.
LEMMA RestartTypeOK ==
    ASSUME TypeOK, Restart
    PROVE  TypeOK'
<1> USE DEF Restart
<1>1. status' \in [Job -> RowStatus \cup NoRow] /\ attempts' \in [Job -> 0 .. MaxJobAttempts]
  BY DEF TypeOK, Recovered, RowStatus
<1>2. /\ encoding' \in [Job -> Runner \cup {NoRunner}]
      /\ requeueOnCancel' \subseteq Job
      /\ phase' \in [Runner -> RunPhase]
      /\ runJob' \in [Runner -> Job \cup {NoJob}]
      /\ cancelledBy' \in [Runner -> SUBSET {"user", "pause"}]
  BY DEF RunPhase
<1>3. \A g \in Alive' : runJob'[g] \in Job
  BY DEF Alive
<1>4. /\ tick' \in TickPhase
      /\ slots' \in 0 .. MaxParallel
      /\ batch' \subseteq Job
      /\ spent' \subseteq batch'
  BY BoundAssumption DEF TickPhase
<1>5. paused' \in BOOLEAN /\ pausing' \in BOOLEAN /\ overlapped' \in BOOLEAN
  BY Zenon DEF TypeOK
<1>6. restarts' \in 0 .. MaxRestarts
  BY BoundAssumption DEF TypeOK
<1> HIDE DEF Restart
<1> QED
  BY <1>1, <1>2, <1>3, <1>4, <1>5, <1>6 DEF TypeOK

\* The empty table and the new worker have them.
LEMMA InitTypeOK == Init => TypeOK
<1> SUFFICES ASSUME Init PROVE TypeOK
  OBVIOUS
<1> USE DEF Init
<1>1. status \in [Job -> RowStatus \cup NoRow] /\ attempts \in [Job -> 0 .. MaxJobAttempts]
  BY BoundAssumption DEF NoRow
<1>2. /\ encoding \in [Job -> Runner \cup {NoRunner}]
      /\ requeueOnCancel \subseteq Job
      /\ phase \in [Runner -> RunPhase]
      /\ runJob \in [Runner -> Job \cup {NoJob}]
      /\ cancelledBy \in [Runner -> SUBSET {"user", "pause"}]
  BY DEF RunPhase
<1>3. \A g \in Alive : runJob[g] \in Job
  BY DEF Alive
<1>4. /\ tick \in TickPhase
      /\ slots \in 0 .. MaxParallel
      /\ batch \subseteq Job
      /\ spent \subseteq batch
  BY BoundAssumption DEF TickPhase
<1>5. paused \in BOOLEAN /\ pausing \in BOOLEAN /\ overlapped \in BOOLEAN
  BY Zenon
<1>6. restarts \in 0 .. MaxRestarts
  BY BoundAssumption
<1> HIDE DEF Init
<1> QED
  BY <1>1, <1>2, <1>3, <1>4, <1>5, <1>6 DEF TypeOK

\* The variables keep their types.
THEOREM TypeCorrect == Spec => []TypeOK
<1>1. Init => TypeOK
  BY InitTypeOK
<1>2. TypeOK /\ [Next]_vars => TypeOK'
  <2>1. CASE UNCHANGED vars
    BY <2>1 DEF TypeOK, Alive, vars, rowVars, pauseVars, tickVars, runVars, mapVars, startVars
  <2> QED
    BY <2>1, TickTypeOK, RunTypeOK, HandlerTypeOK, RestartTypeOK DEF Next
<1> QED
  BY <1>1, <1>2, PTL DEF Spec

-----------------------------------------------------------------------------
(* The row of a run: why no other actor can move it. *)

\* The row the tick is about to start is claimed and nobody else's.
StartPending ==
    tick = "start" => \A j \in Job : AtRow(j) =>
        /\ status[j] = "encoding"
        /\ \A g \in Runner : phase[g] \in Unsettled => runJob[g] # j

\* A row listed with no attempt left cannot be claimed by anyone, so the
\* unconditional MarkJobFailed of the give-up meets it ready or deleted.
SpentRows ==
    \A j \in spent : status[j] = "deleted" \/ (status[j] = "ready" /\ attempts[j] = MaxJobAttempts)
GiveUpPending ==
    tick = "giveUp" => \A j \in Job : AtRow(j) => j \in spent

\* The inductive invariant about rows and runs.
Held ==
    /\ TypeOK
    /\ RunHoldsRow
    /\ OneRunPerJob
    /\ StartPending
    /\ SpentRows
    /\ GiveUpPending

\* Held looks at these variables only.
heldVars == <<rowVars, tick, batch, spent, phase, runJob>>

\* A step that leaves those alone keeps Held.
LEMMA HeldFrame ==
    ASSUME Held, TypeOK', UNCHANGED heldVars
    PROVE  Held'
BY DEF Held, heldVars, rowVars, RunHoldsRow, OneRunPerJob, StartPending, SpentRows, GiveUpPending, AtRow

\* The loop of runEncodes is at one row at a time.
LEMMA OneRow ==
    ASSUME NEW j \in Job, NEW k \in Job, AtRow(j), AtRow(k)
    PROVE  j = k
BY JobAssumption DEF AtRow

\* Marking a row that no run holds, which leaves the batch, disturbs nobody.
LEMMA MarkHeld ==
    ASSUME Held, TypeOK', NEW j \in Job, NEW s \in Terminal, MarkJob(j, s),
           NextRow(j), UNCHANGED <<attempts, runVars>>,
           \A g \in Runner : phase[g] \in Unsettled => runJob[g] # j
    PROVE  Held'
<1>1. \A k \in Job \ {j} : status'[k] = status[k]
  BY DEF MarkJob, Held, TypeOK
<1>2. UNCHANGED <<attempts, phase, runJob>> /\ tick' \in {"sleep", "claim"} /\ spent' = spent \ {j}
  BY DEF NextRow, runVars, startVars
<1>3. RunHoldsRow'
  BY <1>1, <1>2 DEF Held, RunHoldsRow, TypeOK, Unsettled, Alive
<1>4. OneRunPerJob'
  BY <1>2 DEF Held, OneRunPerJob
<1>5. StartPending' /\ GiveUpPending'
  BY <1>2 DEF StartPending, GiveUpPending
<1>6. SpentRows'
  BY <1>1, <1>2 DEF Held, SpentRows, TypeOK
<1> QED
  BY <1>3, <1>4, <1>5, <1>6 DEF Held

\* The tick goroutine keeps Held: it claims a row before it starts its run.
LEMMA TickHeld ==
    ASSUME Held, TypeOK', Tick
    PROVE  Held'
<1>1. CASE TickStarts \/ SkipEncodes \/ PassPauseCheck \/ TakeSlots
  BY <1>1 DEF Held, RunHoldsRow, OneRunPerJob, StartPending, SpentRows, GiveUpPending, AtRow,
              TickStarts, SkipEncodes, PassPauseCheck, TakeSlots, rowVars, runVars, startVars
<1>2. CASE ListReady
  <2>1. \A j \in spent' : j \in spent \/ (j \in Job /\ status[j] = "ready" /\ attempts[j] >= MaxJobAttempts)
    BY <1>2 DEF ListReady
  <2>2. tick' \in {"sleep", "claim"} /\ UNCHANGED <<rowVars, runVars>>
    BY <1>2 DEF ListReady
  <2>3. SpentRows'
    BY <2>1, <2>2, BoundAssumption DEF Held, SpentRows, TypeOK, rowVars
  <2> QED
    BY <2>2, <2>3 DEF Held, RunHoldsRow, OneRunPerJob, StartPending, GiveUpPending, rowVars, runVars, startVars
<1>3. ASSUME NEW j \in Job, Release(j) PROVE Held'
  BY <1>3 DEF Held, TypeOK, RunHoldsRow, OneRunPerJob, StartPending, SpentRows, GiveUpPending, AtRow,
              Release, Waiting, tickVars, runVars, startVars
<1>4. ASSUME NEW j \in Job, ClaimRow(j) PROVE Held'
  <2>1. /\ status[j] = "ready" /\ attempts[j] < MaxJobAttempts
        /\ status' = [status EXCEPT ![j] = "encoding"]
        /\ attempts' = [attempts EXCEPT ![j] = @ + 1]
        /\ tick' = "start" /\ UNCHANGED <<batch, spent, phase, runJob>>
    BY <1>4 DEF ClaimRow, Claimable, runVars, startVars
  <2>2. StartPending'
    <3>1. \A k \in Job : AtRow(k)' => k = j
      BY <1>4, <2>1, OneRow DEF ClaimRow, AtRow
    <3>2. \A g \in Runner : phase[g] \in Unsettled => runJob[g] # j
      BY <2>1 DEF Held, RunHoldsRow
    <3> QED
      BY <2>1, <3>1, <3>2 DEF StartPending, Held, TypeOK
  <2>3. SpentRows'
    BY <2>1, BoundAssumption DEF Held, SpentRows, TypeOK
  <2> QED
    BY <2>1, <2>2, <2>3 DEF Held, TypeOK, RunHoldsRow, OneRunPerJob, GiveUpPending
<1>5. ASSUME NEW j \in Job, PassOverRow(j) PROVE Held'
  <2>1. tick' = "giveUp" => j \in spent /\ AtRow(j) /\ UNCHANGED batch
    BY <1>5 DEF PassOverRow, NextRow
  <2>2. tick' # "start" /\ spent' \in SUBSET spent /\ UNCHANGED <<status, attempts, phase, runJob>>
    BY <1>5 DEF PassOverRow, NextRow, rowVars, runVars, startVars
  <2>3. tick' = "giveUp" => UNCHANGED spent
    BY <1>5 DEF PassOverRow, NextRow
  <2>4. GiveUpPending'
    BY <2>1, <2>3, OneRow DEF GiveUpPending, AtRow
  <2> QED
    BY <2>2, <2>4 DEF Held, RunHoldsRow, OneRunPerJob, StartPending, SpentRows
<1>6. ASSUME NEW j \in Job, GiveUp(j) PROVE Held'
  <2>1. \A g \in Runner : phase[g] \in Unsettled => runJob[g] # j
    BY <1>6 DEF GiveUp, Held, GiveUpPending, SpentRows, RunHoldsRow
  <2> QED
    BY <1>6, <2>1, MarkHeld DEF GiveUp, Terminal
<1>7. ASSUME NEW j \in Job, RefuseTempFile(j) PROVE Held'
  <2>1. \A g \in Runner : phase[g] \in Unsettled => runJob[g] # j
    BY <1>7 DEF RefuseTempFile, Held, StartPending
  <2> QED
    BY <1>7, <2>1, MarkHeld DEF RefuseTempFile, Terminal
<1>8. ASSUME NEW j \in Job, NEW g \in Runner, StartEncode(j, g) PROVE Held'
  BY <1>8 DEF Held, TypeOK, RunHoldsRow, OneRunPerJob, StartPending, SpentRows, GiveUpPending, AtRow,
              StartEncode, NextRow, Unsettled, rowVars
<1> QED
  BY <1>1, <1>2, <1>3, <1>4, <1>5, <1>6, <1>7, <1>8 DEF Tick

\* A run that gives its row an outcome disturbs no other run.
LEMMA RunHeld ==
    ASSUME Held, TypeOK', NEW g \in Runner, Run(g)
    PROVE  Held'
<1>1. CASE phase[g] \in Unsettled
  <2>1. /\ runJob[g] \in Job /\ status[runJob[g]] = "encoding"
        /\ UNCHANGED <<tickVars, runJob>>
        /\ \A h \in Runner \ {g} : phase'[h] = phase[h]
        /\ \A k \in Job \ {runJob[g]} : status'[k] = status[k] /\ attempts'[k] = attempts[k]
        /\ phase'[g] \in Unsettled => UNCHANGED rowVars
    BY <1>1
    DEF Held, RunHoldsRow, TypeOK, Alive, Unsettled, Run, Goes, RejectJob, BeginEncode, EncodeFails,
         KeepOriginal,
        EncodeCommits, SettleError, RequeueEncoding, MarkFailed, MarkDone, RefreshArr, Cleanup,
        MarkJob, startVars, rowVars
  <2>2. \A h \in Runner \ {g} : phase[h] \in Unsettled => runJob[h] # runJob[g]
    BY <1>1 DEF Held, OneRunPerJob
  <2>3. RunHoldsRow'
    BY <2>1, <2>2 DEF Held, TypeOK, RunHoldsRow, Unsettled, Alive, rowVars
  <2>4. OneRunPerJob'
    BY <1>1, <2>1 DEF Held, OneRunPerJob
  <2>5. StartPending'
    <3>1. tick = "start" => \A j \in Job : AtRow(j) => j # runJob[g]
      BY <1>1 DEF Held, StartPending
    <3> QED
      BY <1>1, <2>1, <3>1 DEF Held, StartPending, AtRow, tickVars
  <2>6. SpentRows'
    <3>1. runJob[g] \notin spent
      BY <2>1 DEF Held, SpentRows
    <3> QED
      BY <2>1, <3>1 DEF Held, TypeOK, SpentRows, tickVars
  <2>7. GiveUpPending'
    BY <2>1 DEF Held, GiveUpPending, AtRow, tickVars
  <2> QED
    BY <2>3, <2>4, <2>5, <2>6, <2>7 DEF Held
<1>2. CASE phase[g] \notin Unsettled
  <2>1. /\ \A h \in Runner : phase'[h] \in Unsettled => phase'[h] = phase[h] /\ runJob'[h] = runJob[h]
        /\ UNCHANGED <<rowVars, tickVars>>
    BY <1>2
    DEF Held, TypeOK, Unsettled, Run, Goes, RejectJob, BeginEncode, EncodeFails, KeepOriginal, EncodeCommits,
        SettleError, RequeueEncoding, MarkFailed, MarkDone, RefreshArr, Cleanup, startVars
  <2> QED
    BY <2>1 DEF Held, RunHoldsRow, OneRunPerJob, StartPending, SpentRows, GiveUpPending, AtRow, rowVars,
         tickVars
<1> QED
  BY <1>1, <1>2

\* Users only move rows that are not being encoded.
LEMMA HandlerHeld ==
    ASSUME Held, TypeOK', Handler
    PROVE  Held'
<1>1. ASSUME NEW S \in SUBSET Job,
             \A j \in S : status[j] # "encoding" /\ (j \in spent => status'[j] = "deleted"),
             \A j \in Job \ S : status'[j] = status[j] /\ attempts'[j] = attempts[j],
             UNCHANGED <<tickVars, phase, runJob>>
      PROVE  Held'
  <2>1. RunHoldsRow' /\ OneRunPerJob'
    BY <1>1 DEF Held, TypeOK, RunHoldsRow, OneRunPerJob, Unsettled, Alive
  <2>2. StartPending' /\ GiveUpPending'
    BY <1>1 DEF Held, StartPending, GiveUpPending, AtRow, tickVars
  <2>3. SpentRows'
    BY <1>1 DEF Held, TypeOK, SpentRows, tickVars
  <2> QED
    BY <2>1, <2>2, <2>3 DEF Held
<1>2. ASSUME NEW j \in Job, InsertJob(j) PROVE Held'
  <2> DEFINE S == {j}
  <2>1. \A k \in S : status[k] # "encoding" /\ k \notin spent
    BY <1>2 DEF InsertJob, Held, SpentRows
  <2>2. \A k \in Job \ S : status'[k] = status[k] /\ attempts'[k] = attempts[k]
    BY <1>2 DEF InsertJob, Held, TypeOK
  <2>3. UNCHANGED <<tickVars, phase, runJob>>
    BY <1>2 DEF InsertJob, runVars, startVars
  <2>4. S \in SUBSET Job
    OBVIOUS
  <2> HIDE DEF S
  <2> QED
    BY <2>1, <2>2, <2>3, <2>4, <1>1
<1>3. ASSUME NEW S \in SUBSET Job, RetryRows(S), \A j \in S : status[j] \in Terminal PROVE Held'
  <2>1. \A j \in S : status[j] # "encoding" /\ j \notin spent
    BY <1>3 DEF Held, SpentRows, Terminal
  <2>2. \A j \in Job \ S : status'[j] = status[j] /\ attempts'[j] = attempts[j]
    BY <1>3 DEF RetryRows
  <2>3. UNCHANGED <<tickVars, phase, runJob>>
    BY <1>3 DEF RetryRows, runVars, startVars
  <2> QED
    BY <2>1, <2>2, <2>3, <1>1
<1>4. ASSUME NEW S \in SUBSET Job, DeleteRows(S), \A j \in S : status[j] # "encoding" PROVE Held'
  <2>1. \A j \in Job \ S : status'[j] = status[j] /\ attempts'[j] = attempts[j]
    BY <1>4 DEF DeleteRows
  <2>2. \A j \in S : status'[j] = "deleted"
    BY <1>4 DEF DeleteRows
  <2>3. UNCHANGED <<tickVars, phase, runJob>>
    BY <1>4 DEF DeleteRows, runVars, startVars
  <2> QED
    BY <1>4, <2>1, <2>2, <2>3, <1>1
<1>5. CASE WritePause \/ PutPaused \/ Resume \/ CancelForPause
  BY <1>5, HeldFrame DEF WritePause, PutPaused, Resume, CancelForPause, heldVars, tickVars, runVars, startVars
<1>6. ASSUME NEW j \in Job, CancelEncoding(j) PROVE Held'
  BY <1>6, HeldFrame DEF CancelEncoding, heldVars, tickVars, startVars
<1>7. ASSUME NEW j \in Job, DeleteJob(j) PROVE Held'
  BY <1>7, <1>4 DEF DeleteJob, Terminal
<1>8. CASE RetryAllFailed
  BY <1>8, <1>3 DEF RetryAllFailed, Terminal
<1>9. ASSUME NEW ids \in SUBSET Job, RetryJobsByIDs(ids) PROVE Held'
  BY <1>9, <1>3 DEF RetryJobsByIDs, Retryable
<1>10. ASSUME NEW ids \in SUBSET Job, DeleteJobsByIDs(ids) PROVE Held'
  BY <1>10, <1>4 DEF DeleteJobsByIDs
<1>11. ASSUME NEW statuses, DeleteTerminalJobs(statuses) PROVE Held'
  BY <1>11, <1>4 DEF DeleteTerminalJobs, Deletable
<1> QED
  BY <1>2, <1>5, <1>6, <1>7, <1>8, <1>9, <1>10, <1>11 DEF Handler

\* The runs and the tick do not survive a restart.
LEMMA RestartHeld ==
    ASSUME TypeOK', Restart
    PROVE  Held'
<1>1. spent' = {} /\ tick' = "sleep" /\ \A g \in Runner : phase'[g] = "idle"
  BY DEF Restart
<1> QED
  BY <1>1 DEF Held, RunHoldsRow, OneRunPerJob, StartPending, SpentRows, GiveUpPending, Unsettled

\* Between its claim and its outcome a row stays in encoding and belongs to one
\* run (MarkJobEncoding, encodeOne, the guards of the retry and delete queries).
THEOREM HeldAlways == Spec => []Held
<1>1. Init => Held
  <2>1. Init => TypeOK
    BY InitTypeOK
  <2> QED
    BY <2>1 DEF Init, Held, RunHoldsRow, OneRunPerJob, StartPending, SpentRows, GiveUpPending, Unsettled
<1>2. Held /\ TypeOK' /\ [Next]_vars => Held'
  <2>1. ASSUME Held, TypeOK', UNCHANGED vars PROVE Held'
    BY <2>1, HeldFrame DEF vars, heldVars, tickVars, runVars, startVars
  <2> QED
    BY <2>1, TickHeld, RunHeld, HandlerHeld, RestartHeld DEF Next
<1> QED
  BY <1>1, <1>2, TypeCorrect, PTL DEF Spec

\* A run that owes its row an outcome holds the row.
THEOREM RunsHoldTheirRows == Spec => []RunHoldsRow
BY HeldAlways, PTL DEF Held

\* A job is never encoded twice at the same time.
THEOREM OneRunAtATime == Spec => []OneRunPerJob
BY HeldAlways, PTL DEF Held

-----------------------------------------------------------------------------
(* The jobs table: Worker implements JobLifecycle. *)

\* What a row has been charged.  A restart hands a claimed row back without a
\* refund, so the claimed row may be one ahead of the restarts.
Charges ==
    \A j \in Job :
        /\ status[j] \in Waiting \cup {"ready"} => attempts[j] <= restarts
        /\ status[j] = "encoding" => attempts[j] \in 1 .. restarts + 1
        /\ status[j] \in NoRow => attempts[j] = 0

\* A move of the jobs table other than the recovery of a restart.
RowMove ==
    \/ \E j \in Job :
          \/ Lifecycle!Insert(j) \/ Lifecycle!Release(j) \/ Lifecycle!Claim(j)
          \/ Lifecycle!GiveUp(j) \/ Lifecycle!Finish(j) \/ Lifecycle!Requeue(j)
    \/ \E S \in SUBSET Job : Lifecycle!Retry(S) \/ Lifecycle!Delete(S)

\* Marking a claimed row finishes it, or the statement failed.
LEMMA MarkFinishes ==
    ASSUME TypeOK, NEW j \in Job, NEW s \in Terminal, MarkJob(j, s), status[j] = "encoding", UNCHANGED attempts
    PROVE  RowMove \/ UNCHANGED rowVars
<1>1. CASE UNCHANGED status
  BY <1>1 DEF rowVars
<1>2. CASE status' = [status EXCEPT ![j] = s]
  BY <1>2 DEF RowMove, Lifecycle!Finish, Lifecycle!Finishes, Lifecycle!Terminal, Terminal
<1> QED
  BY <1>1, <1>2 DEF MarkJob, Exists, RowStatus

\* What the tick goroutine does to the table is a move of JobLifecycle.
LEMMA TickMovesRows ==
    ASSUME Held, Tick
    PROVE  RowMove \/ UNCHANGED rowVars
<1>1. CASE TickStarts \/ SkipEncodes \/ PassPauseCheck \/ TakeSlots \/ ListReady
  BY <1>1 DEF TickStarts, SkipEncodes, PassPauseCheck, TakeSlots, ListReady
<1>2. ASSUME NEW j \in Job, Release(j) PROVE RowMove
  BY <1>2 DEF Release, RowMove, Lifecycle!Release, Lifecycle!Releases, Waiting, Lifecycle!Waiting
<1>3. ASSUME NEW j \in Job, ClaimRow(j) PROVE RowMove
  BY <1>3 DEF ClaimRow, Claimable, RowMove, Lifecycle!Claim, Lifecycle!Claims
<1>4. ASSUME NEW j \in Job, PassOverRow(j) PROVE UNCHANGED rowVars
  BY <1>4 DEF PassOverRow
<1>5. ASSUME NEW j \in Job, GiveUp(j) PROVE RowMove \/ UNCHANGED rowVars
  <2>1. CASE status[j] = "ready" /\ attempts[j] = MaxJobAttempts
    BY <1>5, <2>1 DEF GiveUp, MarkJob, Exists, RowStatus, RowMove, Lifecycle!GiveUp, Lifecycle!GivesUp, rowVars
  <2>2. CASE status[j] = "deleted"
    BY <1>5, <2>2 DEF GiveUp, MarkJob, Exists, RowStatus, Waiting, Terminal, rowVars
  <2> QED
    BY <1>5, <2>1, <2>2 DEF GiveUp, Held, GiveUpPending, SpentRows
<1>6. ASSUME NEW j \in Job, RefuseTempFile(j) PROVE RowMove \/ UNCHANGED rowVars
  BY <1>6, MarkFinishes DEF RefuseTempFile, Held, StartPending, Terminal
<1>7. ASSUME NEW j \in Job, NEW g \in Runner, StartEncode(j, g) PROVE UNCHANGED rowVars
  BY <1>7 DEF StartEncode
<1> QED
  BY <1>1, <1>2, <1>3, <1>4, <1>5, <1>6, <1>7 DEF Tick

\* So is what an encode goroutine does, though MarkJob* and RequeueEncoding have
\* no guard of their own.
LEMMA RunMovesRows ==
    ASSUME Held, Charges, NEW g \in Runner, Run(g)
    PROVE  RowMove \/ UNCHANGED rowVars
<1> DEFINE j == runJob[g]
<1>1. phase[g] \in Unsettled => j \in Job /\ status[j] = "encoding"
  BY DEF Held, RunHoldsRow, TypeOK, Alive, Unsettled
<1>2. CASE BeginEncode(g) \/ EncodeFails(g) \/ EncodeCommits(g) \/ SettleError(g) \/ RefreshArr(g) \/ Cleanup(g)
  BY <1>2 DEF BeginEncode, EncodeFails, EncodeCommits, SettleError, RefreshArr, Cleanup
<1>3. CASE RejectJob(g) \/ KeepOriginal(g) \/ MarkFailed(g)
  BY <1>1, <1>3, MarkFinishes DEF RejectJob, KeepOriginal, MarkFailed, Goes, Unsettled, Held, Terminal
<1>4. CASE MarkDone(g)
  <2>1. CASE UNCHANGED status
    BY <1>4, <2>1 DEF MarkDone, rowVars
  <2>2. CASE status' = [status EXCEPT ![j] = "done"]
    BY <1>1, <1>4, <2>2 DEF MarkDone, Goes, Unsettled, RowMove, Lifecycle!Finish, Lifecycle!Finishes,
         Lifecycle!Terminal
  <2> QED
    BY <1>4, <2>1, <2>2 DEF MarkDone
<1>5. CASE RequeueEncoding(g)
  <2>1. CASE UNCHANGED rowVars
    BY <2>1
  <2>2. CASE /\ status' = [status EXCEPT ![j] = "ready"]
             /\ attempts' = [attempts EXCEPT ![j] = Refund(@)]
    <3>1. j \in Job /\ status[j] = "encoding" /\ Refund(attempts[j]) = attempts[j] - 1
      BY <1>1, <1>5 DEF RequeueEncoding, Goes, Unsettled, Charges, Refund
    <3> QED
      BY <2>2, <3>1 DEF RowMove, Lifecycle!Requeue, Lifecycle!Requeues
  <2> QED
    BY <1>5, <2>1, <2>2 DEF RequeueEncoding
<1> QED
  BY <1>2, <1>3, <1>4, <1>5 DEF Run

\* So is what the HTTP handlers do, by the guards of their queries.
LEMMA HandlerMovesRows ==
    ASSUME Handler
    PROVE  RowMove \/ UNCHANGED rowVars
<1>1. ASSUME NEW S \in SUBSET Job, RetryRows(S), \A j \in S : status[j] \in Terminal PROVE RowMove
  BY <1>1 DEF RetryRows, RowMove, Lifecycle!Retry, Lifecycle!Retries, Lifecycle!Forgive, Lifecycle!Terminal,
       Terminal
<1>2. ASSUME NEW S \in SUBSET Job, DeleteRows(S), \A j \in S : status[j] \in RowStatus \ {"encoding"} PROVE RowMove
  BY <1>2 DEF DeleteRows, RowMove, Lifecycle!Delete, Lifecycle!Deletes, Lifecycle!Forgive,
       Lifecycle!RowStatus, RowStatus, Lifecycle!Waiting,
              Waiting, Lifecycle!Terminal, Terminal
<1>3. ASSUME NEW j \in Job, InsertJob(j) PROVE RowMove
  BY <1>3 DEF InsertJob, RowMove, Lifecycle!Insert, Lifecycle!Inserts, Lifecycle!Waiting, Waiting
<1>4. ASSUME NEW j \in Job, CancelEncoding(j) PROVE UNCHANGED rowVars
  BY <1>4 DEF CancelEncoding
<1>5. CASE WritePause \/ CancelForPause \/ PutPaused \/ Resume
  BY <1>5 DEF WritePause, CancelForPause, PutPaused, Resume
<1>6. ASSUME NEW j \in Job, DeleteJob(j) PROVE RowMove
  BY <1>6, <1>2 DEF DeleteJob, Terminal, RowStatus
<1>7. CASE RetryAllFailed
  BY <1>7, <1>1 DEF RetryAllFailed, Terminal
<1>8. ASSUME NEW ids \in SUBSET Job, RetryJobsByIDs(ids) PROVE RowMove
  BY <1>8, <1>1 DEF RetryJobsByIDs, Retryable
<1>9. ASSUME NEW ids \in SUBSET Job, DeleteJobsByIDs(ids) PROVE RowMove
  BY <1>9, <1>2 DEF DeleteJobsByIDs, Exists
<1>10. ASSUME NEW statuses, DeleteTerminalJobs(statuses) PROVE RowMove
  BY <1>10, <1>2 DEF DeleteTerminalJobs, Deletable
<1> QED
  BY <1>3, <1>4, <1>5, <1>6, <1>7, <1>8, <1>9, <1>10 DEF Handler

\* Every move keeps the charges; only a restart raises their limit.
LEMMA MoveCharges ==
    ASSUME TypeOK, Charges, RowMove, UNCHANGED restarts
    PROVE  Charges'
<1> USE DEF TypeOK, Charges, Waiting, NoRow, Terminal, RowStatus
<1>1. ASSUME NEW j \in Job, Lifecycle!Insert(j) \/ Lifecycle!Release(j) PROVE Charges'
  BY <1>1 DEF Lifecycle!Insert, Lifecycle!Inserts, Lifecycle!Release, Lifecycle!Releases, Lifecycle!Waiting
<1>2. ASSUME NEW j \in Job, Lifecycle!Claim(j) PROVE Charges'
  BY <1>2 DEF Lifecycle!Claim, Lifecycle!Claims
<1>3. ASSUME NEW j \in Job, Lifecycle!GiveUp(j) \/ Lifecycle!Finish(j) PROVE Charges'
  BY <1>3 DEF Lifecycle!GiveUp, Lifecycle!GivesUp, Lifecycle!Finish, Lifecycle!Finishes, Lifecycle!Terminal
<1>4. ASSUME NEW j \in Job, Lifecycle!Requeue(j) PROVE Charges'
  BY <1>4 DEF Lifecycle!Requeue, Lifecycle!Requeues
<1>5. ASSUME NEW S \in SUBSET Job, Lifecycle!Retry(S) PROVE Charges'
  BY <1>5 DEF Lifecycle!Retry, Lifecycle!Retries, Lifecycle!Forgive
<1>6. ASSUME NEW S \in SUBSET Job, Lifecycle!Delete(S) PROVE Charges'
  BY <1>6 DEF Lifecycle!Delete, Lifecycle!Deletes, Lifecycle!Forgive
<1> HIDE DEF TypeOK, Charges
<1> QED
  BY <1>1, <1>2, <1>3, <1>4, <1>5, <1>6 DEF RowMove

\* A row that is encoding has been charged for it, so the refund of a pause
\* (RequeueEncoding) never makes attempts negative.
THEOREM ChargesAlways == Spec => []Charges
<1>1. Init => Charges
  BY BoundAssumption DEF Init, Charges, Waiting
<1>2. Held /\ TypeOK' /\ Charges /\ [Next]_vars => Charges'
  <2>1. ASSUME Held, Charges, UNCHANGED restarts, RowMove \/ UNCHANGED rowVars PROVE Charges'
    BY <2>1, MoveCharges DEF Held, Charges, rowVars
  <2>2. CASE UNCHANGED vars
    BY <2>1, <2>2 DEF vars
  <2>3. ASSUME Held, Charges, Restart PROVE Charges'
    BY <2>3, BoundAssumption DEF Held, TypeOK, Charges, Restart, Recovered, Waiting, NoRow
  <2>4. ASSUME Tick PROVE UNCHANGED restarts
    BY <2>4 DEF Tick, TickStarts, SkipEncodes, PassPauseCheck, TakeSlots, ListReady, Release, ClaimRow,
                PassOverRow, GiveUp, RefuseTempFile, StartEncode
  <2>5. ASSUME NEW g \in Runner, Run(g) PROVE UNCHANGED restarts
    BY <2>5 DEF Run, RejectJob, BeginEncode, EncodeFails, KeepOriginal, EncodeCommits, SettleError,
                RequeueEncoding, MarkFailed, MarkDone, RefreshArr, Cleanup
  <2>6. ASSUME Handler PROVE UNCHANGED restarts
    BY <2>6 DEF Handler, InsertJob, CancelEncoding, DeleteJob, WritePause, CancelForPause, PutPaused, Resume,
                RetryAllFailed, RetryJobsByIDs, DeleteJobsByIDs, DeleteTerminalJobs, RetryRows, DeleteRows
  <2> QED
    BY <2>1, <2>2, <2>3, <2>4, <2>5, <2>6, TickMovesRows, RunMovesRows, HandlerMovesRows DEF Next
<1> QED
  BY <1>1, <1>2, HeldAlways, TypeCorrect, PTL DEF Spec

\* Only restarts use up attempts.
THEOREM RestartsUseUpAttempts == Spec => []AttemptsCountRestarts
<1>1. Charges => AttemptsCountRestarts
  BY DEF Charges, AttemptsCountRestarts
<1> QED
  BY <1>1, ChargesAlways, PTL

\* Every step of the worker, of its runs, of the handlers and of a restart is
\* a move the jobs table allows, or leaves the table alone.
THEOREM WorkerImplementsLifecycle == Spec => ImplementsLifecycle
<1>1. Init => Lifecycle!Init
  BY DEF Init, Lifecycle!Init, Lifecycle!NoRows
<1>2. Held /\ Charges /\ [Next]_vars => [Lifecycle!Next]_(Lifecycle!vars)
  <2>1. RowMove => Lifecycle!Next
    BY DEF RowMove, Lifecycle!Next
  <2>2. UNCHANGED rowVars => UNCHANGED Lifecycle!vars
    BY DEF rowVars, Lifecycle!vars
  <2>3. Restart => Lifecycle!Next \/ UNCHANGED rowVars
    BY DEF Restart, Recovered, Lifecycle!Next, Lifecycle!Recover, Lifecycle!Recovers, rowVars
  <2>4. UNCHANGED vars => UNCHANGED rowVars
    BY DEF vars
  <2> QED
    BY <2>1, <2>2, <2>3, <2>4, TickMovesRows, RunMovesRows, HandlerMovesRows DEF Next
<1> QED
  BY <1>1, <1>2, HeldAlways, ChargesAlways, PTL DEF Spec, ImplementsLifecycle, Lifecycle!Spec

=============================================================================
