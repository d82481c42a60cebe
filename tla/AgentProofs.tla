----------------------------- MODULE AgentProofs -----------------------------
(***************************************************************************)
(* Proofs about the agent and its client.  What AgentSession promises is   *)
(* said of each job by itself, and so is the inductive invariant.          *)
(***************************************************************************)
EXTENDS AgentSession, FiniteSetTheorems, TLAPS

-----------------------------------------------------------------------------
(* The inductive invariant *)

\* The goroutine of j has an outcome to record, or has recorded it.
Ended(j) == goroutine[j] \in {"finish", "publish", "close", "exit"}

OutcomeKnown(j) == Ended(j) => outcome[j] \in JobTerminal

RunHasState(j) ==
    /\ mem[j] = "encoding" => Encoding(j)
    /\ Encoding(j) => mem[j] \in {"encoding", "none"}

UploadWaits(j) == j \in uploading => mem[j] \in {"awaiting_source", "none"}

\* Neither the process nor the disk knows the job (any more).
Gone(j) == mem[j] = "none" /\ disk[j] = "none"

Deletes(j) ==
    /\ deleting[j] = "files" => mem[j] = "none"
    /\ deleting[j] = "removed" => Gone(j)

\* Nobody but Create knows a job before it is in Store.jobs.
NotYet(j) ==
    /\ creating[j] = "new" => disk[j] = "none"
    /\ creating[j] \in {"new", "dir", "written"} =>
         /\ mem[j] = "none" /\ deleting[j] = "no" /\ j \notin uploading /\ output[j] = "none"
         /\ goroutine[j] = "none" /\ stream[j] = "none" /\ channel[j] = {}
         /\ client[j] \in {"idle", "creating", "failed"}

\* Whatever says that the job is done, its output has been published.
OutputThere(j) ==
    \/ disk[j] = "done" \/ mem[j] = "done"
    \/ Ended(j) /\ outcome[j] = "done"
    \/ "done" \in channel[j] \/ stream[j] = "done" \/ client[j] = "fetching"
    => output[j] # "none"

\* An output goes with its job, until a restart; Recodarr takes one from the
\* share only after its call.
OutputLost(j) ==
    /\ output[j] = "removed" => mem[j] = "none" \/ agentRestarts > 0
    /\ output[j] = "taken" => client[j] \in {"succeeded", "failed"}

JobInv(j) ==
    /\ OutcomeKnown(j) /\ RunHasState(j) /\ UploadWaits(j)
    /\ Deletes(j) /\ NotYet(j) /\ OutputThere(j) /\ OutputLost(j)

Inv == TypeOK /\ \A j \in Job : JobInv(j)

LEMMA TypesInductive ==
  ASSUME Inv, [Next]_vars
  PROVE  TypeOK'
<1> USE DEF Inv, TypeOK, JobInv, OutcomeKnown, Ended, Goroutine, InCall, Client, agentVars, fileVars,
     handlerVars, runnerVars, streamVars, JobTerminal, JobState
<1>1. ASSUME NEW j \in Job, PostJob(j) PROVE TypeOK'
  BY <1>1 DEF PostJob, MakeJobDir, GoTo, AgentUnchanged
<1>2. ASSUME NEW j \in Job, JobCreated(j) PROVE TypeOK'
  BY <1>2 DEF JobCreated, GoTo, AgentUnchanged
<1>3. ASSUME NEW j \in Job, PutSource(j) PROVE TypeOK'
  BY <1>3 DEF PutSource, StartUpload, GoTo, AgentUnchanged
<1>4. ASSUME NEW j \in Job, SourceAnswered(j) PROVE TypeOK'
  BY <1>4 DEF SourceAnswered, EndUpload, Update, WriteManifest, GoTo, AgentUnchanged
<1>5. ASSUME NEW j \in Job, SourceRefused(j) PROVE TypeOK'
  BY <1>5 DEF SourceRefused, BreakUpload, GoTo, AgentUnchanged
<1>6. ASSUME NEW j \in Job, GetEvents(j) PROVE TypeOK'
  BY <1>6 DEF GetEvents, OpenStream, GoTo, AgentUnchanged
<1>7. ASSUME NEW j \in Job, StreamTold(j) PROVE TypeOK'
  BY <1>7 DEF StreamTold, GoTo, AgentUnchanged
<1>8. ASSUME NEW j \in Job, StreamEnded(j) PROVE TypeOK'
  BY <1>8 DEF StreamEnded, GoTo, AgentUnchanged
<1>9. ASSUME NEW j \in Job, Poll(j) PROVE TypeOK'
  BY <1>9 DEF Poll, IsDone, GoTo, AgentUnchanged
<1>10. ASSUME NEW j \in Job, FetchOutput(j) PROVE TypeOK'
  BY <1>10 DEF FetchOutput, IsDone, GoTo, AgentUnchanged
<1>11. ASSUME NEW j \in Job, CallFails(j) PROVE TypeOK'
  BY <1>11 DEF CallFails, Refused, Abandoned, GoTo, AgentUnchanged
<1>12. ASSUME NEW j \in Job, GiveUp(j) PROVE TypeOK'
  BY <1>12 DEF GiveUp, DropStream, Abandoned, GoTo, AgentUnchanged
<1>13. ASSUME NEW j \in Job, SendDelete(j) PROVE TypeOK'
  BY <1>13 DEF SendDelete, CancelToDelete, GoTo, AgentUnchanged
<1>14. ASSUME NEW j \in Job, WriteFirstManifest(j), UNCHANGED client PROVE TypeOK'
  BY <1>14 DEF WriteFirstManifest, InitialState
<1>15. ASSUME NEW j \in Job, AddJob(j), UNCHANGED client PROVE TypeOK'
  BY <1>15 DEF AddJob, InitialState
<1>16. ASSUME NEW j \in Job, Subscribe(j), UNCHANGED client PROVE TypeOK'
  BY <1>16 DEF Subscribe
<1>17. ASSUME NEW j \in Job, EndStream(j), UNCHANGED client PROVE TypeOK'
  BY <1>17 DEF EndStream
<1>18. ASSUME NEW j \in Job, ForgetJob(j), UNCHANGED client PROVE TypeOK'
  BY <1>18 DEF ForgetJob
<1>19. ASSUME NEW j \in Job, RemoveFiles(j), UNCHANGED client PROVE TypeOK'
  BY <1>19 DEF RemoveFiles, OutputInDir
<1>20. ASSUME NEW j \in Job, OrphanUpload(j), UNCHANGED client PROVE TypeOK'
  BY <1>20 DEF OrphanUpload, EndUpload, BreakUpload, Update, WriteManifest
<1>21. ASSUME NEW j \in Job, Expire(j), UNCHANGED client PROVE TypeOK'
  BY <1>21 DEF Expire
<1>22. ASSUME NEW j \in Job, LookUp(j), UNCHANGED client PROVE TypeOK'
  BY <1>22 DEF LookUp
<1>23. ASSUME NEW j \in Job, RegisterRun(j), UNCHANGED client PROVE TypeOK'
  BY <1>23 DEF RegisterRun
<1>24. ASSUME NEW j \in Job, OpenLog(j), UNCHANGED client PROVE TypeOK'
  BY <1>24 DEF OpenLog
<1>25. ASSUME NEW j \in Job, EncodeSucceeds(j), UNCHANGED client PROVE TypeOK'
  BY <1>25 DEF EncodeSucceeds
<1>26. ASSUME NEW j \in Job, EncodeFails(j), UNCHANGED client PROVE TypeOK'
  BY <1>26 DEF EncodeFails, FailureOutcome
<1>27. ASSUME NEW j \in Job, Finish(j), UNCHANGED client PROVE TypeOK'
  BY <1>27 DEF Finish, Update, WriteManifest
<1>28. ASSUME NEW j \in Job, PublishOutcome(j), UNCHANGED client PROVE TypeOK'
  BY <1>28 DEF PublishOutcome
<1>29. ASSUME NEW j \in Job, CloseSubscribers(j), UNCHANGED client PROVE TypeOK'
  BY <1>29 DEF CloseSubscribers, CloseChannel
<1>30. ASSUME NEW j \in Job, EndRun(j), UNCHANGED client PROVE TypeOK'
  BY <1>30 DEF EndRun, FreeSlot
<1>31. ASSUME NEW j \in Job, Claim(j), UNCHANGED client PROVE TypeOK'
  <2>1. free' \in 0..MaxParallel
    BY <1>31, AgentBoundAssumption DEF Claim
  <2> QED
    BY <1>31, <2>1 DEF Claim
<1>32. CASE CountSlots /\ UNCHANGED client
  <2>1. free' \in 0..MaxParallel
    <3>1. Cardinality(active) \in Nat
      BY AgentJobAssumption, FS_Subset, FS_CardinalityType
    <3> QED
      BY <1>32, <3>1, AgentBoundAssumption DEF CountSlots, FreeSlots
  <2> QED
    BY <1>32, <2>1 DEF CountSlots
<1>33. CASE FindNothing /\ UNCHANGED client
  <2>1. free' \in 0..MaxParallel
    BY <1>33, AgentBoundAssumption DEF FindNothing
  <2> QED
    BY <1>33, <2>1 DEF FindNothing
<1>34. CASE AgentRestart /\ UNCHANGED client
  <2>1. free' \in 0..MaxParallel /\ agentRestarts' \in 0..MaxRestarts
    BY <1>34, AgentBoundAssumption DEF AgentRestart
  <2>2. \A j \in Job : Scanned(j) \in JobState \cup {"none"}
    BY DEF Scanned
  <2>3. mem' \in [Job -> JobState \cup {"none"}] /\ disk' \in [Job -> JobState \cup {"none", "empty"}]
    BY <1>34, <2>2 DEF AgentRestart
  <2> QED
    BY <1>34, <2>1, <2>3 DEF AgentRestart
<1>35. CASE UNCHANGED vars
  BY <1>35 DEF vars
<1>36. ASSUME NEW j \in Job, RemoveEntry(j), UNCHANGED client PROVE TypeOK'
  BY <1>36 DEF RemoveEntry, OutputInDir
<1>37. ASSUME NEW j \in Job, TakeShared(j) PROVE TypeOK'
  BY <1>37 DEF TakeShared
<1> HIDE DEF Inv, TypeOK, JobInv, OutcomeKnown, Ended, Goroutine, InCall, Client
<1> QED
  BY <1>1, <1>2, <1>3, <1>4, <1>5, <1>6, <1>7, <1>8, <1>9, <1>10, <1>11, <1>12, <1>13, <1>14, <1>15, <1>16,
       <1>17, <1>18, <1>19, <1>20, <1>21, <1>22, <1>23, <1>24, <1>25, <1>26, <1>27, <1>28, <1>29, <1>30,
       <1>31, <1>32, <1>33, <1>34, <1>35, <1>36, <1>37
     DEF Next, ClientSteps, ServerSteps, RunSteps, LoopSteps

LEMMA JobsInductive ==
  ASSUME Inv, [Next]_vars, NEW k \in Job
  PROVE  JobInv(k)'
<1> USE DEF Inv, TypeOK, JobInv, OutcomeKnown, RunHasState, UploadWaits, Gone, Deletes, NotYet, OutputThere, OutputLost,
     Ended, Encoding, agentVars, fileVars, handlerVars, runnerVars, streamVars, JobTerminal, JobState
<1>1. ASSUME NEW j \in Job, PostJob(j) PROVE JobInv(k)'
  BY <1>1 DEF PostJob, MakeJobDir, GoTo, AgentUnchanged
<1>2. ASSUME NEW j \in Job, JobCreated(j) PROVE JobInv(k)'
  BY <1>2 DEF JobCreated, GoTo, AgentUnchanged
<1>3. ASSUME NEW j \in Job, PutSource(j) PROVE JobInv(k)'
  BY <1>3 DEF PutSource, StartUpload, GoTo, AgentUnchanged
<1>4. ASSUME NEW j \in Job, SourceAnswered(j) PROVE JobInv(k)'
  BY <1>4 DEF SourceAnswered, EndUpload, Update, WriteManifest, GoTo, AgentUnchanged
<1>5. ASSUME NEW j \in Job, SourceRefused(j) PROVE JobInv(k)'
  BY <1>5 DEF SourceRefused, BreakUpload, GoTo, AgentUnchanged
<1>6. ASSUME NEW j \in Job, GetEvents(j) PROVE JobInv(k)'
  BY <1>6 DEF GetEvents, OpenStream, GoTo, AgentUnchanged
<1>7. ASSUME NEW j \in Job, StreamTold(j) PROVE JobInv(k)'
  BY <1>7 DEF StreamTold, GoTo, AgentUnchanged
<1>8. ASSUME NEW j \in Job, StreamEnded(j) PROVE JobInv(k)'
  BY <1>8 DEF StreamEnded, GoTo, AgentUnchanged
<1>9. ASSUME NEW j \in Job, Poll(j) PROVE JobInv(k)'
  BY <1>9 DEF Poll, IsDone, GoTo, AgentUnchanged
<1>10. ASSUME NEW j \in Job, FetchOutput(j) PROVE JobInv(k)'
  BY <1>10 DEF FetchOutput, IsDone, GoTo, AgentUnchanged
<1>11. ASSUME NEW j \in Job, CallFails(j) PROVE JobInv(k)'
  BY <1>11 DEF CallFails, Refused, Abandoned, GoTo, AgentUnchanged
<1>12. ASSUME NEW j \in Job, GiveUp(j) PROVE JobInv(k)'
  <2>1. CASE k # j
    BY <1>12, <2>1 DEF GiveUp, DropStream, Abandoned, AgentUnchanged
  <2>2. CASE k = j /\ client[j] = "watching"
    BY <1>12, <2>2 DEF GiveUp, DropStream, Abandoned
  <2>3. CASE k = j /\ client[j] # "watching"
    <3>1. UNCHANGED agentVars
      BY <1>12, <2>3 DEF GiveUp, AgentUnchanged
    <3>2. client'[k] = IF client[k] = "creating" THEN "failed" ELSE "undoing"
      BY <1>12, <2>3 DEF GiveUp, Abandoned
    <3>3. client[k] \in InCall
      BY <1>12, <2>3 DEF GiveUp
    <3> QED
      BY <3>1, <3>2, <3>3 DEF InCall
  <2> QED
    BY <2>1, <2>2, <2>3
<1>13. ASSUME NEW j \in Job, SendDelete(j) PROVE JobInv(k)'
  BY <1>13 DEF SendDelete, CancelToDelete, GoTo, AgentUnchanged
<1>14. ASSUME NEW j \in Job, WriteFirstManifest(j), UNCHANGED client PROVE JobInv(k)'
  BY <1>14 DEF WriteFirstManifest, InitialState
<1>15. ASSUME NEW j \in Job, AddJob(j), UNCHANGED client PROVE JobInv(k)'
  BY <1>15 DEF AddJob, InitialState
<1>16. ASSUME NEW j \in Job, Subscribe(j), UNCHANGED client PROVE JobInv(k)'
  BY <1>16 DEF Subscribe
<1>17. ASSUME NEW j \in Job, EndStream(j), UNCHANGED client PROVE JobInv(k)'
  BY <1>17 DEF EndStream
<1>18. ASSUME NEW j \in Job, ForgetJob(j), UNCHANGED client PROVE JobInv(k)'
  BY <1>18 DEF ForgetJob
<1>19. ASSUME NEW j \in Job, RemoveFiles(j), UNCHANGED client PROVE JobInv(k)'
  BY <1>19 DEF RemoveFiles, OutputInDir
<1>20. ASSUME NEW j \in Job, OrphanUpload(j), UNCHANGED client PROVE JobInv(k)'
  BY <1>20 DEF OrphanUpload, EndUpload, BreakUpload, Update, WriteManifest
<1>21. ASSUME NEW j \in Job, Expire(j), UNCHANGED client PROVE JobInv(k)'
  BY <1>21 DEF Expire
<1>22. ASSUME NEW j \in Job, LookUp(j), UNCHANGED client PROVE JobInv(k)'
  BY <1>22 DEF LookUp
<1>23. ASSUME NEW j \in Job, RegisterRun(j), UNCHANGED client PROVE JobInv(k)'
  BY <1>23 DEF RegisterRun
<1>24. ASSUME NEW j \in Job, OpenLog(j), UNCHANGED client PROVE JobInv(k)'
  BY <1>24 DEF OpenLog
<1>25. ASSUME NEW j \in Job, EncodeSucceeds(j), UNCHANGED client PROVE JobInv(k)'
  BY <1>25 DEF EncodeSucceeds, CanPublish
<1>26. ASSUME NEW j \in Job, EncodeFails(j), UNCHANGED client PROVE JobInv(k)'
  BY <1>26 DEF EncodeFails, FailureOutcome
<1>27. ASSUME NEW j \in Job, Finish(j), UNCHANGED client PROVE JobInv(k)'
  BY <1>27 DEF Finish, Update, WriteManifest
<1>28. ASSUME NEW j \in Job, PublishOutcome(j), UNCHANGED client PROVE JobInv(k)'
  BY <1>28 DEF PublishOutcome
<1>29. ASSUME NEW j \in Job, CloseSubscribers(j), UNCHANGED client PROVE JobInv(k)'
  BY <1>29 DEF CloseSubscribers, CloseChannel
<1>30. ASSUME NEW j \in Job, EndRun(j), UNCHANGED client PROVE JobInv(k)'
  BY <1>30 DEF EndRun, FreeSlot
<1>31. ASSUME NEW j \in Job, Claim(j), UNCHANGED client PROVE JobInv(k)'
  BY <1>31 DEF Claim, Queued
<1>32. CASE CountSlots /\ UNCHANGED client
  BY <1>32 DEF CountSlots
<1>33. CASE FindNothing /\ UNCHANGED client
  BY <1>33 DEF FindNothing
<1>34. CASE AgentRestart /\ UNCHANGED client
  BY <1>34 DEF AgentRestart, Scanned
<1>35. CASE UNCHANGED vars
  BY <1>35 DEF vars
<1>36. ASSUME NEW j \in Job, RemoveEntry(j), UNCHANGED client PROVE JobInv(k)'
  BY <1>36 DEF RemoveEntry, OutputInDir
<1>37. ASSUME NEW j \in Job, TakeShared(j) PROVE JobInv(k)'
  BY <1>37 DEF TakeShared
<1> HIDE DEF Inv, TypeOK, JobInv, OutcomeKnown, RunHasState, UploadWaits, Gone, Deletes, NotYet,
     OutputThere, OutputLost, Ended, Encoding
<1> QED
  BY <1>1, <1>2, <1>3, <1>4, <1>5, <1>6, <1>7, <1>8, <1>9, <1>10, <1>11, <1>12, <1>13, <1>14, <1>15, <1>16,
       <1>17, <1>18, <1>19, <1>20, <1>21, <1>22, <1>23, <1>24, <1>25, <1>26, <1>27, <1>28, <1>29, <1>30,
       <1>31, <1>32, <1>33, <1>34, <1>35, <1>36, <1>37
     DEF Next, ClientSteps, ServerSteps, RunSteps, LoopSteps

-----------------------------------------------------------------------------
(* The theorems *)

LEMMA InvHolds == Spec => []Inv
<1>1. Init => Inv
  <2> SUFFICES ASSUME Init PROVE Inv
    OBVIOUS
  <2>1. TypeOK
    BY AgentBoundAssumption DEF Init, AgentInit, TypeOK, JobState, Goroutine, Client
  <2>2. ASSUME NEW j \in Job PROVE JobInv(j)
    BY DEF Init, AgentInit, JobInv, OutcomeKnown, RunHasState, UploadWaits, Deletes, NotYet,
           OutputThere, OutputLost, Ended, Encoding
  <2> QED
    BY <2>1, <2>2 DEF Inv
<1>2. ASSUME Inv, [Next]_vars PROVE Inv'
  BY <1>2, TypesInductive, JobsInductive DEF Inv
<1> QED
  BY <1>1, <1>2, PTL DEF Spec

\* For every set of jobs and number of slots and restarts, the variables of
\* the agent and its client stay in their ranges (AgentRunner, AgentSession).
THEOREM SessionTypes == Spec => []TypeOK
<1>1. Inv => TypeOK
  BY DEF Inv
<1> QED
  BY <1>1, InvHolds, PTL

\* A job in state encoding always has a goroutine that will end it, whatever
\* writes fail and wherever the agent is restarted (scan, encode, finish).
THEOREM EncodesHaveGoroutines == Spec => []EncodingHasGoroutine
<1>1. Inv => EncodingHasGoroutine
  BY DEF Inv, JobInv, RunHasState, EncodingHasGoroutine
<1> QED
  BY <1>1, InvHolds, PTL

\* No goroutine, upload or clean-up brings a deleted job back (Update, Delete).
THEOREM DeletedJobsStayDeleted == Spec => []DeletedStaysDeleted
<1>1. Inv => DeletedStaysDeleted
  BY DEF Inv, JobInv, Deletes, Gone, DeletedStaysDeleted
<1> QED
  BY <1>1, InvHolds, PTL

\* A job that is done has its output, also after a restart (encode, finish, scan).
THEOREM DoneJobsHaveOutput == Spec => []DoneHasOutput
<1>1. Inv => DoneHasOutput
  BY DEF Inv, TypeOK, JobInv, OutputThere, OutputLost, DoneHasOutput, HalfRemoved
<1> QED
  BY <1>1, InvHolds, PTL

\* A client that has seen its job done, in the stream or by asking, finds the
\* output unless the job is gone (watchUntilDone, poll).
THEOREM SuccessesAreEncoded == Spec => []SuccessIsEncoded
<1>1. Inv => SuccessIsEncoded
  BY DEF Inv, TypeOK, JobInv, OutputThere, OutputLost, SuccessIsEncoded, HalfRemoved
<1> QED
  BY <1>1, InvHolds, PTL

\* A job's state only moves forward, but for a restart that finds an older
\* manifest (Update, ClaimQueued, finish, scan).
THEOREM StatesAdvance == Spec => StatesOnlyAdvance
<1> DEFINE Forward(j) == mem[j] # "none" /\ mem'[j] \notin {"none", mem[j]} =>
             \/ Rank(mem[j]) < Rank(mem'[j])
             \/ AgentRestart /\ disk[j] # mem[j]
<1>1. ASSUME Inv, Next, NEW k \in Job PROVE Forward(k)
  <2> USE DEF Inv, TypeOK, JobInv, JobState, JobTerminal, Rank
  <2>1. CASE mem' = mem
    BY <2>1
  <2>2. ASSUME NEW j \in Job, Update(j, "queued"), j \in uploading PROVE Forward(k)
    BY <1>1, <2>2 DEF Update, UploadWaits
  <2>3. ASSUME NEW j \in Job, AddJob(j) PROVE Forward(k)
    BY <1>1, <2>3 DEF AddJob, NotYet
  <2>4. ASSUME NEW j \in Job, ForgetJob(j) PROVE Forward(k)
    BY <2>4 DEF ForgetJob
  <2>5. ASSUME NEW j \in Job, Claim(j) PROVE Forward(k)
    BY <1>1, <2>5 DEF Claim, Queued
  <2>6. ASSUME NEW j \in Job, Finish(j) PROVE Forward(k)
    BY <1>1, <2>6 DEF Finish, Update, OutcomeKnown, RunHasState, Ended, Encoding
  <2>7. CASE AgentRestart
    BY <2>7 DEF AgentRestart, Scanned
  <2> HIDE DEF Inv, TypeOK, JobInv, JobState, JobTerminal, Rank, Forward
  <2>8. ASSUME NEW j \in Job, ClientSteps(j) \/ PostJob(j) \/ SourceRefused(j) \/ GiveUp(j) \/ TakeShared(j) PROVE Forward(k)
    BY <2>1, <2>2, <2>8
       DEF ClientSteps, PostJob, MakeJobDir, JobCreated, PutSource, StartUpload, SourceAnswered, EndUpload,
           SourceRefused, BreakUpload, GetEvents, OpenStream, StreamTold, StreamEnded, Poll, FetchOutput,
           CallFails, GiveUp, DropStream, SendDelete, CancelToDelete, TakeShared, AgentUnchanged, agentVars
  <2>9. ASSUME NEW j \in Job, ServerSteps(j) \/ OrphanUpload(j) \/ Expire(j) PROVE Forward(k)
    BY <2>1, <2>2, <2>3, <2>4, <2>9
       DEF ServerSteps, WriteFirstManifest, Subscribe, EndStream, RemoveEntry, RemoveFiles, OrphanUpload, EndUpload,
           BreakUpload, Expire
  <2>10. ASSUME NEW j \in Job, RunSteps(j) PROVE Forward(k)
    BY <2>1, <2>6, <2>10
       DEF RunSteps, LookUp, RegisterRun, OpenLog, EncodeSucceeds, EncodeFails, PublishOutcome,
           CloseSubscribers, EndRun, fileVars
  <2>11. CASE LoopSteps
    BY <2>1, <2>5, <2>11 DEF LoopSteps, CountSlots, FindNothing
  <2> QED
    BY <1>1, <2>7, <2>8, <2>9, <2>10, <2>11 DEF Next
<1>2. Inv /\ [Next]_vars => [\A j \in Job : mem[j] # "none" /\ mem'[j] \notin {"none", mem[j]} =>
               \/ Rank(mem[j]) < Rank(mem'[j])
               \/ AgentRestart /\ disk[j] # mem[j]]_vars
  <2>1. CASE Inv /\ Next
    BY <1>1, <2>1
  <2>2. CASE UNCHANGED vars
    BY <2>2
  <2> QED
    BY <2>1, <2>2
<1> QED
  BY <1>2, InvHolds, PTL DEF Spec, StatesOnlyAdvance

-----------------------------------------------------------------------------
(* What a goroutine owes: its slot, and the end of the stream *)

\* The positions between registering a run and giving its slot back.
HoldsSlot(j) == goroutine[j] \in {"registered", "running", "finish", "publish", "close", "exit"}

\* A slot is taken exactly as long as a goroutine will give it back, and only
\* such a goroutine can have been cancelled.
HeldSlot(j) == (j \in active <=> HoldsSlot(j)) /\ (j \in cancelled => j \in active)

\* A job whose end is recorded is not queued again.
Recorded(j) == goroutine[j] \in {"publish", "close", "exit"} => mem[j] \in JobTerminal \cup {"none"}

\* A job that is being deleted has been given up by its client, or has ended.
WhoDeletes(j) ==
    deleting[j] # "no" =>
        \/ client[j] \in {"succeeded", "failed"}
        \/ mem[j] \in JobTerminal \cup {"none"} /\ ~Encoding(j)

\* Only the client of a job watches it, and while it does the job is not taken
\* from under its goroutine: store.Get finds it and its end is published.
Watched(j) ==
    /\ stream[j] \in {"opened", "listening"} => client[j] = "watching"
    /\ Encoding(j) /\ mem[j] = "none" => client[j] \in {"succeeded", "failed"}

OwedInv(j) == HeldSlot(j) /\ Recorded(j) /\ WhoDeletes(j) /\ Watched(j)

LEMMA OwedInductive ==
  ASSUME NEW k \in Job, Inv, OwedInv(k), [Next]_vars
  PROVE  OwedInv(k)'
<1> USE DEF Inv, TypeOK, JobInv, RunHasState, UploadWaits, NotYet, Encoding, OwedInv, HeldSlot, HoldsSlot,
     Recorded, WhoDeletes, Watched,
            Goroutine, agentVars, fileVars, handlerVars, runnerVars, streamVars, JobTerminal, JobState
<1>1. ASSUME NEW j \in Job, PostJob(j) PROVE OwedInv(k)'
  BY <1>1 DEF PostJob, MakeJobDir, GoTo, AgentUnchanged
<1>2. ASSUME NEW j \in Job, JobCreated(j) PROVE OwedInv(k)'
  BY <1>2 DEF JobCreated, GoTo, AgentUnchanged
<1>3. ASSUME NEW j \in Job, PutSource(j) PROVE OwedInv(k)'
  BY <1>3 DEF PutSource, StartUpload, GoTo, AgentUnchanged
<1>4. ASSUME NEW j \in Job, SourceAnswered(j) PROVE OwedInv(k)'
  BY <1>4 DEF SourceAnswered, EndUpload, Update, WriteManifest, GoTo, AgentUnchanged
<1>5. ASSUME NEW j \in Job, SourceRefused(j) PROVE OwedInv(k)'
  BY <1>5 DEF SourceRefused, BreakUpload, GoTo, AgentUnchanged
<1>6. ASSUME NEW j \in Job, GetEvents(j) PROVE OwedInv(k)'
  BY <1>6 DEF GetEvents, OpenStream, GoTo, AgentUnchanged
<1>7. ASSUME NEW j \in Job, StreamTold(j) PROVE OwedInv(k)'
  BY <1>7 DEF StreamTold, GoTo, AgentUnchanged
<1>8. ASSUME NEW j \in Job, StreamEnded(j) PROVE OwedInv(k)'
  BY <1>8 DEF StreamEnded, GoTo, AgentUnchanged
<1>9. ASSUME NEW j \in Job, Poll(j) PROVE OwedInv(k)'
  BY <1>9 DEF Poll, IsDone, GoTo, AgentUnchanged
<1>10. ASSUME NEW j \in Job, FetchOutput(j) PROVE OwedInv(k)'
  BY <1>10 DEF FetchOutput, IsDone, GoTo, AgentUnchanged
<1>11. ASSUME NEW j \in Job, CallFails(j) PROVE OwedInv(k)'
  BY <1>11 DEF CallFails, Refused, Abandoned, GoTo, AgentUnchanged
<1>12. ASSUME NEW j \in Job, GiveUp(j) PROVE OwedInv(k)'
  BY <1>12 DEF GiveUp, DropStream, Abandoned, InCall, AgentUnchanged
<1>13. ASSUME NEW j \in Job, SendDelete(j) PROVE OwedInv(k)'
  <2>1. /\ client'[k] = client[k] \/ client'[k] \in {"succeeded", "failed"}
        /\ client[k] = "watching" => client'[k] = "watching"
        /\ client[k] \in {"succeeded", "failed"} => client'[k] = client[k]
    BY <1>13 DEF SendDelete
  <2>2. CASE CancelToDelete(j)
    <3>1. k = j => client'[k] \in {"succeeded", "failed"}
      BY <1>13 DEF SendDelete
    <3>2. deleting' = [deleting EXCEPT ![j] = "memory"] /\ UNCHANGED <<mem, goroutine, active, stream>>
      BY <2>2 DEF CancelToDelete
    <3>3. k \in cancelled' => k \in active'
      BY <2>2 DEF CancelToDelete
    <3>4. HeldSlot(k)' /\ Recorded(k)'
      BY <3>2, <3>3
    <3>5. WhoDeletes(k)'
      BY <2>1, <3>1, <3>2
    <3>6. Watched(k)'
      BY <2>1, <3>2
    <3> QED
      BY <3>4, <3>5, <3>6
  <2>3. CASE AgentUnchanged
    BY <2>1, <2>3 DEF AgentUnchanged
  <2> QED
    BY <1>13, <2>2, <2>3 DEF SendDelete
<1>14. ASSUME NEW j \in Job, WriteFirstManifest(j), UNCHANGED client PROVE OwedInv(k)'
  BY <1>14 DEF WriteFirstManifest, InitialState
<1>15. ASSUME NEW j \in Job, AddJob(j), UNCHANGED client PROVE OwedInv(k)'
  BY <1>15 DEF AddJob, InitialState
<1>16. ASSUME NEW j \in Job, Subscribe(j), UNCHANGED client PROVE OwedInv(k)'
  BY <1>16 DEF Subscribe
<1>17. ASSUME NEW j \in Job, EndStream(j), UNCHANGED client PROVE OwedInv(k)'
  BY <1>17 DEF EndStream
<1>18. ASSUME NEW j \in Job, ForgetJob(j), UNCHANGED client PROVE OwedInv(k)'
  BY <1>18 DEF ForgetJob
<1>19. ASSUME NEW j \in Job, RemoveFiles(j), UNCHANGED client PROVE OwedInv(k)'
  BY <1>19 DEF RemoveFiles, OutputInDir
<1>20. ASSUME NEW j \in Job, OrphanUpload(j), UNCHANGED client PROVE OwedInv(k)'
  BY <1>20 DEF OrphanUpload, EndUpload, BreakUpload, Update, WriteManifest
<1>21. ASSUME NEW j \in Job, Expire(j), UNCHANGED client PROVE OwedInv(k)'
  BY <1>21 DEF Expire
<1>22. ASSUME NEW j \in Job, LookUp(j), UNCHANGED client PROVE OwedInv(k)'
  BY <1>22 DEF LookUp
<1>23. ASSUME NEW j \in Job, RegisterRun(j), UNCHANGED client PROVE OwedInv(k)'
  BY <1>23 DEF RegisterRun
<1>24. ASSUME NEW j \in Job, OpenLog(j), UNCHANGED client PROVE OwedInv(k)'
  BY <1>24 DEF OpenLog
<1>25. ASSUME NEW j \in Job, EncodeSucceeds(j), UNCHANGED client PROVE OwedInv(k)'
  BY <1>25 DEF EncodeSucceeds, CanPublish
<1>26. ASSUME NEW j \in Job, EncodeFails(j), UNCHANGED client PROVE OwedInv(k)'
  BY <1>26 DEF EncodeFails, FailureOutcome
<1>27. ASSUME NEW j \in Job, Finish(j), UNCHANGED client PROVE OwedInv(k)'
  BY <1>27 DEF Finish, Update, WriteManifest
<1>28. ASSUME NEW j \in Job, PublishOutcome(j), UNCHANGED client PROVE OwedInv(k)'
  BY <1>28 DEF PublishOutcome
<1>29. ASSUME NEW j \in Job, CloseSubscribers(j), UNCHANGED client PROVE OwedInv(k)'
  BY <1>29 DEF CloseSubscribers, CloseChannel
<1>30. ASSUME NEW j \in Job, EndRun(j), UNCHANGED client PROVE OwedInv(k)'
  BY <1>30 DEF EndRun, FreeSlot
<1>31. ASSUME NEW j \in Job, Claim(j), UNCHANGED client PROVE OwedInv(k)'
  <2>1. CASE mem' = [mem EXCEPT ![j] = "encoding"] /\ goroutine' = [goroutine EXCEPT ![j] = "spawned"]
    <3>1. mem[j] = "queued" /\ UNCHANGED <<active, cancelled, deleting, stream, client>>
      BY <1>31 DEF Claim, Queued
    <3>2. CASE k # j
      BY <2>1, <3>1, <3>2
    <3>3. CASE k = j
      <4>1. ~HoldsSlot(k) /\ ~HoldsSlot(k)' /\ Encoding(k)'
        BY <2>1, <3>1, <3>3
      <4>2. deleting[k] # "no" => client[k] \in {"succeeded", "failed"}
        BY <3>1, <3>3
      <4>3. mem'[k] = "encoding"
        BY <2>1, <3>3
      <4> QED
        BY <3>1, <4>1, <4>2, <4>3
    <3> QED
      BY <3>2, <3>3
  <2>2. CASE UNCHANGED <<mem, goroutine>>
    BY <1>31, <2>2 DEF Claim
  <2> QED
    BY <1>31, <2>1, <2>2 DEF Claim
<1>32. CASE CountSlots /\ UNCHANGED client
  BY <1>32 DEF CountSlots
<1>33. CASE FindNothing /\ UNCHANGED client
  BY <1>33 DEF FindNothing
<1>34. CASE AgentRestart /\ UNCHANGED client
  BY <1>34 DEF AgentRestart, Scanned, Deletes, Gone
<1>35. CASE UNCHANGED vars
  BY <1>35 DEF vars
<1>36. ASSUME NEW j \in Job, RemoveEntry(j), UNCHANGED client PROVE OwedInv(k)'
  BY <1>36 DEF RemoveEntry, OutputInDir
<1>37. ASSUME NEW j \in Job, TakeShared(j) PROVE OwedInv(k)'
  BY <1>37 DEF TakeShared
<1> HIDE DEF Inv, TypeOK, JobInv, RunHasState, UploadWaits, NotYet, Encoding, OwedInv, HeldSlot, HoldsSlot,
     Recorded, WhoDeletes, Watched, Goroutine
<1> QED
  BY <1>1, <1>2, <1>3, <1>4, <1>5, <1>6, <1>7, <1>8, <1>9, <1>10, <1>11, <1>12, <1>13, <1>14, <1>15, <1>16,
       <1>17, <1>18, <1>19, <1>20, <1>21, <1>22, <1>23, <1>24, <1>25, <1>26, <1>27, <1>28, <1>29, <1>30,
       <1>31, <1>32, <1>33, <1>34, <1>35, <1>36, <1>37
     DEF Next, ClientSteps, ServerSteps, RunSteps, LoopSteps

\* A slot is taken exactly as long as a goroutine will give it back, and only
\* such a goroutine can have been cancelled (r.active).
SlotsAreHeld == active = {j \in Job : HoldsSlot(j)} /\ cancelled \subseteq active

LEMMA OwedHolds == Spec => [](Inv /\ \A j \in Job : OwedInv(j))
<1>1. Init => \A j \in Job : OwedInv(j)
  BY DEF Init, AgentInit, OwedInv, HeldSlot, HoldsSlot, Recorded, WhoDeletes, Watched, Encoding
<1>2. ASSUME Inv, \A j \in Job : OwedInv(j), [Next]_vars PROVE (\A j \in Job : OwedInv(j))'
  BY <1>2, OwedInductive
<1> QED
  BY <1>1, <1>2, InvHolds, PTL DEF Spec

\* For every number of jobs and slots: no slot is lost, whatever fails, is
\* deleted or restarted, because each one is held by a goroutine on its way to
\* the deferred delete (encode, tick).
THEOREM SlotsAreGivenBack == Spec => []SlotsAreHeld
<1>1. Inv /\ (\A j \in Job : OwedInv(j)) => SlotsAreHeld
  BY DEF Inv, TypeOK, OwedInv, HeldSlot, SlotsAreHeld
<1> QED
  BY <1>1, OwedHolds, PTL

\* What is left to do for the goroutine of a job, by its position.
RunLeft(g) ==
    CASE g = "spawned"    -> 8
      [] g = "found"      -> 7
      [] g = "registered" -> 6
      [] g = "running"    -> 5
      [] g = "finish"     -> 4
      [] g = "publish"    -> 3
      [] g = "close"      -> 2
      [] g = "exit"       -> 1
      [] OTHER            -> 0

LEMMA RunTable ==
  /\ RunLeft("spawned") = 8 /\ RunLeft("found") = 7 /\ RunLeft("registered") = 6
  /\ RunLeft("running") = 5 /\ RunLeft("finish") = 4 /\ RunLeft("publish") = 3
  /\ RunLeft("close") = 2 /\ RunLeft("exit") = 1 /\ RunLeft("none") = 0
BY DEF RunLeft

\* Every step of a goroutine brings it nearer to its end, and nothing but the
\* claim of its job or a restart moves it besides.
GoroutinesDescend ==
    [][\A j \in Job :
        /\ RunSteps(j) => RunLeft(goroutine'[j]) < RunLeft(goroutine[j])
        /\ goroutine'[j] # goroutine[j] =>
               RunSteps(j) \/ AgentRestart \/ (Claim(j) /\ goroutine[j] = "none")]_vars

\* For every number of jobs, slots and restarts: the goroutine of an encode
\* takes at most eight steps, and no handler sends it back.  With the fairness
\* of FairSpec it comes to its end (encode, finish).
THEOREM GoroutinesComeToTheirEnd == Spec => GoroutinesDescend
<1> DEFINE Down(j) ==
             /\ RunSteps(j) => RunLeft(goroutine'[j]) < RunLeft(goroutine[j])
             /\ goroutine'[j] # goroutine[j] =>
                    RunSteps(j) \/ AgentRestart \/ (Claim(j) /\ goroutine[j] = "none")
<1>1. ASSUME Inv, \A j \in Job : OwedInv(j), Next, NEW k \in Job PROVE Down(k)
  <2>1. ASSUME RunSteps(k) PROVE RunLeft(goroutine'[k]) < RunLeft(goroutine[k])
    <3>1. goroutine \in [Job -> Goroutine]
      BY <1>1 DEF Inv, TypeOK
    <3>2. \/ goroutine[k] = "spawned" /\ goroutine'[k] \in {"found", "none"}
          \/ goroutine[k] = "found" /\ goroutine'[k] = "registered"
          \/ goroutine[k] = "registered" /\ goroutine'[k] \in {"running", "finish"}
          \/ goroutine[k] = "running" /\ goroutine'[k] = "finish"
          \/ goroutine[k] = "finish" /\ goroutine'[k] = "publish"
          \/ goroutine[k] = "publish" /\ goroutine'[k] = "close"
          \/ goroutine[k] = "close" /\ goroutine'[k] = "exit"
          \/ goroutine[k] = "exit" /\ goroutine'[k] = "none"
      BY <2>1, <3>1
         DEF RunSteps, LookUp, RegisterRun, OpenLog, EncodeSucceeds, EncodeFails, Finish, PublishOutcome,
             CloseSubscribers, EndRun
    <3> QED
      BY <3>2, RunTable
  <2>2. CASE goroutine' = goroutine
    BY <2>1, <2>2
  <2>3. ASSUME NEW j \in Job, RunSteps(j) PROVE Down(k)
    <3>1. goroutine \in [Job -> Goroutine] /\ \E g \in Goroutine : goroutine' = [goroutine EXCEPT ![j] = g]
      BY <1>1, <2>3
         DEF Inv, TypeOK, Goroutine, RunSteps, LookUp, RegisterRun, OpenLog, EncodeSucceeds, EncodeFails,
              Finish,
             PublishOutcome, CloseSubscribers, EndRun
    <3>2. goroutine'[k] # goroutine[k] => j = k
      BY <3>1
    <3> QED
      BY <2>1, <2>3, <3>2
  <2>4. ASSUME NEW j \in Job, Claim(j) PROVE Down(k)
    <3>1. goroutine[j] = "none"
      BY <1>1, <2>4
         DEF Inv, TypeOK, JobInv, RunHasState, OwedInv, Recorded, Encoding, Goroutine, Claim, Queued,
              JobTerminal
    <3>2. goroutine \in [Job -> Goroutine] /\ \E g \in Goroutine : goroutine' = [goroutine EXCEPT ![j] = g]
      BY <1>1, <2>4 DEF Inv, TypeOK, Goroutine, Claim
    <3>3. goroutine'[k] # goroutine[k] => j = k
      BY <3>2
    <3> QED
      BY <2>1, <2>4, <3>1, <3>3
  <2>5. CASE AgentRestart
    BY <2>1, <2>5
  <2> HIDE DEF Down
  <2>6. ASSUME NEW j \in Job, ClientSteps(j) \/ PostJob(j) \/ SourceRefused(j) \/ GiveUp(j) \/ TakeShared(j) PROVE Down(k)
    BY <2>2, <2>6
       DEF ClientSteps, PostJob, MakeJobDir, JobCreated, PutSource, StartUpload, SourceAnswered, EndUpload,
           SourceRefused, BreakUpload, GetEvents, OpenStream, StreamTold, StreamEnded, Poll, FetchOutput,
           CallFails, GiveUp, DropStream, SendDelete, CancelToDelete, TakeShared, AgentUnchanged, agentVars, runnerVars
  <2>7. ASSUME NEW j \in Job, ServerSteps(j) \/ OrphanUpload(j) \/ Expire(j) PROVE Down(k)
    BY <2>2, <2>7
       DEF ServerSteps, WriteFirstManifest, AddJob, Subscribe, EndStream, ForgetJob, RemoveEntry, RemoveFiles, OrphanUpload,
           EndUpload, BreakUpload, Expire, runnerVars
  <2>8. CASE LoopSteps
    BY <2>2, <2>4, <2>8 DEF LoopSteps, CountSlots, FindNothing, runnerVars
  <2> QED
    BY <1>1, <2>3, <2>5, <2>6, <2>7, <2>8 DEF Next
<1>2. Inv /\ (\A j \in Job : OwedInv(j)) /\ [Next]_vars =>
        [\A j \in Job :
            /\ RunSteps(j) => RunLeft(goroutine'[j]) < RunLeft(goroutine[j])
            /\ goroutine'[j] # goroutine[j] =>
                   RunSteps(j) \/ AgentRestart \/ (Claim(j) /\ goroutine[j] = "none")]_vars
  <2>1. CASE Inv /\ (\A j \in Job : OwedInv(j)) /\ Next
    BY <1>1, <2>1
  <2>2. CASE UNCHANGED vars
    BY <2>2
  <2> QED
    BY <2>1, <2>2
<1> QED
  BY <1>2, OwedHolds, PTL DEF Spec, GoroutinesDescend

\* Who listens to j has something in the channel, or the goroutine is still to
\* close it.
ToldYet(j) ==
    /\ stream[j] = "listening"
    /\ channel[j] # {} \/ Encoding(j) \/ goroutine[j] \in {"publish", "close"}

\* Once owed the end of the stream, a listener is owed it until the stream has
\* ended, or its connection.
ListenersStayOwed == [][\A j \in Job : ToldYet(j) => ToldYet(j)' \/ stream'[j] # "listening"]_vars

\* For every number of jobs, slots and restarts: whoever listens while a job is
\* being encoded is never forgotten, though the job is deleted, its manifest
\* cannot be written or the channel is full: the goroutine that owes the end of
\* the stream does not leave before it has closed the channel.  Together with
\* GoroutinesComeToTheirEnd this is what ListenerIsTold asks besides fairness
\* (encode, publish, closeSubscribers).
THEOREM ListenersAreNotForgotten == Spec => ListenersStayOwed
<1> DEFINE Kept(j) == ToldYet(j) => ToldYet(j)' \/ stream'[j] # "listening"
<1>1. ASSUME Inv, \A j \in Job : OwedInv(j), Next, NEW k \in Job PROVE Kept(k)
  <2> USE DEF Inv, TypeOK, ToldYet, Encoding, Goroutine, JobTerminal
  <2>1. CASE UNCHANGED <<stream, channel, goroutine>>
    BY <2>1
  <2>2. ASSUME NEW j \in Job, LookUp(j) PROVE Kept(k)
    BY <1>1, <2>2 DEF LookUp, OwedInv, Watched, streamVars
  <2>3. ASSUME NEW j \in Job,
               RegisterRun(j) \/ OpenLog(j) \/ EncodeSucceeds(j) \/ EncodeFails(j) \/ Finish(j) \/ EndRun(j)
        PROVE  Kept(k)
    <3>1. UNCHANGED <<stream, channel>>
      BY <2>3 DEF RegisterRun, OpenLog, EncodeSucceeds, EncodeFails, Finish, EndRun, streamVars
    <3>2. CASE RegisterRun(j) \/ OpenLog(j) \/ EncodeSucceeds(j) \/ EncodeFails(j)
      BY <1>1, <3>1, <3>2 DEF RegisterRun, OpenLog, EncodeSucceeds, EncodeFails
    <3>3. CASE Finish(j)
      BY <1>1, <3>1, <3>3 DEF Finish
    <3>4. CASE EndRun(j)
      BY <1>1, <3>1, <3>4 DEF EndRun
    <3> QED
      BY <2>3, <3>2, <3>3, <3>4
  <2>4. ASSUME NEW j \in Job, PublishOutcome(j) PROVE Kept(k)
    BY <1>1, <2>4 DEF PublishOutcome
  <2>5. ASSUME NEW j \in Job, CloseSubscribers(j) PROVE Kept(k)
    <3>1. stream[k] = "listening" /\ k = j => channel'[k] # {} /\ stream'[k] = stream[k]
      <4>1. k \in DOMAIN channel /\ UNCHANGED stream
        BY <1>1, <2>5 DEF CloseSubscribers
      <4>2. stream[j] = "listening" => channel' = [channel EXCEPT ![j] = @ \cup {"closed"}]
        BY <2>5 DEF CloseSubscribers, CloseChannel
      <4> HIDE DEF Inv, TypeOK
      <4> QED
        BY <4>1, <4>2
    <3>2. k # j => goroutine'[k] = goroutine[k] /\ channel'[k] = channel[k] /\ stream'[k] = stream[k]
      BY <1>1, <2>5 DEF CloseSubscribers, CloseChannel
    <3> QED
      BY <3>1, <3>2
  <2>6. ASSUME NEW j \in Job, Claim(j) PROVE Kept(k)
    BY <1>1, <2>6 DEF Claim, streamVars
  <2>7. ASSUME NEW j \in Job, OpenStream(j) \/ Subscribe(j) \/ EndStream(j) \/ DropStream(j) PROVE Kept(k)
    BY <1>1, <2>7 DEF OpenStream, Subscribe, EndStream, DropStream, runnerVars
  <2>8. CASE AgentRestart
    BY <1>1, <2>8 DEF AgentRestart
  <2> HIDE DEF Inv, TypeOK, ToldYet, Encoding, Goroutine, JobTerminal, Kept
  <2>9. ASSUME NEW j \in Job, ClientSteps(j) \/ PostJob(j) \/ SourceRefused(j) \/ GiveUp(j) \/ TakeShared(j) PROVE Kept(k)
    BY <2>1, <2>7, <2>9
       DEF ClientSteps, PostJob, MakeJobDir, JobCreated, PutSource, StartUpload, SourceAnswered, EndUpload,
           SourceRefused, BreakUpload, GetEvents, StreamTold, StreamEnded, Poll, FetchOutput, CallFails,
           GiveUp, SendDelete, CancelToDelete, TakeShared, AgentUnchanged, agentVars, runnerVars, streamVars
  <2>10. ASSUME NEW j \in Job, ServerSteps(j) \/ OrphanUpload(j) \/ Expire(j) PROVE Kept(k)
    BY <2>1, <2>7, <2>10
       DEF ServerSteps, WriteFirstManifest, AddJob, ForgetJob, RemoveEntry, RemoveFiles, OrphanUpload, EndUpload,
           BreakUpload, Expire, runnerVars, streamVars
  <2>11. CASE LoopSteps
    BY <2>1, <2>6, <2>11 DEF LoopSteps, CountSlots, FindNothing, runnerVars, streamVars
  <2>12. ASSUME NEW j \in Job, RunSteps(j) PROVE Kept(k)
    BY <2>2, <2>3, <2>4, <2>5, <2>12 DEF RunSteps
  <2> QED
    BY <1>1, <2>8, <2>9, <2>10, <2>11, <2>12 DEF Next
<1>2. Inv /\ (\A j \in Job : OwedInv(j)) /\ [Next]_vars =>
        [\A j \in Job : ToldYet(j) => ToldYet(j)' \/ stream'[j] # "listening"]_vars
  <2>1. CASE Inv /\ (\A j \in Job : OwedInv(j)) /\ Next
    BY <1>1, <2>1
  <2>2. CASE UNCHANGED vars
    BY <2>2
  <2> QED
    BY <2>1, <2>2
<1> QED
  BY <1>2, OwedHolds, PTL DEF Spec, ListenersStayOwed

-----------------------------------------------------------------------------
(* Clean-up *)

\* Whatever has ended can still be deleted: Expire is possible, or a deletion
\* under way that has not come to Store.jobs.  None stays in memory after a deletion
\* that could not remove the files (deleteJob, cleanupTerminal, Store.Delete).
EndedCanBeDeleted == \A j \in Job : mem[j] \in JobTerminal => deleting[j] \in {"no", "memory"}

\* A job that has ended is deleted sooner or later, or stays as it is: no
\* late upload or finish queues or encodes it again, and only a restart takes back
\* a deletion that is under way.
EndedStaysEnded ==
    [][\A j \in Job : mem[j] \in JobTerminal =>
          \/ mem'[j] = "none"
          \/ mem'[j] = mem[j] /\ deleting'[j] \in {deleting[j], "memory"}
          \/ AgentRestart]_vars

\* Who takes a job out of Store.jobs is done with it there.
Forgotten(j) == deleting[j] \in {"files", "removed", "left"} => mem[j] = "none"

\* How far a deletion can go in one step.
LEMMA DeletionSteps ==
  ASSUME Inv, [Next]_vars, NEW j \in Job, ~AgentRestart
  PROVE  \/ deleting'[j] = deleting[j]
         \/ deleting[j] = "no" /\ deleting'[j] = "memory"
         \/ deleting[j] = "memory" /\ deleting'[j] = "files" /\ mem'[j] = "none"
         \/ deleting[j] = "files" /\ deleting'[j] \in {"removed", "left"} /\ mem'[j] = mem[j]
<1> USE DEF Inv, TypeOK
<1> DEFINE Kept == deleting' = deleting
           Deletion(k) == CancelToDelete(k) \/ Expire(k) \/ ForgetJob(k) \/ RemoveFiles(k)
<1>1. ASSUME NEW k \in Job, Deletion(k)
      PROVE  \/ deleting'[j] = deleting[j]
             \/ deleting[j] = "no" /\ deleting'[j] = "memory"
             \/ deleting[j] = "memory" /\ deleting'[j] = "files" /\ mem'[j] = "none"
             \/ deleting[j] = "files" /\ deleting'[j] \in {"removed", "left"} /\ mem'[j] = mem[j]
  BY <1>1 DEF CancelToDelete, Expire, ForgetJob, RemoveFiles
<1> HIDE DEF Inv, TypeOK
<1>2. ASSUME NEW k \in Job, SendDelete(k) PROVE CancelToDelete(k) \/ Kept
  BY <1>2 DEF SendDelete, AgentUnchanged, agentVars, handlerVars
<1>3. ASSUME NEW k \in Job, ClientSteps(k), ~SendDelete(k) PROVE Kept
  BY <1>3
     DEF ClientSteps, JobCreated, PutSource, StartUpload, SourceAnswered, EndUpload, GetEvents, OpenStream, StreamTold,
         StreamEnded, Poll, FetchOutput, CallFails, AgentUnchanged, agentVars, handlerVars
<1>4. ASSUME NEW k \in Job, PostJob(k) \/ SourceRefused(k) \/ GiveUp(k) \/ TakeShared(k) PROVE Kept
  BY <1>4
     DEF PostJob, MakeJobDir, SourceRefused, BreakUpload, GiveUp, DropStream, TakeShared, AgentUnchanged, agentVars, handlerVars
<1>5. ASSUME NEW k \in Job, ServerSteps(k), ~ForgetJob(k), ~RemoveFiles(k) PROVE Kept
  BY <1>5 DEF ServerSteps, WriteFirstManifest, AddJob, Subscribe, EndStream, RemoveEntry, handlerVars
<1>6. ASSUME NEW k \in Job, OrphanUpload(k) PROVE Kept
  BY <1>6 DEF OrphanUpload, EndUpload, BreakUpload
<1>7. ASSUME NEW k \in Job, RunSteps(k) PROVE Kept
  BY <1>7
     DEF RunSteps, LookUp, RegisterRun, OpenLog, EncodeSucceeds, EncodeFails, Finish, PublishOutcome, CloseSubscribers,
         EndRun, handlerVars
<1>8. ASSUME LoopSteps PROVE Kept
  BY <1>8 DEF LoopSteps, CountSlots, FindNothing, Claim, handlerVars
<1>9. ASSUME UNCHANGED vars PROVE Kept
  BY <1>9 DEF vars, agentVars, handlerVars
<1>10. ASSUME NEW k \in Job, ServerSteps(k) PROVE Deletion(k) \/ Kept
  BY <1>5, <1>10
<1>11. ASSUME NEW k \in Job, ClientSteps(k) PROVE Deletion(k) \/ Kept
  BY <1>2, <1>3, <1>11
<1>12. ASSUME NEW k \in Job, Expire(k) PROVE Deletion(k)
  BY <1>12
<1> HIDE DEF Kept, Deletion
<1>13. Kept \/ \E k \in Job : Deletion(k)
  BY <1>4, <1>6, <1>7, <1>8, <1>9, <1>10, <1>11, <1>12 DEF Next
<1> QED
  BY <1>1, <1>13 DEF Kept

\* What is gone from memory comes back only by its creation or a restart.
LEMMA NoneComesBack ==
  ASSUME Inv, [Next]_vars, NEW j \in Job, ~AgentRestart, mem[j] = "none"
  PROVE  mem'[j] = "none" \/ deleting[j] = "no"
<1> USE DEF Inv, TypeOK
<1> DEFINE Kept == mem' = mem
<1>1. ASSUME NEW k \in Job, Update(k, "queued") \/ Update(k, outcome[k]) PROVE mem'[j] = "none"
  BY <1>1 DEF Update
<1>2. ASSUME NEW k \in Job, AddJob(k) PROVE mem'[j] = "none" \/ deleting[j] = "no"
  BY <1>2 DEF AddJob, JobInv, NotYet
<1>3. ASSUME NEW k \in Job, Claim(k) PROVE mem'[j] = "none"
  BY <1>3 DEF Claim, Queued
<1>4. ASSUME NEW k \in Job, ForgetJob(k) PROVE mem'[j] = "none"
  BY <1>4 DEF ForgetJob
<1> HIDE DEF Inv, TypeOK
<1>5. ASSUME NEW k \in Job, EndUpload(k) PROVE mem'[j] = "none"
  BY <1>1, <1>5 DEF EndUpload
<1>6. ASSUME NEW k \in Job, Finish(k) PROVE mem'[j] = "none"
  BY <1>1, <1>6 DEF Finish
<1>7. ASSUME NEW k \in Job, ClientSteps(k), ~SourceAnswered(k) PROVE Kept
  BY <1>7
     DEF ClientSteps, JobCreated, PutSource, StartUpload, GetEvents, OpenStream, StreamTold,
         StreamEnded, Poll, FetchOutput, CallFails, SendDelete, CancelToDelete, AgentUnchanged, agentVars, runnerVars
<1>8. ASSUME NEW k \in Job, SourceAnswered(k) PROVE mem'[j] = "none"
  BY <1>5, <1>8 DEF SourceAnswered
<1>9. ASSUME NEW k \in Job, PostJob(k) \/ SourceRefused(k) \/ GiveUp(k) \/ TakeShared(k) PROVE Kept
  BY <1>9 DEF PostJob, MakeJobDir, SourceRefused, BreakUpload, GiveUp, DropStream, TakeShared, AgentUnchanged, agentVars
<1>10. ASSUME NEW k \in Job, ServerSteps(k), ~AddJob(k), ~ForgetJob(k) PROVE Kept
  BY <1>10 DEF ServerSteps, WriteFirstManifest, Subscribe, EndStream, RemoveEntry, RemoveFiles
<1>11. ASSUME NEW k \in Job, OrphanUpload(k) \/ Expire(k) PROVE Kept \/ EndUpload(k)
  BY <1>11 DEF OrphanUpload, BreakUpload, Expire
<1>12. ASSUME NEW k \in Job, RunSteps(k), ~Finish(k) PROVE Kept
  BY <1>12
     DEF RunSteps, LookUp, RegisterRun, OpenLog, EncodeSucceeds, EncodeFails, PublishOutcome, CloseSubscribers, EndRun
<1>13. CASE LoopSteps
  BY <1>3, <1>13 DEF LoopSteps, CountSlots, FindNothing
<1>14. CASE UNCHANGED vars
  BY <1>14 DEF vars, agentVars
<1>15. ASSUME NEW k \in Job, ClientSteps(k) PROVE Kept \/ mem'[j] = "none"
  BY <1>7, <1>8, <1>15
<1>16. ASSUME NEW k \in Job, ServerSteps(k) PROVE Kept \/ mem'[j] = "none" \/ deleting[j] = "no"
  BY <1>2, <1>4, <1>10, <1>16
<1>17. ASSUME NEW k \in Job, RunSteps(k) PROVE Kept \/ mem'[j] = "none"
  BY <1>6, <1>12, <1>17
<1>18. ASSUME NEW k \in Job, OrphanUpload(k) \/ Expire(k) PROVE Kept \/ mem'[j] = "none"
  BY <1>5, <1>11, <1>18
<1> HIDE DEF Kept
<1>19. Kept \/ mem'[j] = "none" \/ deleting[j] = "no"
  BY <1>9, <1>13, <1>14, <1>15, <1>16, <1>17, <1>18 DEF Next
<1> QED
  BY <1>19 DEF Kept

\* For every number of jobs, slots and restarts: each ended job can be deleted at
\* any time, and no other step than its deletion or a restart changes it.  What
\* EndedIsExpired adds is that the ticker and the handlers go on (cleanupTerminal).
THEOREM EndedJobsGo == Spec => []EndedCanBeDeleted /\ EndedStaysEnded
<1> DEFINE I == \A j \in Job : Forgotten(j)
<1>1. Init => I
  BY DEF Init, AgentInit, Forgotten
<1>2. ASSUME Inv, I, [Next]_vars, NEW j \in Job PROVE Forgotten(j)'
  <2>1. CASE AgentRestart
    <3>1. deleting'[j] = "removed" => deleting[j] = "removed"
      BY <2>1 DEF AgentRestart
    <3>2. deleting'[j] \in {"no", "removed"}
      BY <2>1 DEF AgentRestart
    <3>3. deleting[j] = "removed" => disk[j] = "none"
      BY <1>2 DEF Inv, JobInv, Deletes, Gone
    <3>4. disk[j] = "none" => mem'[j] = "none"
      BY <2>1 DEF AgentRestart, Scanned, JobState, JobTerminal
    <3> QED
      BY <3>1, <3>2, <3>3, <3>4 DEF Forgotten
  <2>2. CASE ~AgentRestart
    BY <1>2, <2>2, DeletionSteps, NoneComesBack DEF Forgotten
  <2> QED
    BY <2>1, <2>2
<1>3. Inv /\ I => EndedCanBeDeleted
  BY DEF Inv, TypeOK, Forgotten, EndedCanBeDeleted, JobTerminal
<1>4. ASSUME Inv, Inv', I, [Next]_vars,
             [\A j \in Job : mem[j] # "none" /\ mem'[j] \notin {"none", mem[j]} =>
                 \/ Rank(mem[j]) < Rank(mem'[j])
                 \/ AgentRestart /\ disk[j] # mem[j]]_vars,
             NEW j \in Job, mem[j] \in JobTerminal, mem'[j] # "none", ~AgentRestart
      PROVE  mem'[j] = mem[j] /\ deleting'[j] \in {deleting[j], "memory"}
  <2>1. mem'[j] \in JobState
    BY <1>4 DEF Inv, TypeOK
  <2>2. ~(Rank(mem[j]) < Rank(mem'[j]))
    BY <1>4, <2>1 DEF Rank, JobState, JobTerminal
  <2>3. mem'[j] = mem[j]
    BY <1>4, <2>2 DEF vars, agentVars, JobTerminal
  <2>4. deleting[j] \in {"no", "memory"}
    BY <1>3, <1>4 DEF EndedCanBeDeleted
  <2> QED
    BY <1>4, <2>3, <2>4, DeletionSteps
<1> HIDE DEF I
<1>5. /\ Inv /\ Inv' /\ I /\ [Next]_vars
      /\ [\A j \in Job : mem[j] # "none" /\ mem'[j] \notin {"none", mem[j]} =>
             \/ Rank(mem[j]) < Rank(mem'[j])
             \/ AgentRestart /\ disk[j] # mem[j]]_vars
      => [\A j \in Job : mem[j] \in JobTerminal =>
             \/ mem'[j] = "none"
             \/ mem'[j] = mem[j] /\ deleting'[j] \in {deleting[j], "memory"}
             \/ AgentRestart]_vars
  BY <1>4
<1>6. Inv /\ I /\ [Next]_vars => I'
  BY <1>2 DEF I
<1> QED
  BY <1>1, <1>3, <1>5, <1>6, InvHolds, StatesAdvance, PTL DEF Spec, EndedStaysEnded, StatesOnlyAdvance

=============================================================================
