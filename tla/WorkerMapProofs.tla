--------------------------- MODULE WorkerMapProofs ---------------------------
(***************************************************************************)
(* Theorems of Worker about its two maps, w.encoding and                   *)
(* w.requeueOnCancel, and about the limit on parallel encodes.             *)
(***************************************************************************)
EXTENDS WorkerProofs

\* Every entry is that of a live run of its job.
EntriesAreRuns ==
    \A j \in Entries : encoding[j] \in Alive /\ runJob[encoding[j]] = j

\* A goroutine that is not there has not been cancelled.
IdleNotCancelled ==
    \A g \in Runner : phase[g] = "idle" => cancelledBy[g] = {}

\* Up to the error path a run is marked for requeue exactly if a pause has
\* cancelled it, as long as no run was started over an older one of its job.
MarksArePauses ==
    overlapped \/ \A g \in Runner : phase[g] \in {"prepare", "encode", "settle"} =>
        (runJob[g] \in requeueOnCancel <=> "pause" \in cancelledBy[g])

\* The inductive invariant about the maps.
Registered ==
    /\ EntriesAreRuns
    /\ RunsAreRegistered
    /\ MarksHaveEntries
    /\ IdleNotCancelled
    /\ MarksArePauses

\* A step that leaves the maps and the runs' lives alone.
LEMMA RegisteredFrame ==
    ASSUME Registered, TypeOK, UNCHANGED <<mapVars, startVars, cancelledBy>>, Alive' = Alive,
           \A g \in Runner : phase'[g] \in {"prepare", "encode", "settle"} =>
               phase[g] \in {"prepare", "encode", "settle"}
    PROVE  Registered'
<1>1. UNCHANGED <<encoding, requeueOnCancel, runJob, overlapped, cancelledBy>> /\ Entries' = Entries
  BY DEF mapVars, startVars, Entries
<1>2. EntriesAreRuns' /\ RunsAreRegistered' /\ MarksHaveEntries'
  BY <1>1 DEF Registered, EntriesAreRuns, RunsAreRegistered, MarksHaveEntries
<1>3. IdleNotCancelled'
  BY <1>1 DEF Registered, IdleNotCancelled, Alive
<1>4. MarksArePauses'
  BY <1>1 DEF Registered, MarksArePauses
<1> QED
  BY <1>2, <1>3, <1>4 DEF Registered

\* Two live runs have different jobs unless one was started over the other.
LEMMA OneEntryPerRun ==
    ASSUME Registered, ~overlapped, NEW g \in Alive, NEW h \in Alive, runJob[g] = runJob[h]
    PROVE  g = h
BY DEF Registered, RunsAreRegistered

\* startEncode makes the entry of its run, and overlapped is set if that took
\* the entry of another.
LEMMA StartRegistered ==
    ASSUME Registered, TypeOK, NEW j \in Job, NEW g \in Runner, StartEncode(j, g)
    PROVE  Registered'
<1>1. /\ phase[g] = "idle"
      /\ encoding' = [encoding EXCEPT ![j] = g]
      /\ phase' = [phase EXCEPT ![g] = "prepare"]
      /\ runJob' = [runJob EXCEPT ![g] = j]
      /\ overlapped' = (overlapped \/ \E h \in Alive : runJob[h] = j)
      /\ UNCHANGED <<requeueOnCancel, cancelledBy>>
  BY DEF StartEncode, Register
<1>2. Alive' = Alive \cup {g} /\ g \notin Alive
  BY <1>1 DEF Alive, TypeOK
<1>3. Entries' = Entries \cup {j}
  BY <1>1, NoneAssumption DEF Entries, TypeOK
<1>4. EntriesAreRuns'
  BY <1>1, <1>2, <1>3 DEF Registered, EntriesAreRuns, TypeOK, Entries
<1>5. RunsAreRegistered'
  <2>1. SUFFICES ASSUME ~overlapped', NEW h \in Alive'
                 PROVE  encoding'[runJob'[h]] = h
    BY DEF RunsAreRegistered
  <2>2. ~overlapped /\ \A k \in Alive : runJob[k] # j /\ encoding[runJob[k]] = k
    BY <1>1, <2>1, Zenon DEF Registered, RunsAreRegistered
  <2> QED
    BY <1>1, <1>2, <2>1, <2>2 DEF TypeOK
<1>6. MarksHaveEntries'
  BY <1>1, <1>3 DEF Registered, MarksHaveEntries
<1>7. IdleNotCancelled'
  BY <1>1 DEF Registered, IdleNotCancelled, TypeOK
<1>8. MarksArePauses'
  <2>1. SUFFICES ASSUME ~overlapped'
                 PROVE  \A h \in Runner : phase'[h] \in {"prepare", "encode", "settle"} =>
                            (runJob'[h] \in requeueOnCancel' <=> "pause" \in cancelledBy'[h])
    BY DEF MarksArePauses
  <2>2. j \notin requeueOnCancel
    BY <1>1, <2>1 DEF Registered, MarksHaveEntries, EntriesAreRuns
  <2>3. cancelledBy[g] = {}
    BY <1>1 DEF Registered, IdleNotCancelled
  <2> QED
    BY <1>1, <2>1, <2>2, <2>3 DEF Registered, MarksArePauses, TypeOK
<1> QED
  BY <1>4, <1>5, <1>6, <1>7, <1>8 DEF Registered

\* The error path of encodeOne reads its mark and clears it, in one critical
\* section.
LEMMA SettleRegistered ==
    ASSUME Registered, TypeOK, NEW g \in Runner, SettleError(g)
    PROVE  Registered'
<1>1. /\ phase[g] = "settle" /\ phase'[g] \in {"requeue", "fail"}
      /\ \A h \in Runner \ {g} : phase'[h] = phase[h]
      /\ requeueOnCancel' = requeueOnCancel \ {runJob[g]}
      /\ UNCHANGED <<encoding, runJob, overlapped, cancelledBy>>
  BY DEF SettleError, Goes, DropMark, startVars, TypeOK
<1>2. Alive' = Alive /\ Entries' = Entries /\ g \in Alive
  BY <1>1 DEF Alive, Entries, TypeOK
<1>3. EntriesAreRuns' /\ RunsAreRegistered' /\ MarksHaveEntries'
  BY <1>1, <1>2 DEF Registered, EntriesAreRuns, RunsAreRegistered, MarksHaveEntries
<1>4. IdleNotCancelled'
  BY <1>1, <1>2 DEF Registered, IdleNotCancelled, Alive
<1>5. MarksArePauses'
  <2>1. ~overlapped => \A h \in Alive \ {g} : runJob[h] # runJob[g]
    BY <1>2, OneEntryPerRun
  <2> QED
    BY <1>1, <2>1 DEF Registered, MarksArePauses, Alive
<1> QED
  BY <1>3, <1>4, <1>5 DEF Registered

\* The deferred clean-up of startEncode deletes its own entry and mark, unless
\* the run was overlapped.
LEMMA CleanupRegistered ==
    ASSUME Registered, TypeOK, NEW g \in Runner, Cleanup(g)
    PROVE  Registered'
<1> DEFINE j == runJob[g]
<1>1. /\ phase[g] = "cleanup" /\ phase' = [phase EXCEPT ![g] = "idle"]
      /\ encoding' = [encoding EXCEPT ![j] = NoRunner]
      /\ requeueOnCancel' = requeueOnCancel \ {j}
      /\ runJob' = [runJob EXCEPT ![g] = NoJob]
      /\ cancelledBy' = [cancelledBy EXCEPT ![g] = {}]
      /\ UNCHANGED overlapped
  BY DEF Cleanup, Goes, DropEntry, DropMark
<1>2. g \in Alive /\ j \in Job /\ Alive' = Alive \ {g}
  BY <1>1 DEF Alive, TypeOK
<1>3. Entries' = Entries \ {j}
  BY <1>1, <1>2 DEF Entries, TypeOK
<1>4. EntriesAreRuns'
  BY <1>1, <1>2, <1>3 DEF Registered, EntriesAreRuns, TypeOK, Entries
<1>5. ~overlapped => \A h \in Alive \ {g} : runJob[h] # j
  BY <1>2, OneEntryPerRun
<1>6. RunsAreRegistered'
  BY <1>1, <1>2, <1>5 DEF Registered, RunsAreRegistered, TypeOK, Alive
<1>7. MarksHaveEntries'
  BY <1>1, <1>3 DEF Registered, MarksHaveEntries
<1>8. IdleNotCancelled'
  BY <1>1 DEF Registered, IdleNotCancelled, TypeOK
<1>9. MarksArePauses'
  BY <1>1, <1>2, <1>5 DEF Registered, MarksArePauses, TypeOK, Alive
<1> QED
  BY <1>4, <1>6, <1>7, <1>8, <1>9 DEF Registered

\* SetPaused(true) marks and cancels exactly the runs that have an entry.
LEMMA PauseRegistered ==
    ASSUME Registered, TypeOK, CancelForPause
    PROVE  Registered'
<1> DEFINE hit == {encoding[j] : j \in Entries}
<1>1. /\ requeueOnCancel' = requeueOnCancel \cup Entries
      /\ cancelledBy' = [g \in Runner |-> IF g \in hit THEN cancelledBy[g] \cup {"pause"} ELSE cancelledBy[g]]
      /\ UNCHANGED <<encoding, runJob, overlapped, phase>>
  BY DEF CancelForPause, Marked, startVars
<1>2. Alive' = Alive /\ Entries' = Entries
  BY <1>1 DEF Alive, Entries
<1>3. EntriesAreRuns' /\ RunsAreRegistered' /\ MarksHaveEntries'
  BY <1>1, <1>2 DEF Registered, EntriesAreRuns, RunsAreRegistered, MarksHaveEntries
<1>4. \A g \in Runner : g \in hit => g \in Alive /\ runJob[g] \in Entries
  BY DEF Registered, EntriesAreRuns
<1>5. IdleNotCancelled'
  BY <1>1, <1>4 DEF Registered, IdleNotCancelled, Alive
<1>6. ~overlapped => \A g \in Alive : g \in hit /\ runJob[g] \in Entries
  BY NoneAssumption DEF Registered, RunsAreRegistered, Entries, TypeOK, Alive
<1>7. MarksArePauses'
  BY <1>1, <1>6 DEF Registered, MarksArePauses, Alive
<1> QED
  BY <1>3, <1>5, <1>7 DEF Registered

\* CancelEncoding cancels the run of the entry and leaves no mark.
LEMMA CancelRegistered ==
    ASSUME Registered, TypeOK, NEW j \in Job, CancelEncoding(j)
    PROVE  Registered'
<1>1. /\ j \in Entries
      /\ cancelledBy' = [cancelledBy EXCEPT ![encoding[j]] = @ \cup {"user"}]
      /\ UNCHANGED <<encoding, requeueOnCancel, runJob, overlapped, phase>>
  BY DEF CancelEncoding, mapVars, startVars, Entries
<1>2. Alive' = Alive /\ Entries' = Entries /\ encoding[j] \in Alive
  BY <1>1 DEF Alive, Entries, Registered, EntriesAreRuns
<1>3. \A g \in Runner : /\ "pause" \in cancelledBy'[g] <=> "pause" \in cancelledBy[g]
                        /\ phase[g] = "idle" => cancelledBy'[g] = cancelledBy[g]
  BY <1>1, <1>2 DEF TypeOK, Alive
<1> QED
  BY <1>1, <1>2, <1>3 DEF Registered, EntriesAreRuns, RunsAreRegistered, MarksHaveEntries, IdleNotCancelled,
       MarksArePauses

\* w.encoding and w.requeueOnCancel agree with the runs that are alive, until a
\* run is started over an older one of its job.
THEOREM RegisteredAlways == Spec => []Registered
<1>1. Init => Registered
  BY DEF Init, Registered, EntriesAreRuns, RunsAreRegistered, MarksHaveEntries, IdleNotCancelled,
         MarksArePauses, Entries, Alive
<1>2. TypeOK /\ TypeOK' /\ Registered /\ [Next]_vars => Registered'
  <2> SUFFICES ASSUME TypeOK, TypeOK', Registered, [Next]_vars
               PROVE  Registered'
    OBVIOUS
  <2>1. ASSUME UNCHANGED runVars PROVE Registered'
    BY <2>1, RegisteredFrame DEF runVars, mapVars, startVars, Alive
  <2>2. CASE UNCHANGED vars
    BY <2>1, <2>2 DEF vars
  <2>3. CASE Tick
    <3>1. CASE \E j \in Job, g \in Runner : StartEncode(j, g)
      BY <3>1, StartRegistered
    <3>2. CASE ~ \E j \in Job, g \in Runner : StartEncode(j, g)
      <4>1. UNCHANGED runVars
        BY <2>3, <3>2 DEF Tick, TickStarts, SkipEncodes, PassPauseCheck, TakeSlots, ListReady, Release,
             ClaimRow,
                           PassOverRow, GiveUp, RefuseTempFile
      <4> QED
        BY <2>1, <4>1
    <3> QED
      BY <3>1, <3>2
  <2>4. ASSUME NEW g \in Runner, Run(g) PROVE Registered'
    <3>1. CASE SettleError(g)
      BY <3>1, SettleRegistered
    <3>2. CASE Cleanup(g)
      BY <3>2, CleanupRegistered
    <3>3. CASE ~SettleError(g) /\ ~Cleanup(g)
      <4>1. /\ UNCHANGED <<mapVars, startVars, cancelledBy>>
            /\ phase[g] # "idle"
            /\ phase' = [phase EXCEPT ![g] = phase'[g]]
            /\ phase'[g] # "idle"
            /\ phase'[g] \in {"prepare", "encode", "settle"} => phase[g] \in {"prepare", "encode", "settle"}
        BY <2>4, <3>3 DEF Run, Goes, RejectJob, BeginEncode, EncodeFails, KeepOriginal, EncodeCommits,
                          RequeueEncoding, MarkFailed, MarkDone, RefreshArr, TypeOK
      <4>2. Alive' = Alive
        BY <4>1 DEF Alive, TypeOK
      <4> QED
        BY <4>1, <4>2, RegisteredFrame DEF TypeOK
    <3> QED
      BY <3>1, <3>2, <3>3
  <2>5. CASE Handler
    <3>1. CASE CancelForPause
      BY <3>1, PauseRegistered
    <3>2. CASE \E j \in Job : CancelEncoding(j)
      BY <3>2, CancelRegistered
    <3>3. CASE ~CancelForPause /\ ~ \E j \in Job : CancelEncoding(j)
      <4>1. UNCHANGED runVars
        BY <2>5, <3>3 DEF Handler, InsertJob, DeleteJob, WritePause, PutPaused, Resume, RetryAllFailed,
                          RetryJobsByIDs, DeleteJobsByIDs, DeleteTerminalJobs, RetryRows, DeleteRows
      <4> QED
        BY <2>1, <4>1
    <3> QED
      BY <3>1, <3>2, <3>3
  <2>6. CASE Restart
    BY <2>6 DEF Restart, Registered, EntriesAreRuns, RunsAreRegistered, MarksHaveEntries, IdleNotCancelled,
                MarksArePauses, Entries, Alive
  <2> QED
    BY <2>2, <2>3, <2>4, <2>5, <2>6 DEF Next
<1> QED
  BY <1>1, <1>2, TypeCorrect, PTL DEF Spec

\* No requeue mark outlives its run.
THEOREM MarksBelongToEntries == Spec => []MarksHaveEntries
BY RegisteredAlways, PTL DEF Registered

\* Cancel and pause find every run, unless one was started over another.
THEOREM RunsAreFound == Spec => []RunsAreRegistered
BY RegisteredAlways, PTL DEF Registered

\* The error path requeues exactly the runs a pause has cancelled, unless a
\* run was started over an older one of its job.
THEOREM PausedRunsAreRequeued == Spec => PauseIsRequeued
<1> DEFINE Settles ==
        \A g \in Runner : (phase[g] = "settle" /\ phase'[g] \in {"requeue", "fail"} /\ ~overlapped) =>
            (phase'[g] = "requeue" <=> "pause" \in cancelledBy[g])
<1>1. TypeOK /\ Registered /\ [Next]_vars => Settles
  <2> SUFFICES ASSUME TypeOK, Registered, [Next]_vars, NEW g \in Runner,
                      phase[g] = "settle", phase'[g] \in {"requeue", "fail"}, ~overlapped
               PROVE  phase'[g] = "requeue" <=> "pause" \in cancelledBy[g]
    OBVIOUS
  <2>1. SettleError(g)
    <3>1. CASE Tick
      <4>1. UNCHANGED phase \/ \E j \in Job, h \in Runner : StartEncode(j, h)
        BY <3>1 DEF Tick, TickStarts, SkipEncodes, PassPauseCheck, TakeSlots, ListReady, Release, ClaimRow,
                    PassOverRow, GiveUp, RefuseTempFile, runVars
      <4> QED
        BY <4>1 DEF StartEncode, TypeOK
    <3>2. ASSUME NEW h \in Runner, Run(h) PROVE SettleError(g)
      <4>1. h = g
        BY <3>2 DEF Run, Goes, RejectJob, BeginEncode, EncodeFails, KeepOriginal, EncodeCommits, SettleError,
                    RequeueEncoding, MarkFailed, MarkDone, RefreshArr, Cleanup, TypeOK
      <4> QED
        BY <3>2, <4>1 DEF Run, Goes, RejectJob, BeginEncode, EncodeFails, KeepOriginal, EncodeCommits,
                          RequeueEncoding, MarkFailed, MarkDone, RefreshArr, Cleanup
    <3>3. Handler => UNCHANGED phase
      BY DEF Handler, InsertJob, CancelEncoding, DeleteJob, WritePause, CancelForPause, PutPaused, Resume,
             RetryAllFailed, RetryJobsByIDs, DeleteJobsByIDs, DeleteTerminalJobs, RetryRows, DeleteRows, runVars
    <3>4. Restart => phase'[g] = "idle"
      BY DEF Restart
    <3> QED
      BY <3>1, <3>2, <3>3, <3>4 DEF Next, vars, runVars
  <2>2. runJob[g] \in requeueOnCancel <=> "pause" \in cancelledBy[g]
    BY DEF Registered, MarksArePauses
  <2> QED
    BY <2>1, <2>2 DEF SettleError, Goes, TypeOK
<1> QED
  BY <1>1, TypeCorrect, RegisteredAlways, PTL DEF Spec, PauseIsRequeued

=============================================================================
