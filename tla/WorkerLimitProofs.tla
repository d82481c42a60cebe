-------------------------- MODULE WorkerLimitProofs --------------------------
(***************************************************************************)
(* Theorems of Worker about the limit on parallel encodes, about rows that *)
(* nobody would ever give an outcome, about encodes that are not counted,  *)
(* and about what ends: runs, ticks and claimed rows descend to their end, *)
(* and a tick that sees the pause starts nothing.                          *)
(***************************************************************************)
EXTENDS WorkerMapProofs, FunctionTheorems

\* runEncodes lists no more rows than there are slots: a ready row is listed
\* by the number of ready rows before it, which differs from row to row.
LEMMA BatchFits ==
    ASSUME TypeOK, ListReady
    PROVE  Cardinality(batch') <= slots \/ UNCHANGED batch
<1> DEFINE ready == {j \in Job : status[j] = "ready"}
           before(j) == {k \in ready : k < j}
           rows == {j \in ready : Cardinality(before(j)) < slots}
<1>1. SUFFICES Cardinality(rows) <= slots
  BY DEF ListReady
<1>2. slots \in Nat
  BY BoundAssumption DEF TypeOK
<1>3. \A j \in ready : IsFiniteSet(before(j)) /\ Cardinality(before(j)) \in Nat
  <2>1. \A j \in ready : before(j) \in SUBSET Job
    OBVIOUS
  <2> HIDE DEF before, ready
  <2> QED
    BY <2>1, JobAssumption, FS_Subset, FS_CardinalityType
<1>4. \A j, k \in ready : j < k => Cardinality(before(j)) < Cardinality(before(k))
  <2> SUFFICES ASSUME NEW j \in ready, NEW k \in ready, j < k
               PROVE  Cardinality(before(j)) < Cardinality(before(k))
    OBVIOUS
  <2>1. before(j) \in SUBSET before(k) /\ j \in before(k) /\ j \notin before(j)
    <3>1. j \in Nat /\ k \in Nat /\ \A x \in ready : x \in Nat
      BY JobAssumption
    <3>2. \A x \in before(j) : x \in before(k)
      <4> SUFFICES ASSUME NEW x \in ready, x < j
                   PROVE  x < k
        OBVIOUS
      <4>1. x \in Nat
        BY <3>1
      <4> QED
        BY <3>1, <4>1
    <3>3. j \in before(k)
      OBVIOUS
    <3>4. ~(j < j)
      BY <3>1
    <3> QED
      BY <3>2, <3>3, <3>4
  <2>2. Cardinality(before(j)) <= Cardinality(before(k)) /\ Cardinality(before(j)) # Cardinality(before(k))
    <3> HIDE DEF before, ready
    <3> QED
      BY <1>3, <2>1, FS_Subset
  <2> HIDE DEF before, ready
  <2> QED
    BY <1>3, <2>2
<1> DEFINE place == [j \in rows |-> Cardinality(before(j))]
<1>5. place \in Injection(rows, 0 .. slots - 1)
  <2>1. \A j \in rows : place[j] \in 0 .. slots - 1
    <3>1. \A j \in rows : Cardinality(before(j)) \in Nat /\ Cardinality(before(j)) < slots
      BY <1>3
    <3> HIDE DEF before, rows
    <3> QED
      BY <1>2, <3>1
  <2>2. \A j, k \in rows : place[j] = place[k] => j = k
    <3> SUFFICES ASSUME NEW j \in rows, NEW k \in rows, j # k
                 PROVE  Cardinality(before(j)) # Cardinality(before(k))
      OBVIOUS
    <3>1. j \in ready /\ k \in ready /\ (j < k \/ k < j)
      BY JobAssumption
    <3> HIDE DEF before, ready, rows
    <3> QED
      BY <1>3, <1>4, <3>1
  <2>3. place \in [rows -> 0 .. slots - 1]
    BY <2>1
  <2> HIDE DEF place, rows
  <2> QED
    BY <2>2, <2>3 DEF Injection, IsInjective
<1> HIDE DEF place, rows
<1> QED
  BY <1>2, <1>5, FS_Injection, FS_Interval

\* While runEncodes starts the rows it listed there is room for all of them:
\* entries only disappear meanwhile.
Room ==
    /\ batch # {} => tick \in {"claim", "giveUp", "start"}
    /\ Cardinality(Entries) + Cardinality(batch) <= MaxParallel
    /\ tick = "list" => Cardinality(Entries) + slots <= MaxParallel

\* What the cardinality facts below need of w.encoding and the batch.
LEMMA Sizes ==
    ASSUME TypeOK
    PROVE  /\ IsFiniteSet(Entries) /\ Cardinality(Entries) \in Nat
           /\ IsFiniteSet(batch) /\ Cardinality(batch) \in Nat
BY JobAssumption, EntriesFinite, FS_Subset, FS_CardinalityType DEF TypeOK

\* Fewer entries and fewer rows keep the room.
LEMMA RoomShrinks ==
    ASSUME TypeOK, TypeOK', Room, Entries' \in SUBSET Entries, batch' \in SUBSET batch,
           batch' # {} => tick' \in {"claim", "giveUp", "start"}, tick' = "list" => tick = "list" /\ UNCHANGED slots
    PROVE  Room'
<1>1. /\ Cardinality(Entries') <= Cardinality(Entries) /\ Cardinality(Entries') \in Nat
      /\ Cardinality(batch') <= Cardinality(batch) /\ Cardinality(batch') \in Nat
  BY Sizes, FS_Subset, FS_CardinalityType
<1> QED
  BY <1>1, Sizes, BoundAssumption DEF Room, TypeOK

\* Every step keeps the room: only TakeSlots and ListReady fill it, from what
\* they have counted, and StartEncode turns a row of the batch into an entry.
LEMMA RoomKept ==
    ASSUME TypeOK, TypeOK', Room, [Next]_vars
    PROVE  Room'
<1>1. ASSUME UNCHANGED <<tickVars, encoding>> PROVE Room'
  BY <1>1 DEF Room, Entries, tickVars
<1>2. CASE TickStarts \/ SkipEncodes \/ PassPauseCheck
  BY <1>2 DEF TickStarts, SkipEncodes, PassPauseCheck, Room, Entries, runVars, mapVars
<1>3. CASE TakeSlots
  <2>1. tick = "slots" /\ slots' = FreeSlots /\ tick' \in {"sleep", "list"} /\ UNCHANGED <<batch, encoding>>
    BY <1>3 DEF TakeSlots, runVars, mapVars
  <2>2. batch = {} /\ Entries' = Entries /\ Cardinality(Entries) <= MaxParallel
    BY <2>1, Sizes, FS_EmptySet DEF Room, Entries
  <2>3. Cardinality(Entries) + FreeSlots <= MaxParallel
    BY <2>2, EntriesFinite, BoundAssumption DEF FreeSlots
  <2> QED
    BY <2>1, <2>2, <2>3 DEF Room
<1>4. CASE ListReady
  <2>1. /\ tick = "list" /\ batch = {}
        /\ tick' = "claim" \/ (tick' = "sleep" /\ batch' = {})
    BY <1>4 DEF ListReady, Room
  <2>2. Entries' = Entries
    BY <1>4 DEF ListReady, Entries, runVars, mapVars
  <2>3. Cardinality(batch') <= slots
    <3>1. CASE UNCHANGED batch
      BY <2>1, <3>1, FS_EmptySet, BoundAssumption DEF TypeOK
    <3> QED
      BY <1>4, <3>1, BatchFits
  <2>4. Cardinality(batch') \in Nat
    <3>1. batch' \in SUBSET Job
      BY DEF TypeOK
    <3> QED
      BY <3>1, JobAssumption, FS_Subset, FS_CardinalityType
  <2> QED
    BY <2>1, <2>2, <2>3, <2>4, Sizes, BoundAssumption DEF Room, TypeOK
<1>5. ASSUME NEW j \in Job, Release(j) PROVE Room'
  BY <1>1, <1>5 DEF Release, runVars, mapVars
<1>6. ASSUME NEW j \in Job, ClaimRow(j) PROVE Room'
  BY <1>6 DEF ClaimRow, Room, Entries, runVars, mapVars
<1>7. ASSUME NEW j \in Job, PassOverRow(j) \/ GiveUp(j) \/ RefuseTempFile(j) PROVE Room'
  <2>1. batch' \in SUBSET batch /\ tick' # "list" /\ Entries' = Entries
    BY <1>7 DEF PassOverRow, GiveUp, RefuseTempFile, NextRow, Entries, runVars, mapVars
  <2>2. batch' # {} => tick' \in {"claim", "giveUp"}
    BY <1>7 DEF PassOverRow, GiveUp, RefuseTempFile, NextRow, AtRow
  <2> QED
    BY <2>1, <2>2, RoomShrinks
<1>8. ASSUME NEW j \in Job, NEW g \in Runner, StartEncode(j, g) PROVE Room'
  <2>1. j \in batch /\ batch' = batch \ {j} /\ tick' # "list" /\ (batch' # {} => tick' = "claim")
    BY <1>8 DEF StartEncode, NextRow, AtRow
  <2>2. Entries' = Entries \cup {j}
    BY <1>8, NoneAssumption DEF StartEncode, Register, Entries, TypeOK
  <2>3. Cardinality(batch') = Cardinality(batch) - 1
    BY <2>1, Sizes, FS_RemoveElement
  <2>4. Cardinality(Entries') <= Cardinality(Entries) + 1 /\ Cardinality(Entries') \in Nat
    <3>1. /\ IsFiniteSet(Entries \cup {j})
          /\ Cardinality(Entries \cup {j}) = IF j \in Entries THEN Cardinality(Entries) ELSE Cardinality(Entries) + 1
      BY Sizes, FS_AddElement
    <3> QED
      BY <2>2, <3>1, Sizes
  <2> QED
    BY <2>1, <2>3, <2>4, Sizes, BoundAssumption DEF Room
<1>9. ASSUME NEW g \in Runner, Run(g) PROVE Room'
  <2>1. Entries' \in SUBSET Entries /\ UNCHANGED tickVars
    BY <1>9 DEF Run, RejectJob, BeginEncode, EncodeFails, KeepOriginal, EncodeCommits, SettleError, RequeueEncoding,
                MarkFailed, MarkDone, RefreshArr, Cleanup, DropEntry, Entries, mapVars, TypeOK
  <2> QED
    BY <2>1, RoomShrinks DEF Room, tickVars
<1>10. CASE Handler
  BY <1>1, <1>10 DEF Handler, InsertJob, CancelEncoding, DeleteJob, WritePause, CancelForPause, PutPaused, Resume,
                     RetryAllFailed, RetryJobsByIDs, DeleteJobsByIDs, DeleteTerminalJobs, RetryRows, DeleteRows,
                     runVars, mapVars
<1>11. CASE Restart
  <2>1. Entries' = {} /\ batch' = {} /\ tick' = "sleep"
    BY <1>11 DEF Restart, Entries
  <2> QED
    BY <2>1, RoomShrinks
<1>12. CASE UNCHANGED vars
  BY <1>1, <1>12 DEF vars, runVars, mapVars
<1> QED
  BY <1>2, <1>3, <1>4, <1>5, <1>6, <1>7, <1>8, <1>9, <1>10, <1>11, <1>12 DEF Next, Tick

\* The batch that runEncodes goes through always fits beside the encodes that
\* run: the free slots it computed from len(w.encoding) stay free.
THEOREM RoomAlways == Spec => []Room
<1>1. Init => Room
  BY BoundAssumption, FS_EmptySet DEF Init, Room, Entries
<1> QED
  BY <1>1, RoomKept, TypeCorrect, PTL DEF Spec

\* Unless a run was started over an older one of its job, every encode has an
\* entry of its own.
LEMMA EncodesFitEntries ==
    ASSUME TypeOK, Registered, ~overlapped
    PROVE  Cardinality(Encoding) <= Cardinality(Entries) /\ Cardinality(Encoding) \in Nat
<1> DEFINE jobOf == [g \in Encoding |-> runJob[g]]
<1>1. \A g \in Encoding : g \in Alive /\ runJob[g] \in Job
  BY DEF Encoding, Alive, TypeOK
<1>2. \A g \in Encoding : runJob[g] \in Entries
  BY <1>1, NoneAssumption DEF Registered, RunsAreRegistered, Entries, Alive
<1>3. \A g, h \in Encoding : jobOf[g] = jobOf[h] => g = h
  BY <1>1, OneEntryPerRun
<1>4. jobOf \in Injection(Encoding, Entries)
  BY <1>2, <1>3 DEF Injection, IsInjective
<1> QED
  BY <1>4, Sizes, FS_Injection, FS_CardinalityType

\* The gauge of running encodes counts every one of them unless a run was started
\* over an older one of its job, which EncodesAreCounted leaves out.
CountedAlone == overlapped \/ EncodesAreCounted

\* For every set of jobs and number of slots: w.encoding, from which the gauge of
\* running encodes is read, has an entry for each of them, unless a run was
\* started over an older one of its job (startEncode, its deferred function).
THEOREM EncodesHaveEntries == Spec => []CountedAlone
<1>1. TypeOK /\ Registered => CountedAlone
  BY EncodesFitEntries DEF CountedAlone, EncodesAreCounted
<1> QED
  BY <1>1, TypeCorrect, RegisteredAlways, PTL

\* At most MaxParallel encodes run at a time, unless a run was started over
\* an older one of its job: entries and rows about to be started are never more
\* than MaxParallel.
THEOREM LimitOnEncodes == Spec => []ParallelBoundKept
<1>1. TypeOK /\ Registered /\ Room => ParallelBoundKept
  BY EncodesFitEntries, Sizes, BoundAssumption DEF Room, ParallelBoundKept
<1> QED
  BY <1>1, TypeCorrect, RegisteredAlways, RoomAlways, PTL

\* With one slot no run is ever started over an older one of its job.
THEOREM OneSlotIsSafe == Spec => []SerialNeverOverlaps
<1>1. Init => SerialNeverOverlaps
  BY DEF Init, SerialNeverOverlaps
<1>2. TypeOK /\ Registered /\ Room /\ SerialNeverOverlaps /\ [Next]_vars => SerialNeverOverlaps'
  <2> SUFFICES ASSUME TypeOK, Registered, Room, ~overlapped, MaxParallel = 1, [Next]_vars
               PROVE  ~overlapped'
    BY DEF SerialNeverOverlaps
  <2>1. ASSUME NEW j \in Job, NEW g \in Runner, StartEncode(j, g) PROVE ~overlapped'
    <3>1. j \in batch
      BY <2>1 DEF StartEncode, AtRow
    <3>2. Cardinality(batch) # 0
      BY <3>1, Sizes, FS_EmptySet
    <3>3. Cardinality(Entries) = 0
      BY <3>2, Sizes DEF Room
    <3>4. Entries = {}
      BY <3>3, Sizes, FS_EmptySet
    <3>5. Alive = {}
      BY <3>4, NoneAssumption DEF Registered, RunsAreRegistered, Entries, Alive, TypeOK
    <3>6. overlapped' = (overlapped \/ \E h \in Alive : runJob[h] = j)
      BY <2>1 DEF StartEncode
    <3> QED
      BY <3>5, <3>6
  <2>2. CASE \A j \in Job, g \in Runner : ~StartEncode(j, g)
    <3>1. UNCHANGED overlapped \/ Restart
      BY <2>2 DEF Next, Tick, TickStarts, SkipEncodes, PassPauseCheck, TakeSlots, ListReady, Release, ClaimRow,
                  PassOverRow, GiveUp, RefuseTempFile, Run, RejectJob, BeginEncode, EncodeFails, KeepOriginal,
                  EncodeCommits, SettleError, RequeueEncoding, MarkFailed, MarkDone, RefreshArr, Cleanup, Handler,
                  InsertJob, CancelEncoding, DeleteJob, WritePause, CancelForPause, PutPaused, Resume, RetryAllFailed,
                  RetryJobsByIDs, DeleteJobsByIDs, DeleteTerminalJobs, RetryRows, DeleteRows, vars, runVars, startVars
    <3> QED
      BY <3>1 DEF Restart
  <2> QED
    BY <2>1, <2>2
<1> QED
  BY <1>1, <1>2, TypeCorrect, RegisteredAlways, RoomAlways, PTL DEF Spec

-----------------------------------------------------------------------------
(* No row is stuck in encoding while statements succeed. *)

\* A step that claims no row, and neither ends a run nor moves the tick.
LEMMA OwnedFrame ==
    ASSUME EncodingRowOwned, \A j \in Job : status'[j] = "encoding" => status[j] = "encoding",
           UNCHANGED <<tickVars, phase, runJob>>
    PROVE  EncodingRowOwned'
BY DEF EncodingRowOwned, AtRow, tickVars

\* The tick claims a row to start it, and then starts it or fails it.
LEMMA TickOwned ==
    ASSUME Held, EncodingRowOwned, ~StoreCanFail, Tick
    PROVE  EncodingRowOwned'
<1>1. CASE TickStarts \/ SkipEncodes \/ PassPauseCheck \/ TakeSlots \/ ListReady
  <2>1. tick # "start" /\ UNCHANGED <<status, phase, runJob>>
    BY <1>1 DEF TickStarts, SkipEncodes, PassPauseCheck, TakeSlots, ListReady, rowVars, runVars, startVars
  <2> QED
    BY <2>1 DEF EncodingRowOwned
<1>2. ASSUME NEW j \in Job, Release(j) PROVE EncodingRowOwned'
  BY <1>2, OwnedFrame DEF Release, runVars, startVars, Held, TypeOK
<1>3. ASSUME NEW j \in Job, ClaimRow(j) PROVE EncodingRowOwned'
  BY <1>3 DEF ClaimRow, AtRow, EncodingRowOwned, runVars, startVars, Held, TypeOK
<1>4. ASSUME NEW j \in Job, PassOverRow(j) PROVE EncodingRowOwned'
  BY <1>4 DEF PassOverRow, EncodingRowOwned, rowVars, runVars, startVars
<1>5. ASSUME NEW j \in Job, GiveUp(j) PROVE EncodingRowOwned'
  BY <1>5 DEF GiveUp, MarkJob, EncodingRowOwned, runVars, startVars, Held, TypeOK
<1>6. ASSUME NEW j \in Job, NEW k \in Job, status'[k] = "encoding", status[k] = "encoding", k # j,
             tick = "start", AtRow(j), UNCHANGED <<phase, runJob>>
      PROVE  \E g \in Runner : phase'[g] \in Unsettled /\ runJob'[g] = k
  BY <1>6, OneRow DEF EncodingRowOwned
<1>7. ASSUME NEW j \in Job, RefuseTempFile(j) PROVE EncodingRowOwned'
  <2>1. status[j] = "encoding" /\ tick = "start" /\ AtRow(j) /\ UNCHANGED <<phase, runJob>>
    BY <1>7 DEF RefuseTempFile, Held, StartPending, runVars, startVars
  <2>2. \A k \in Job : status'[k] = "encoding" => k # j /\ status[k] = "encoding"
    BY <1>7, <2>1 DEF RefuseTempFile, MarkJob, Exists, RowStatus, Held, TypeOK
  <2> QED
    BY <1>6, <2>1, <2>2 DEF EncodingRowOwned
<1>8. ASSUME NEW j \in Job, NEW g \in Runner, StartEncode(j, g) PROVE EncodingRowOwned'
  <2>1. /\ tick = "start" /\ AtRow(j) /\ phase[g] = "idle" /\ UNCHANGED status
        /\ phase' = [phase EXCEPT ![g] = "prepare"] /\ runJob' = [runJob EXCEPT ![g] = j]
    BY <1>8 DEF StartEncode, rowVars
  <2>2. phase'[g] \in Unsettled /\ runJob'[g] = j
    BY <2>1 DEF Held, TypeOK, Unsettled
  <2>3. ASSUME NEW k \in Job, status'[k] = "encoding", k # j
        PROVE  \E h \in Runner : phase'[h] \in Unsettled /\ runJob'[h] = k
    <3>1. PICK h \in Runner : phase[h] \in Unsettled /\ runJob[h] = k
      BY <2>1, <2>3, OneRow DEF EncodingRowOwned
    <3>2. h # g
      BY <2>1, <3>1 DEF Unsettled
    <3> QED
      BY <2>1, <3>1, <3>2 DEF Held, TypeOK
  <2> QED
    BY <2>2, <2>3 DEF EncodingRowOwned
<1> QED
  BY <1>1, <1>2, <1>3, <1>4, <1>5, <1>7, <1>8 DEF Tick

\* A run settles its row before it leaves it.
LEMMA RunOwned ==
    ASSUME Held, EncodingRowOwned, ~StoreCanFail, NEW g \in Runner, Run(g)
    PROVE  EncodingRowOwned'
<1>1. /\ \A h \in Runner \ {g} : phase'[h] = phase[h] /\ runJob'[h] = runJob[h]
      /\ UNCHANGED tickVars
  BY DEF Held, TypeOK, Run, Goes, RejectJob, BeginEncode, EncodeFails, KeepOriginal, EncodeCommits, SettleError,
         RequeueEncoding, MarkFailed, MarkDone, RefreshArr, Cleanup, startVars
<1>2. \A k \in Job : status'[k] = "encoding" => status[k] = "encoding"
  BY DEF Held, TypeOK, Run, RejectJob, BeginEncode, EncodeFails, KeepOriginal, EncodeCommits, SettleError,
         RequeueEncoding, MarkFailed, MarkDone, RefreshArr, Cleanup, MarkJob, rowVars
<1>3. phase[g] \in Unsettled =>
          \/ phase'[g] \in Unsettled /\ runJob'[g] = runJob[g]
          \/ status'[runJob[g]] # "encoding"
  <2> SUFFICES ASSUME phase[g] \in Unsettled
               PROVE  \/ phase'[g] \in Unsettled /\ runJob'[g] = runJob[g]
                      \/ status'[runJob[g]] # "encoding"
    OBVIOUS
  <2>1. runJob[g] \in Job /\ status[runJob[g]] = "encoding" /\ Exists(runJob[g])
    BY DEF Held, RunHoldsRow, TypeOK, Alive, Unsettled, Exists, RowStatus
  <2>2. CASE BeginEncode(g) \/ EncodeFails(g) \/ EncodeCommits(g) \/ SettleError(g)
    BY <2>2 DEF BeginEncode, EncodeFails, EncodeCommits, SettleError, Goes, Unsettled, startVars, Held, TypeOK
  <2>3. CASE RejectJob(g) \/ KeepOriginal(g) \/ MarkFailed(g) \/ MarkDone(g) \/ RequeueEncoding(g)
    BY <2>1, <2>3 DEF RejectJob, KeepOriginal, MarkFailed, MarkDone, RequeueEncoding, MarkJob, Held, TypeOK
  <2> QED
    BY <2>2, <2>3 DEF Run, RefreshArr, Cleanup, Goes, Unsettled
<1> QED
  BY <1>1, <1>2, <1>3 DEF EncodingRowOwned, AtRow, tickVars

\* No HTTP handler puts a row into encoding, nor touches a run or the tick.
LEMMA HandlerOwned ==
    ASSUME Held, EncodingRowOwned, Handler
    PROVE  EncodingRowOwned'
<1>1. /\ \A k \in Job : status'[k] = "encoding" => status[k] = "encoding"
      /\ UNCHANGED <<tickVars, phase, runJob>>
  BY DEF Held, TypeOK, Handler, InsertJob, CancelEncoding, DeleteJob, WritePause, CancelForPause, PutPaused, Resume,
         RetryAllFailed, RetryJobsByIDs, DeleteJobsByIDs, DeleteTerminalJobs, RetryRows, DeleteRows, rowVars, runVars,
         startVars, Waiting
<1> QED
  BY <1>1, OwnedFrame

\* As long as statements succeed, every claimed row is about to be started or
\* has a run that will give it an outcome.
THEOREM ClaimedRowsAreOwned == Spec => []EncodingRowOwned
<1>1. Init => EncodingRowOwned
  BY DEF Init, EncodingRowOwned
<1>2. Held /\ EncodingRowOwned /\ [Next]_vars => EncodingRowOwned'
  <2> SUFFICES ASSUME Held, EncodingRowOwned, [Next]_vars, ~StoreCanFail
               PROVE  EncodingRowOwned'
    BY DEF EncodingRowOwned
  <2>1. CASE UNCHANGED vars
    BY <2>1, OwnedFrame DEF vars, rowVars, runVars, startVars
  <2>2. CASE Restart
    BY <2>2 DEF Restart, Recovered, EncodingRowOwned
  <2> QED
    BY <2>1, <2>2, TickOwned, RunOwned, HandlerOwned DEF Next
<1> QED
  BY <1>1, <1>2, HeldAlways, PTL DEF Spec

-----------------------------------------------------------------------------
(* What must happen in the end, as far as steps can show it: every goroutine *)
(* has only so many steps left, and nobody adds to them.                     *)

\* How many steps an encode goroutine has left at most.
RunLeft(p) ==
    CASE p = "prepare"                   -> 7
      [] p = "encode"                    -> 6
      [] p = "settle"                    -> 5
      [] p \in {"requeue", "fail", "done"} -> 4
      [] p = "refresh"                   -> 3
      [] p = "cleanup"                   -> 1
      [] OTHER                           -> 0

LEMMA RunTable ==
    /\ RunLeft("prepare") = 7 /\ RunLeft("encode") = 6 /\ RunLeft("settle") = 5
    /\ RunLeft("requeue") = 4 /\ RunLeft("fail") = 4 /\ RunLeft("done") = 4
    /\ RunLeft("refresh") = 3 /\ RunLeft("cleanup") = 1 /\ RunLeft("idle") = 0
BY DEF RunLeft

\* A step of g takes it nearer to its end and leaves the others where they are.
LEMMA RunStep ==
    ASSUME TypeOK, NEW g \in Runner, Run(g)
    PROVE  /\ RunLeft(phase'[g]) \in Nat /\ RunLeft(phase[g]) \in Nat
           /\ RunLeft(phase'[g]) < RunLeft(phase[g])
           /\ \A h \in Runner \ {g} : phase'[h] = phase[h]
<1>1. \/ phase[g] = "prepare" /\ phase'[g] \in {"encode", "settle", "cleanup"}
      \/ phase[g] = "encode" /\ phase'[g] \in {"settle", "done", "cleanup"}
      \/ phase[g] = "settle" /\ phase'[g] \in {"requeue", "fail"}
      \/ phase[g] \in {"requeue", "fail"} /\ phase'[g] = "cleanup"
      \/ phase[g] = "done" /\ phase'[g] \in {"refresh", "cleanup"}
      \/ phase[g] = "refresh" /\ phase'[g] = "cleanup"
      \/ phase[g] = "cleanup" /\ phase'[g] = "idle"
  BY DEF TypeOK, Run, Goes, RejectJob, BeginEncode, EncodeFails, KeepOriginal, EncodeCommits, SettleError,
         RequeueEncoding, MarkFailed, MarkDone, RefreshArr, Cleanup
<1>2. \A h \in Runner \ {g} : phase'[h] = phase[h]
  BY DEF TypeOK, Run, Goes, RejectJob, BeginEncode, EncodeFails, KeepOriginal, EncodeCommits, SettleError,
         RequeueEncoding, MarkFailed, MarkDone, RefreshArr, Cleanup
<1> QED
  BY <1>1, <1>2, RunTable

\* A goroutine that lives takes at most seven steps, whatever pauses, cancels and
\* other runs come in between; no step takes it back (encodeOne, the error path,
\* the deferred function).
RunsDescend ==
    [][\A g \in Runner : phase[g] # "idle" =>
          /\ Run(g) => RunLeft(phase'[g]) < RunLeft(phase[g])
          /\ RunLeft(phase'[g]) <= RunLeft(phase[g])]_vars

LEMMA PhaseKept ==
    ASSUME TypeOK, [Next]_vars, NEW g \in Runner, phase[g] # "idle", phase'[g] # phase[g]
    PROVE  Run(g) \/ Restart
<1>1. CASE \E j \in Job, h \in Runner : StartEncode(j, h)
  BY <1>1 DEF StartEncode, TypeOK
<1>2. CASE UNCHANGED phase
  BY <1>2
<1>3. CASE Restart
  BY <1>3
<1>4. ASSUME NEW h \in Runner, Run(h) PROVE Run(g)
  BY <1>4, RunStep
<1> QED
  BY <1>1, <1>2, <1>3, <1>4
     DEF Next, Tick, TickStarts, SkipEncodes, PassPauseCheck, TakeSlots, ListReady, Release, ClaimRow, PassOverRow,
         GiveUp, RefuseTempFile, Handler, InsertJob, CancelEncoding, DeleteJob, WritePause, CancelForPause, PutPaused,
         Resume, RetryAllFailed, RetryJobsByIDs, DeleteJobsByIDs, DeleteTerminalJobs, RetryRows, DeleteRows, vars,
         runVars

\* For every set of jobs and goroutines: each step of a run is one of the few it
\* has, and pauses, cancels, deletions and other runs do not give it more
\* (startEncode, encodeOne).
THEOREM RunsComeToTheirEnd == Spec => RunsDescend
<1>1. ASSUME TypeOK, [Next]_vars, NEW g \in Runner, phase[g] # "idle"
      PROVE  /\ Run(g) => RunLeft(phase'[g]) < RunLeft(phase[g])
             /\ RunLeft(phase'[g]) <= RunLeft(phase[g])
  <2>1. phase[g] \in RunPhase /\ RunLeft(phase[g]) \in Nat
    BY <1>1, RunTable DEF TypeOK, RunPhase
  <2>2. CASE Run(g)
    BY <1>1, <2>2, RunStep
  <2>3. CASE Restart
    BY <2>1, <2>2, <2>3, RunTable DEF Restart
  <2>4. CASE phase'[g] = phase[g]
    BY <2>1, <2>2, <2>4
  <2> QED
    BY <1>1, <2>2, <2>3, <2>4, PhaseKept
<1>2. TypeOK /\ [Next]_vars =>
          [\A g \in Runner : phase[g] # "idle" =>
              /\ Run(g) => RunLeft(phase'[g]) < RunLeft(phase[g])
              /\ RunLeft(phase'[g]) <= RunLeft(phase[g])]_vars
  BY <1>1
<1> QED
  BY <1>2, TypeCorrect, PTL DEF Spec, RunsDescend

-----------------------------------------------------------------------------
\* How many steps the tick has left at most, leaving aside what the gates
\* release: three for every row still in the batch, which may be all there are.
TickLeft ==
    CASE tick = "gates"              -> 3 * Cardinality(Job) + 4
      [] tick = "slots"              -> 3 * Cardinality(Job) + 3
      [] tick = "list"               -> 3 * Cardinality(Job) + 2
      [] tick = "claim"              -> 3 * Cardinality(batch) + 1
      [] tick \in {"giveUp", "start"} -> 3 * Cardinality(batch)
      [] OTHER                       -> 0

\* A tick that has begun takes only so many steps, rows that change under it
\* included, and nobody sends it back: the next one begins (tick, runEncodes).
TicksDescend ==
    [][tick # "sleep" => /\ TickMoves => TickLeft' < TickLeft
                         /\ TickLeft' <= TickLeft]_vars

LEMMA TickLeftTable ==
    /\ tick = "gates" => TickLeft = 3 * Cardinality(Job) + 4
    /\ tick = "slots" => TickLeft = 3 * Cardinality(Job) + 3
    /\ tick = "list" => TickLeft = 3 * Cardinality(Job) + 2
    /\ tick = "claim" => TickLeft = 3 * Cardinality(batch) + 1
    /\ tick \in {"giveUp", "start"} => TickLeft = 3 * Cardinality(batch)
    /\ tick = "sleep" => TickLeft = 0
BY DEF TickLeft

LEMMA BatchSize ==
    ASSUME TypeOK
    PROVE  /\ Cardinality(Job) \in Nat /\ Cardinality(batch) \in Nat
           /\ Cardinality(batch) <= Cardinality(Job)
           /\ \A j \in batch : Cardinality(batch \ {j}) = Cardinality(batch) - 1
BY JobAssumption, FS_Subset, FS_CardinalityType, FS_RemoveElement DEF TypeOK

\* The tick is at a row of the batch while it claims.
LEMMA MovesOn ==
    ASSUME TypeOK, NEW j \in Job, AtRow(j), NextRow(j), tick \in {"claim", "giveUp", "start"}
    PROVE  TickLeft' < TickLeft
<1>1. j \in batch /\ batch' = batch \ {j} /\ tick' \in {"sleep", "claim"}
  BY DEF AtRow, NextRow
<1>2. /\ Cardinality(batch) \in Nat /\ Cardinality(batch') = Cardinality(batch) - 1
      /\ Cardinality(batch') \in Nat
  <2>1. IsFiniteSet(batch \ {j}) /\ Cardinality(batch \ {j}) \in Nat
    BY JobAssumption, FS_Subset, FS_CardinalityType DEF TypeOK
  <2> QED
    BY <1>1, <2>1, BatchSize
<1>3. TickLeft >= 3 * Cardinality(batch)
  BY <1>2, TickLeftTable
<1>4. /\ tick' = "claim" => TickLeft' = 3 * Cardinality(batch') + 1
      /\ tick' = "sleep" => TickLeft' = 0
  BY DEF TickLeft
<1>5. TickLeft \in Int
  BY <1>2, TickLeftTable
<1> QED
  BY <1>1, <1>2, <1>3, <1>4, <1>5

\* Each step of the tick goroutine that is not a gate's.
LEMMA TickDescends ==
    ASSUME TypeOK, TypeOK', TickMoves, tick # "sleep"
    PROVE  TickLeft' < TickLeft
<1> DEFINE n == Cardinality(Job)
<1>1. n \in Nat /\ Cardinality(batch) \in Nat /\ Cardinality(batch') \in Nat /\ Cardinality(batch') <= n
  <2>1. batch' \in SUBSET Job
    BY DEF TypeOK
  <2> QED
    BY <2>1, BatchSize, JobAssumption, FS_Subset, FS_CardinalityType
<1>2. /\ tick' = "slots" => TickLeft' = 3 * n + 3
      /\ tick' = "list" => TickLeft' = 3 * n + 2
      /\ tick' = "claim" => TickLeft' = 3 * Cardinality(batch') + 1
      /\ tick' \in {"giveUp", "start"} => TickLeft' = 3 * Cardinality(batch')
      /\ tick' = "sleep" => TickLeft' = 0
  BY DEF TickLeft
<1>3. CASE SkipEncodes \/ PassPauseCheck \/ TakeSlots
  <2>1. \/ tick = "gates" /\ tick' \in {"sleep", "slots"}
        \/ tick = "slots" /\ tick' \in {"sleep", "list"}
    BY <1>3 DEF SkipEncodes, PassPauseCheck, TakeSlots
  <2> HIDE DEF n
  <2> QED
    BY <1>1, <1>2, <2>1, TickLeftTable DEF n
<1>4. CASE ListReady
  <2>1. tick = "list" /\ tick' \in {"sleep", "claim"}
    BY <1>4 DEF ListReady
  <2> QED
    BY <1>1, <1>2, <2>1, TickLeftTable
<1>5. ASSUME NEW j \in Job, ClaimRow(j) PROVE TickLeft' < TickLeft
  <2>1. tick = "claim" /\ tick' = "start" /\ batch' = batch
    BY <1>5 DEF ClaimRow
  <2> QED
    BY <1>1, <1>2, <2>1, TickLeftTable
<1>6. ASSUME NEW j \in Job, PassOverRow(j) PROVE TickLeft' < TickLeft
  <2>1. CASE NextRow(j)
    BY <1>6, <2>1, MovesOn DEF PassOverRow
  <2>2. CASE tick' = "giveUp" /\ batch' = batch
    BY <1>1, <1>2, <1>6, <2>2, TickLeftTable DEF PassOverRow
  <2> QED
    BY <1>6, <2>1, <2>2 DEF PassOverRow
<1>7. ASSUME NEW j \in Job, NEW g \in Runner, StartEncode(j, g) PROVE TickLeft' < TickLeft
  BY <1>7, MovesOn DEF StartEncode
<1>8. ASSUME NEW j \in Job, GiveUp(j) \/ RefuseTempFile(j) PROVE TickLeft' < TickLeft
  BY <1>8, MovesOn DEF GiveUp, RefuseTempFile
<1> QED
  BY <1>3, <1>4, <1>5, <1>6, <1>7, <1>8 DEF TickMoves, TickStarts

\* For every set of jobs and number of slots, with or without failing statements:
\* no change of the rows under a tick makes it go on for ever, which keeps later
\* rows and the pause switch from being looked at (tick, runEncodes).
THEOREM TicksComeToTheirEnd == Spec => TicksDescend
<1>1. ASSUME TypeOK, TypeOK', [Next]_vars, tick # "sleep" PROVE TickLeft' <= TickLeft
  <2>1. TickLeft \in Nat
    BY <1>1, BatchSize, TickLeftTable DEF TypeOK, TickPhase
  <2>2. CASE TickMoves
    <3>1. TickLeft' < TickLeft
      BY <1>1, <2>2, TickDescends
    <3>2. TickLeft' \in Int
      <4>1. batch' \in SUBSET Job /\ tick' \in TickPhase
        BY <1>1 DEF TypeOK
      <4>2. Cardinality(batch') \in Nat /\ Cardinality(Job) \in Nat
        BY <4>1, JobAssumption, FS_Subset, FS_CardinalityType
      <4> QED
        BY <4>1, <4>2 DEF TickLeft, TickPhase
    <3> QED
      BY <2>1, <3>1, <3>2
  <2>3. CASE Restart
    BY <2>1, <2>3 DEF Restart, TickLeft
  <2>4. CASE UNCHANGED tickVars
    BY <2>1, <2>4 DEF tickVars, TickLeft
  <2> QED
    BY <1>1, <2>2, <2>3, <2>4
       DEF Next, Tick, TickMoves, Release, Run, RejectJob, BeginEncode, EncodeFails, KeepOriginal, EncodeCommits,
           SettleError, RequeueEncoding, MarkFailed, MarkDone, RefreshArr, Cleanup, Handler, InsertJob,
           CancelEncoding, DeleteJob, WritePause, CancelForPause, PutPaused, Resume, RetryAllFailed, RetryJobsByIDs,
           DeleteJobsByIDs, DeleteTerminalJobs, RetryRows, DeleteRows, vars
<1>2. TypeOK /\ TypeOK' /\ [Next]_vars =>
          [tick # "sleep" => /\ TickMoves => TickLeft' < TickLeft
                             /\ TickLeft' <= TickLeft]_vars
  BY <1>1, TickDescends
<1> QED
  BY <1>2, TypeCorrect, PTL DEF Spec, TicksDescend

\* Once encoding is paused, a tick that looks at the switch again starts nothing:
\* only one that had passed it before can still start its encodes, which is why
\* PausedStartsNothing is refuted and the encodes drain all the same.
PausedTickStartsNothing ==
    [][paused /\ paused' /\ ~StoreCanFail /\ tick \in {"sleep", "gates"} =>
          tick' \in {"sleep", "gates"} /\ Encoding' \subseteq Encoding]_vars

\* For every set of jobs and number of slots: while encoding stays paused, a tick
\* before its look at the switch goes back to sleep, and no run is added to those
\* that encode (tick, runEncodes).
THEOREM PausedTicksStartNothing == Spec => PausedTickStartsNothing
<1>1. ASSUME TypeOK, [Next]_vars, paused, paused', ~StoreCanFail, tick \in {"sleep", "gates"}
      PROVE  tick' \in {"sleep", "gates"} /\ Encoding' \subseteq Encoding
  <2>1. tick' \in {"sleep", "gates"}
    BY <1>1
       DEF Next, Tick, TickStarts, SkipEncodes, PassPauseCheck, SwitchIsOn, TakeSlots, ListReady, Release, ClaimRow,
           PassOverRow, GiveUp, RefuseTempFile, StartEncode, Run, RejectJob, BeginEncode, EncodeFails, KeepOriginal,
           EncodeCommits, SettleError, RequeueEncoding, MarkFailed, MarkDone, RefreshArr, Cleanup, Handler, InsertJob,
           CancelEncoding, DeleteJob, WritePause, CancelForPause, PutPaused, Resume, RetryAllFailed, RetryJobsByIDs,
           DeleteJobsByIDs, DeleteTerminalJobs, RetryRows, DeleteRows, Restart, vars, tickVars
  <2>2. ASSUME NEW g \in Runner, phase'[g] \in {"prepare", "encode"} PROVE phase[g] \in {"prepare", "encode"}
    <3>1. CASE phase[g] # "idle"
      <4>1. CASE Run(g)
        BY <1>1, <2>2, <4>1 DEF TypeOK, Run, Goes, RejectJob, BeginEncode, EncodeFails, KeepOriginal, EncodeCommits,
             SettleError, RequeueEncoding, MarkFailed, MarkDone, RefreshArr, Cleanup
      <4>2. CASE Restart
        BY <2>2, <4>2 DEF Restart
      <4> QED
        BY <1>1, <2>2, <3>1, <4>1, <4>2, PhaseKept
    <3>2. CASE phase[g] = "idle"
      <4>1. CASE \E h \in Runner : Run(h)
        <5>1. PICK h \in Runner : Run(h)
          BY <4>1
        <5>2. phase[h] # "idle"
          BY <5>1 DEF Run, Goes, RejectJob, BeginEncode, EncodeFails, KeepOriginal, EncodeCommits,
             SettleError, RequeueEncoding, MarkFailed, MarkDone, RefreshArr, Cleanup
        <5> QED
          BY <1>1, <2>2, <3>2, <5>1, <5>2, RunStep
      <4>2. CASE Restart
        BY <2>2, <4>2 DEF Restart
      <4>3. CASE UNCHANGED phase
        BY <2>2, <4>3
      <4> QED
        BY <1>1, <4>1, <4>2, <4>3
           DEF Next, Tick, TickStarts, SkipEncodes, PassPauseCheck, TakeSlots, ListReady, Release, ClaimRow,
               PassOverRow, GiveUp, RefuseTempFile, StartEncode, Handler, InsertJob, CancelEncoding, DeleteJob,
               WritePause, CancelForPause, PutPaused, Resume, RetryAllFailed, RetryJobsByIDs, DeleteJobsByIDs,
               DeleteTerminalJobs, RetryRows, DeleteRows, vars, runVars
    <3> QED
      BY <3>1, <3>2
  <2> QED
    BY <2>1, <2>2 DEF Encoding
<1>2. TypeOK /\ [Next]_vars =>
          [paused /\ paused' /\ ~StoreCanFail /\ tick \in {"sleep", "gates"} =>
              tick' \in {"sleep", "gates"} /\ Encoding' \subseteq Encoding]_vars
  BY <1>1
<1> QED
  BY <1>2, TypeCorrect, PTL DEF Spec, PausedTickStartsNothing

-----------------------------------------------------------------------------
\* The claimed row j gets its outcome in at most n steps of its one holder: the
\* tick that is about to start it, or its run.
Owes(j, n) ==
    \/ tick = "start" /\ AtRow(j) /\ n = 8
    \/ \E g \in Runner : phase[g] \in Unsettled /\ runJob[g] = j /\ n = RunLeft(phase[g])

\* The holder takes a step.
Serves(j) ==
    \/ tick = "start" /\ AtRow(j) /\ Tick
    \/ \E g \in Runner : phase[g] \in Unsettled /\ runJob[g] = j /\ Run(g)

\* As long as statements succeed, every step of the holder of a claimed row brings
\* the row nearer to its outcome, and nobody else's step, of other runs, handlers
\* or a restart, takes the row out of its hands or further away (runEncodes,
\* encodeOne, RecoverOrphanEncoding).
ClaimedRowsDescend ==
    [][~StoreCanFail => \A j \in Job, n \in 0..8 : Owes(j, n) =>
          \/ status'[j] # "encoding"
          \/ \E m \in 0..n : Owes(j, m)' /\ (Serves(j) => m < n)]_vars

\* The tick is about to start the row.
LEMMA StartServed ==
    ASSUME Held, Held', ~StoreCanFail, [Next]_vars, NEW j \in Job, tick = "start", AtRow(j),
           status'[j] = "encoding"
    PROVE  \E m \in 0..8 : Owes(j, m)' /\ (Serves(j) => m < 8)
<1>1. CASE \E k \in Job, g \in Runner : StartEncode(k, g)
  <2>1. PICK k \in Job, g \in Runner : StartEncode(k, g)
    BY <1>1
  <2>2. k = j
    BY <2>1, OneRow DEF StartEncode
  <2>3. phase'[g] = "prepare" /\ runJob'[g] = j
    BY <2>1, <2>2 DEF StartEncode, Held, TypeOK
  <2>4. Owes(j, 7)'
    BY <2>3, RunTable DEF Owes, Unsettled
  <2> QED
    BY <2>4
<1>2. CASE \E k \in Job : RefuseTempFile(k)
  <2>1. PICK k \in Job : RefuseTempFile(k)
    BY <1>2
  <2>2. k = j /\ status[j] = "encoding"
    BY <2>1, OneRow DEF RefuseTempFile, Held, StartPending
  <2>3. status'[j] = "failed"
    BY <2>1, <2>2 DEF RefuseTempFile, MarkJob, Exists, RowStatus, Held, TypeOK
  <2> QED
    BY <2>3
<1>3. CASE Restart
  BY <1>3 DEF Restart, Recovered
<1>4. CASE UNCHANGED tickVars /\ ~Tick
  <2>1. Owes(j, 8)'
    BY <1>4 DEF Owes, AtRow, tickVars
  <2>2. ~Serves(j)
    BY <1>4 DEF Serves, Held, StartPending
  <2> QED
    BY <2>1, <2>2
<1>5. Tick => \/ \E k \in Job : RefuseTempFile(k) \/ \E g \in Runner : StartEncode(k, g)
  BY DEF Tick, TickStarts, SkipEncodes, PassPauseCheck, TakeSlots, ListReady, Release, ClaimRow, PassOverRow, GiveUp
<1>6. (\E g \in Runner : Run(g)) \/ Handler \/ UNCHANGED vars => UNCHANGED tickVars
  BY DEF Run, RejectJob, BeginEncode, EncodeFails, KeepOriginal, EncodeCommits, SettleError, RequeueEncoding,
         MarkFailed, MarkDone, RefreshArr, Cleanup, Handler, InsertJob, CancelEncoding, DeleteJob, WritePause,
         CancelForPause, PutPaused, Resume, RetryAllFailed, RetryJobsByIDs, DeleteJobsByIDs, DeleteTerminalJobs,
         RetryRows, DeleteRows, vars
<1> QED
  BY <1>1, <1>2, <1>3, <1>4, <1>5, <1>6 DEF Next

\* The row has a run.
LEMMA RunServed ==
    ASSUME Held, ~StoreCanFail, [Next]_vars, NEW j \in Job, NEW g \in Runner,
           phase[g] \in Unsettled, runJob[g] = j, status'[j] = "encoding"
    PROVE  \E m \in 0..RunLeft(phase[g]) : Owes(j, m)' /\ (Serves(j) => m < RunLeft(phase[g]))
<1>1. RunLeft(phase[g]) \in 0..8
  BY RunTable DEF Unsettled
<1>2. Serves(j) => Run(g)
  BY DEF Serves, Held, OneRunPerJob, StartPending
<1>3. CASE Run(g)
  <2>1. phase'[g] \in Unsettled /\ runJob'[g] = j
    <3>1. status[j] = "encoding" /\ Exists(j)
      BY DEF Held, RunHoldsRow, Exists, RowStatus
    <3>2. CASE BeginEncode(g) \/ EncodeFails(g) \/ EncodeCommits(g) \/ SettleError(g)
      BY <3>2 DEF BeginEncode, EncodeFails, EncodeCommits, SettleError, Goes, Unsettled, startVars, Held, TypeOK
    <3>3. CASE RejectJob(g) \/ KeepOriginal(g) \/ MarkFailed(g) \/ MarkDone(g) \/ RequeueEncoding(g)
      BY <3>1, <3>3 DEF RejectJob, KeepOriginal, MarkFailed, MarkDone, RequeueEncoding, MarkJob, Held, TypeOK
    <3> QED
      BY <1>3, <3>2, <3>3 DEF Run, RefreshArr, Cleanup, Goes, Unsettled
  <2>2. PICK m \in Nat : m = RunLeft(phase'[g]) /\ m < RunLeft(phase[g])
    BY <1>3, RunStep DEF Held
  <2>3. Owes(j, m)'
    BY <2>1, <2>2 DEF Owes
  <2>4. m \in 0..RunLeft(phase[g])
    BY <1>1, <2>2
  <2> QED
    BY <2>2, <2>3, <2>4
<1>4. CASE ~Run(g)
  <2>1. CASE Restart
    BY <2>1 DEF Restart, Recovered
  <2>2. CASE ~Restart
    <3>1. phase'[g] = phase[g]
      BY <1>4, <2>2, PhaseKept DEF Held, Unsettled
    <3>2. runJob'[g] = j
      BY <1>4, <2>2, <3>1
         DEF Held, TypeOK, Unsettled, Next, Tick, TickStarts, SkipEncodes, PassPauseCheck, TakeSlots, ListReady,
             Release, ClaimRow, PassOverRow, GiveUp, RefuseTempFile, StartEncode, Run, RejectJob, BeginEncode,
             EncodeFails, KeepOriginal, EncodeCommits, SettleError, RequeueEncoding, MarkFailed, MarkDone, RefreshArr,
             Cleanup, Goes, Handler, InsertJob, CancelEncoding, DeleteJob, WritePause, CancelForPause, PutPaused,
             Resume, RetryAllFailed, RetryJobsByIDs, DeleteJobsByIDs, DeleteTerminalJobs, RetryRows, DeleteRows, vars,
             runVars, startVars
    <3>3. PICK m \in 0..8 : m = RunLeft(phase[g])
      BY <1>1
    <3>4. Owes(j, m)'
      BY <3>1, <3>2, <3>3 DEF Owes
    <3>5. m \in 0..RunLeft(phase[g])
      BY <3>3
    <3> QED
      BY <1>2, <1>4, <3>4, <3>5
  <2> QED
    BY <2>1, <2>2
<1> QED
  BY <1>3, <1>4

\* Every claimed row has a holder.
ClaimedRowsAreOwed ==
    StoreCanFail \/ \A j \in Job : status[j] = "encoding" => \E n \in 0..8 : Owes(j, n)

\* For every set of jobs, goroutines and restarts: as long as statements succeed,
\* no encoding row is forgotten, and what still has to be done for it becomes
\* less with each step of its holder.  EncodingEnds adds to this that the holder
\* takes its steps (runEncodes, encodeOne, RecoverOrphanEncoding).
THEOREM ClaimedRowsComeToTheirEnd == Spec => []ClaimedRowsAreOwed /\ ClaimedRowsDescend
<1>1. ASSUME Held, Held', [Next]_vars, ~StoreCanFail, NEW j \in Job, NEW n \in 0..8, Owes(j, n),
             status'[j] = "encoding"
      PROVE  \E m \in 0..n : Owes(j, m)' /\ (Serves(j) => m < n)
  <2>1. CASE tick = "start" /\ AtRow(j) /\ n = 8
    BY <1>1, <2>1, StartServed
  <2>2. ASSUME NEW g \in Runner, phase[g] \in Unsettled, runJob[g] = j, n = RunLeft(phase[g])
        PROVE  \E m \in 0..n : Owes(j, m)' /\ (Serves(j) => m < n)
    BY <1>1, <2>2, RunServed
  <2> QED
    BY <1>1, <2>1, <2>2 DEF Owes
<1>2. Held /\ Held' /\ [Next]_vars =>
          [~StoreCanFail => \A j \in Job, n \in 0..8 : Owes(j, n) =>
              \/ status'[j] # "encoding"
              \/ \E m \in 0..n : Owes(j, m)' /\ (Serves(j) => m < n)]_vars
  BY <1>1
<1>3. EncodingRowOwned => ClaimedRowsAreOwed
  <2> SUFFICES ASSUME EncodingRowOwned, ~StoreCanFail, NEW j \in Job, status[j] = "encoding"
               PROVE  \E n \in 0..8 : Owes(j, n)
    BY DEF ClaimedRowsAreOwed
  <2>1. CASE tick = "start" /\ AtRow(j)
    BY <2>1 DEF Owes
  <2>2. ASSUME NEW g \in Runner, phase[g] \in Unsettled, runJob[g] = j PROVE \E n \in 0..8 : Owes(j, n)
    <3>1. RunLeft(phase[g]) \in 0..8
      BY <2>2, RunTable DEF Unsettled
    <3> QED
      BY <2>2, <3>1 DEF Owes
  <2> QED
    BY <2>1, <2>2 DEF EncodingRowOwned
<1> QED
  BY <1>2, <1>3, HeldAlways, ClaimedRowsAreOwned, PTL DEF Spec, ClaimedRowsDescend

=============================================================================
