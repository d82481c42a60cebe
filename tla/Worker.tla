------------------------------- MODULE Worker -------------------------------
(***************************************************************************)
(* The encode worker of internal/job/job.go together with the statements   *)
(* of internal/store/queries.go that move job rows, the API handlers that  *)
(* act on rows and on the worker, and the start-up recovery of main.go.    *)
(*                                                                         *)
(* Four kinds of actors interleave:                                        *)
(*   - the tick goroutine (Run -> tick), one step per store call or        *)
(*     critical section of w.mu;                                           *)
(*   - one goroutine per encode (startEncode), a Runner;                   *)
(*   - HTTP handlers: pause, cancel, retry, delete;                        *)
(*   - the operating system, which may kill the process at any point.      *)
(*                                                                         *)
(* Not told apart here: what is in the media file (MediaFile) and which    *)
(* profile it is encoded with (ProfileChoice), the progress of an encode,  *)
(* refresh_error.                                                          *)
(***************************************************************************)
EXTENDS Naturals, FiniteSets

CONSTANTS
    Job,             \* ids of the jobs table
    TempFile,        \* the jobs whose path is a recodarr temp file (handbrake.IsTempPath)
    Runner,          \* encode goroutines; their number bounds those alive at once
    NoRunner,        \* encoding[j] when the map has no key j
    NoJob,           \* the job of an idle runner
    MaxParallel,     \* AppSettings.MaxParallelEncodes
    MaxJobAttempts,  \* store.MaxJobAttempts
    MaxRestarts,     \* bound: how often the process is killed and started again
    StoreCanFail     \* TRUE: a statement may return an error (SQLITE_BUSY, a cancelled context)

ASSUME JobAssumption == Job \subseteq Nat /\ IsFiniteSet(Job) /\ TempFile \subseteq Job
ASSUME NoneAssumption == NoRunner \notin Runner /\ NoJob \notin Job
ASSUME BoundAssumption ==
    /\ MaxParallel \in Nat \ {0}
    /\ MaxJobAttempts \in Nat \ {0}
    /\ MaxRestarts \in Nat
    /\ StoreCanFail \in BOOLEAN

VARIABLES
    \* --- in the database, surviving a restart
    status,          \* status[j]: the row's status; "none" before INSERT, "deleted" after DELETE
    attempts,        \* attempts[j]: the row's attempts
    paused,          \* the encoding_paused setting
    \* --- in the process
    encoding,        \* w.encoding: job id -> the activeEncode of a runner
    requeueOnCancel, \* w.requeueOnCancel
    tick,            \* where the tick goroutine is
    slots,           \* runEncodes: maxParallel - len(w.encoding)
    batch,           \* runEncodes: the listed rows not yet looked at
    spent,           \* the rows of batch that were listed with no attempt left
    phase,           \* phase[g]: where the encode goroutine g is
    runJob,          \* runJob[g]: the row g was started for
    cancelledBy,     \* cancelledBy[g]: who has called g's cancel function
    pausing,         \* a SetPaused(true) has written the setting, not yet taken w.mu
    \* --- history
    restarts,        \* how often the process was restarted
    overlapped       \* since the restart, a run was started while an older
                     \* goroutine of the same job was still alive

rowVars   == <<status, attempts>>
pauseVars == <<paused, pausing>>
tickVars  == <<tick, slots, batch, spent>>
mapVars   == <<encoding, requeueOnCancel>>
startVars == <<runJob, overlapped>>
runVars   == <<mapVars, startVars, phase, cancelledBy>>
vars == <<rowVars, pauseVars, tickVars, runVars, restarts>>

-----------------------------------------------------------------------------
Waiting   == {"waiting_for_seed", "waiting_for_hardlink"}
Terminal  == {"done", "failed", "skipped"}
RowStatus == Waiting \cup {"ready", "encoding"} \cup Terminal
NoRow     == {"none", "deleted"}

TickPhase == {"sleep", "gates", "slots", "list", "claim", "giveUp", "start"}
RunPhase  == {"idle", "prepare", "encode", "settle", "requeue", "fail", "done", "refresh", "cleanup"}

\* The phases in which a runner still owes its row an outcome.
Unsettled == {"prepare", "encode", "settle", "requeue", "fail", "done"}

\* The row exists.
Exists(j) == status[j] \in RowStatus

\* Mutant: the outcome never reaches the row.
MarkJobLost(j, s) == UNCHANGED status

\* UPDATE jobs SET status = s WHERE id = j, without a condition on the status,
\* as MarkJobDone, MarkJobSkipped and MarkJobFailed do.  The callers drop the
\* error of a statement that fails.
MarkJob(j, s) ==
    \/ status' = IF Exists(j) THEN [status EXCEPT ![j] = s] ELSE status
    \/ StoreCanFail /\ UNCHANGED status

\* len(w.encoding)
Entries == {j \in Job : encoding[j] # NoRunner}

Alive == {g \in Runner : phase[g] # "idle"}

Init ==
    /\ status = [j \in Job |-> "none"]
    /\ attempts = [j \in Job |-> 0]
    /\ paused = FALSE
    /\ encoding = [j \in Job |-> NoRunner]
    /\ requeueOnCancel = {}
    /\ tick = "sleep"
    /\ slots = 0
    /\ batch = {}
    /\ spent = {}
    /\ phase = [g \in Runner |-> "idle"]
    /\ runJob = [g \in Runner |-> NoJob]
    /\ cancelledBy = [g \in Runner |-> {}]
    /\ pausing = FALSE
    /\ restarts = 0
    /\ overlapped = FALSE

-----------------------------------------------------------------------------
(* The tick goroutine *)

\* The interval of Run has elapsed: tick() starts with checkSeeding.
TickStarts ==
    /\ tick = "sleep"
    /\ tick' = "gates"
    /\ UNCHANGED <<rowVars, pauseVars, slots, batch, spent, runVars, restarts>>

\* transition(), called by checkSeeding and by checkHardlinks: a gate releases
\* a row if it still waits behind that gate.  Which rows they find open is up
\* to qBittorrent and the file system.
Release(j) ==
    /\ tick = "gates"
    /\ status[j] \in Waiting
    /\ status' = [status EXCEPT ![j] = "ready"]
    /\ UNCHANGED <<attempts, pauseVars, tickVars, runVars, restarts>>

\* The gates are done and runEncodes returns early: encoding is paused or the
\* window is closed.
SkipEncodes ==
    /\ tick = "gates"
    /\ tick' = "sleep"
    /\ UNCHANGED <<rowVars, pauseVars, slots, batch, spent, runVars, restarts>>

\* Mutant: runEncodes does not look at the switch.
SwitchIgnored == TRUE

\* cfg.EncodingPaused is false: when the settings cannot be read
\* LoadAppSettings returns its defaults, which are not paused.
SwitchIsOn == ~paused \/ StoreCanFail

\* The gates are done and runEncodes goes on: not paused, inside the window.
PassPauseCheck ==
    /\ tick = "gates"
    /\ SwitchIsOn
    /\ tick' = "slots"
    /\ UNCHANGED <<rowVars, pauseVars, slots, batch, spent, runVars, restarts>>

\* Mutant: the entries of the map are not counted.
AllSlots == MaxParallel

\* max(maxParallel - len(w.encoding), 0)
FreeSlots == IF Cardinality(Entries) >= MaxParallel THEN 0 ELSE MaxParallel - Cardinality(Entries)

\* slots is computed under w.mu; with none free runEncodes returns.
TakeSlots ==
    /\ tick = "slots"
    /\ slots' = FreeSlots
    /\ tick' = IF FreeSlots = 0 THEN "sleep" ELSE "list"
    /\ UNCHANGED <<rowVars, pauseVars, batch, spent, runVars, restarts>>

\* JobsByStatus(ready, slots): the ready rows with the lowest ids.
ListReady ==
    LET ready == {j \in Job : status[j] = "ready"}
        rows  == {j \in ready : Cardinality({k \in ready : k < j}) < slots}
    IN  /\ tick = "list"
        /\ \/ /\ batch' = rows
              /\ spent' = {j \in rows : attempts[j] >= MaxJobAttempts}
              /\ tick' = IF rows = {} THEN "sleep" ELSE "claim"
           \/ /\ StoreCanFail
              /\ tick' = "sleep"
              /\ UNCHANGED <<batch, spent>>
        /\ slots' = 0
        /\ UNCHANGED <<rowVars, pauseVars, runVars, restarts>>

\* The loop of runEncodes is at the row with the lowest id left.
AtRow(j) == j \in batch /\ \A k \in batch : j <= k

\* The loop moves on from j.
NextRow(j) ==
    /\ batch' = batch \ {j}
    /\ spent' = spent \ {j}
    /\ tick' = IF batch = {j} THEN "sleep" ELSE "claim"

\* Mutant: the claim forgets the cap on attempts.
ClaimableUncapped(j) == status[j] = "ready"

\* The WHERE clause of MarkJobEncoding.
Claimable(j) == status[j] = "ready" /\ attempts[j] < MaxJobAttempts

\* MarkJobEncoding affected one row: the claim.
ClaimRow(j) ==
    /\ tick = "claim" /\ AtRow(j)
    /\ Claimable(j)
    /\ status' = [status EXCEPT ![j] = "encoding"]
    /\ attempts' = [attempts EXCEPT ![j] = @ + 1]
    /\ tick' = "start"
    /\ UNCHANGED <<pauseVars, slots, batch, spent, runVars, restarts>>

\* It affected none (the row has changed since it was listed, or has no
\* attempt left), or it failed.
PassOverRow(j) ==
    /\ tick = "claim" /\ AtRow(j)
    /\ \/ StoreCanFail /\ NextRow(j)
       \/ /\ ~Claimable(j)
          /\ IF j \in spent
             THEN tick' = "giveUp" /\ UNCHANGED <<batch, spent>>
             ELSE NextRow(j)
    /\ UNCHANGED <<rowVars, pauseVars, slots, runVars, restarts>>

\* MarkJobFailed("gave up after n attempts").
GiveUp(j) ==
    /\ tick = "giveUp" /\ AtRow(j)
    /\ MarkJob(j, "failed")
    /\ NextRow(j)
    /\ UNCHANGED <<attempts, pauseVars, slots, runVars, restarts>>

\* A claimed row whose path is a temp file is failed instead of encoded.
RefuseTempFile(j) ==
    /\ tick = "start" /\ AtRow(j)
    /\ j \in TempFile
    /\ MarkJob(j, "failed")
    /\ NextRow(j)
    /\ UNCHANGED <<attempts, pauseVars, slots, runVars, restarts>>

\* Mutant: the run is not registered.
RegisterNot(j, g) == UNCHANGED encoding

\* w.encoding[j.ID] = ae, whatever was there.
Register(j, g) == encoding' = [encoding EXCEPT ![j] = g]

\* startEncode registers a new run and starts its goroutine.
StartEncode(j, g) ==
    /\ tick = "start" /\ AtRow(j)
    /\ j \notin TempFile
    /\ phase[g] = "idle"
    /\ Register(j, g)
    /\ phase' = [phase EXCEPT ![g] = "prepare"]
    /\ runJob' = [runJob EXCEPT ![g] = j]
    /\ overlapped' = (overlapped \/ \E h \in Alive : runJob[h] = j)
    /\ NextRow(j)
    /\ UNCHANGED <<rowVars, pauseVars, slots, requeueOnCancel, cancelledBy, restarts>>

-----------------------------------------------------------------------------
(* An encode goroutine g *)

\* Mutants: an entry, or a mark, is left behind.
EntryStays(j) == UNCHANGED encoding
MarkStays(j) == UNCHANGED requeueOnCancel

\* delete(w.encoding, j) and delete(w.requeueOnCancel, j), whoever's they are.
DropEntry(j) == encoding' = [encoding EXCEPT ![j] = NoRunner]
DropMark(j) == requeueOnCancel' = requeueOnCancel \ {j}

\* g moves from phase p to phase q.
Goes(g, p, q) == phase[g] = p /\ phase' = [phase EXCEPT ![g] = q]

\* encodeOne before the encode: no profile, profile gone, no disk space, or
\* the source is filtered out.
RejectJob(g) ==
    /\ Goes(g, "prepare", "cleanup")
    /\ \E s \in {"failed", "skipped"} : MarkJob(runJob[g], s)
    /\ UNCHANGED <<attempts, pauseVars, tickVars, mapVars, startVars, cancelledBy, restarts>>

\* The encode is started under encCtx: a context that is already cancelled
\* fails it at once.
BeginEncode(g) ==
    /\ IF cancelledBy[g] = {} THEN Goes(g, "prepare", "encode") ELSE Goes(g, "prepare", "settle")
    /\ UNCHANGED <<rowVars, pauseVars, tickVars, mapVars, startVars, cancelledBy, restarts>>

\* The encode, its commit or one of its retries failed or was cancelled.
EncodeFails(g) ==
    /\ Goes(g, "encode", "settle")
    /\ UNCHANGED <<rowVars, pauseVars, tickVars, mapVars, startVars, cancelledBy, restarts>>

\* The size guard kept the original.
KeepOriginal(g) ==
    /\ Goes(g, "encode", "cleanup")
    /\ MarkJob(runJob[g], "skipped")
    /\ UNCHANGED <<attempts, pauseVars, tickVars, mapVars, startVars, cancelledBy, restarts>>

\* The new file is in place, even if a cancel arrived meanwhile.
EncodeCommits(g) ==
    /\ Goes(g, "encode", "done")
    /\ UNCHANGED <<rowVars, pauseVars, tickVars, mapVars, startVars, cancelledBy, restarts>>

\* The error path takes the requeue mark under w.mu and decides.
SettleError(g) ==
    /\ IF runJob[g] \in requeueOnCancel /\ cancelledBy[g] # {}
       THEN Goes(g, "settle", "requeue")
       ELSE Goes(g, "settle", "fail")
    /\ DropMark(runJob[g])
    /\ UNCHANGED <<rowVars, pauseVars, tickVars, encoding, startVars, cancelledBy, restarts>>

\* Mutant: the pause counts as an attempt.
Charged(n) == n

\* MAX(attempts - 1, 0)
Refund(n) == IF n = 0 THEN 0 ELSE n - 1

\* RequeueEncoding: encoding -> ready, the attempt is refunded.
RequeueEncoding(g) ==
    LET j == runJob[g] IN
    /\ Goes(g, "requeue", "cleanup")
    /\ \/ /\ status[j] = "encoding"
          /\ status' = [status EXCEPT ![j] = "ready"]
          /\ attempts' = [attempts EXCEPT ![j] = Refund(@)]
       \/ /\ status[j] # "encoding" \/ StoreCanFail
          /\ UNCHANGED rowVars
    /\ UNCHANGED <<pauseVars, tickVars, mapVars, startVars, cancelledBy, restarts>>

\* MarkJobFailed at the end of the error path.
MarkFailed(g) ==
    /\ Goes(g, "fail", "cleanup")
    /\ MarkJob(runJob[g], "failed")
    /\ UNCHANGED <<attempts, pauseVars, tickVars, mapVars, startVars, cancelledBy, restarts>>

\* MarkJobDone; an error returns without the *arr refresh.
MarkDone(g) ==
    LET j == runJob[g] IN
    /\ \/ /\ Goes(g, "done", "refresh")
          /\ status' = IF Exists(j) THEN [status EXCEPT ![j] = "done"] ELSE status
       \/ /\ StoreCanFail
          /\ Goes(g, "done", "cleanup")
          /\ UNCHANGED status
    /\ UNCHANGED <<attempts, pauseVars, tickVars, mapVars, startVars, cancelledBy, restarts>>

\* refreshArr returns: an HTTP call with a timeout of 15 s is behind it.
RefreshArr(g) ==
    /\ Goes(g, "refresh", "cleanup")
    /\ UNCHANGED <<rowVars, pauseVars, tickVars, mapVars, startVars, cancelledBy, restarts>>

\* The deferred function: both maps lose the key of g's job, whoever's entry it is.
Cleanup(g) ==
    LET j == runJob[g] IN
    /\ Goes(g, "cleanup", "idle")
    /\ DropEntry(j)
    /\ DropMark(j)
    /\ runJob' = [runJob EXCEPT ![g] = NoJob]
    /\ cancelledBy' = [cancelledBy EXCEPT ![g] = {}]
    /\ UNCHANGED <<rowVars, pauseVars, tickVars, overlapped, restarts>>

-----------------------------------------------------------------------------
(* HTTP handlers and the reconciler's INSERT *)

\* reconcileParent inserts a row behind the torrent or the hardlink gate.
\* (Rows of temp files date from before it refused such paths.)
InsertJob(j) ==
    /\ status[j] = "none"
    /\ \E s \in Waiting : status' = [status EXCEPT ![j] = s]
    /\ UNCHANGED <<attempts, pauseVars, tickVars, runVars, restarts>>

\* SetPaused(true), first half: the setting is written.
WritePause ==
    /\ ~pausing
    /\ paused' = TRUE
    /\ pausing' = TRUE
    /\ UNCHANGED <<rowVars, tickVars, runVars, restarts>>

\* Mutant: the pause cancels without marking for requeue.
NoMarks == requeueOnCancel

\* w.requeueOnCancel[id] = struct{}{} for every entry.
Marked == requeueOnCancel \cup Entries

\* Second half, under w.mu: every entry is marked for requeue and cancelled.
CancelForPause ==
    LET hit == {encoding[j] : j \in Entries} IN
    /\ pausing
    /\ pausing' = FALSE
    /\ requeueOnCancel' = Marked
    /\ cancelledBy' = [g \in Runner |-> IF g \in hit THEN cancelledBy[g] \cup {"pause"} ELSE cancelledBy[g]]
    /\ UNCHANGED <<rowVars, paused, tickVars, encoding, startVars, phase, restarts>>

\* putSettings stores encoding_paused = "true" without going through the
\* worker: nothing is cancelled.
PutPaused ==
    /\ ~paused
    /\ paused' = TRUE
    /\ UNCHANGED <<rowVars, tickVars, runVars, pausing, restarts>>

\* SetPaused(false), or putSettings with encoding_paused = "false".
Resume ==
    /\ paused
    /\ paused' = FALSE
    /\ UNCHANGED <<rowVars, tickVars, runVars, pausing, restarts>>

\* cancelJob saw the row encoding, some time ago; CancelEncoding finds an entry.
CancelEncoding(j) ==
    /\ encoding[j] # NoRunner
    /\ cancelledBy' = [cancelledBy EXCEPT ![encoding[j]] = @ \cup {"user"}]
    /\ UNCHANGED <<rowVars, pauseVars, tickVars, mapVars, startVars, phase, restarts>>

\* UPDATE ... SET status = 'waiting_for_seed', attempts = 0 for the rows S.
RetryRows(S) ==
    /\ S # {}
    /\ status' = [j \in Job |-> IF j \in S THEN "waiting_for_seed" ELSE status[j]]
    /\ attempts' = [j \in Job |-> IF j \in S THEN 0 ELSE attempts[j]]
    /\ UNCHANGED <<pauseVars, tickVars, runVars, restarts>>

\* Mutant: the retry also takes rows that are encoding.
ClaimedToo == Terminal \cup {"encoding"}

\* The statuses RetryJob and RetryJobsByIDs take.
Retryable == Terminal

\* RetryJob and RetryJobsByIDs touch finished rows only.
RetryJobsByIDs(ids) == RetryRows({j \in ids : status[j] \in Retryable})

\* RetryAllFailed.
RetryAllFailed == RetryRows({j \in Job : status[j] = "failed"})

\* DELETE FROM jobs for the rows S.
DeleteRows(S) ==
    /\ S # {}
    /\ status' = [j \in Job |-> IF j \in S THEN "deleted" ELSE status[j]]
    /\ attempts' = [j \in Job |-> IF j \in S THEN 0 ELSE attempts[j]]
    /\ UNCHANGED <<pauseVars, tickVars, runVars, restarts>>

\* DeleteJob: one finished row.
DeleteJob(j) == DeleteRows({j} \cap {k \in Job : status[k] \in Terminal})

\* Mutant: the statuses asked for are not checked.
AnyStatus == RowStatus

\* The statuses isTerminalDeletable lets through.
Deletable == RowStatus \ {"encoding"}

\* DeleteTerminalJobs: every row in one of the statuses asked for, of which
\* isTerminalDeletable drops "encoding".
DeleteTerminalJobs(statuses) ==
    DeleteRows({j \in Job : status[j] \in statuses \cap Deletable})

\* Mutant: the bulk delete does not spare encoding rows.
DeleteAnyByIDs(ids) == DeleteRows({j \in ids : Exists(j)})

\* DeleteJobsByIDs: any row that is not encoding.
DeleteJobsByIDs(ids) == DeleteRows({j \in ids : Exists(j) /\ status[j] # "encoding"})

-----------------------------------------------------------------------------
(* The process *)

\* Mutant: the start-up leaves encoding rows alone.
Unrecovered == status

\* RecoverOrphanEncoding: UPDATE ... SET status = 'ready' WHERE status = 'encoding'.
Recovered == [j \in Job |-> IF status[j] = "encoding" THEN "ready" ELSE status[j]]

\* The process dies and is started again: runServer calls
\* recoverOrphanEncodes before the worker and the API exist.
Restart ==
    /\ restarts < MaxRestarts
    /\ restarts' = restarts + 1
    /\ \/ status' = Recovered
       \/ StoreCanFail /\ UNCHANGED status
    /\ encoding' = [j \in Job |-> NoRunner]
    /\ requeueOnCancel' = {}
    /\ tick' = "sleep" /\ slots' = 0 /\ batch' = {} /\ spent' = {}
    /\ phase' = [g \in Runner |-> "idle"]
    /\ runJob' = [g \in Runner |-> NoJob]
    /\ cancelledBy' = [g \in Runner |-> {}]
    /\ pausing' = FALSE
    /\ overlapped' = FALSE
    /\ UNCHANGED <<attempts, paused>>

Tick ==
    \/ TickStarts \/ SkipEncodes \/ PassPauseCheck \/ TakeSlots \/ ListReady
    \/ \E j \in Job :
          \/ Release(j) \/ ClaimRow(j) \/ PassOverRow(j) \/ GiveUp(j) \/ RefuseTempFile(j)
          \/ \E g \in Runner : StartEncode(j, g)

Run(g) ==
    \/ RejectJob(g) \/ BeginEncode(g) \/ EncodeFails(g) \/ KeepOriginal(g) \/ EncodeCommits(g)
    \/ SettleError(g) \/ RequeueEncoding(g) \/ MarkFailed(g) \/ MarkDone(g) \/ RefreshArr(g)
    \/ Cleanup(g)

\* The status filters the page sends: one status, or none for the default three.
StatusQuery == {{s} : s \in RowStatus} \cup {Terminal}

Handler ==
    \/ \E j \in Job : InsertJob(j) \/ CancelEncoding(j) \/ DeleteJob(j)
    \/ WritePause \/ CancelForPause \/ PutPaused \/ Resume
    \/ RetryAllFailed
    \/ \E ids \in SUBSET Job : RetryJobsByIDs(ids) \/ DeleteJobsByIDs(ids)
    \/ \E statuses \in StatusQuery : DeleteTerminalJobs(statuses)

Next == Tick \/ (\E g \in Runner : Run(g)) \/ Handler \/ Restart

Spec == Init /\ [][Next]_vars

\* Scheduling.  The Go scheduler runs every goroutine that can move; an encode
\* ends (HandBrake or the agent exits); the encoding window is open again and
\* again when the worker looks.  Nothing is assumed of users, gates or crashes.
TickMoves ==
    \/ TickStarts \/ SkipEncodes \/ PassPauseCheck \/ TakeSlots \/ ListReady
    \/ \E j \in Job :
          \/ ClaimRow(j) \/ PassOverRow(j) \/ GiveUp(j) \/ RefuseTempFile(j)
          \/ \E g \in Runner : StartEncode(j, g)

Fairness ==
    /\ WF_vars(TickMoves)
    /\ SF_vars(PassPauseCheck)
    /\ \A g \in Runner : WF_vars(Run(g))
    /\ WF_vars(CancelForPause)

FairSpec == Spec /\ Fairness

-----------------------------------------------------------------------------
(* Properties *)

\* The type invariant.
TypeOK ==
    /\ status \in [Job -> RowStatus \cup NoRow]
    /\ attempts \in [Job -> 0 .. MaxJobAttempts]
    /\ paused \in BOOLEAN
    /\ encoding \in [Job -> Runner \cup {NoRunner}]
    /\ requeueOnCancel \subseteq Job
    /\ tick \in TickPhase
    /\ slots \in 0 .. MaxParallel
    /\ batch \subseteq Job
    /\ spent \subseteq batch
    /\ phase \in [Runner -> RunPhase]
    /\ runJob \in [Runner -> Job \cup {NoJob}]
    /\ \A g \in Alive : runJob[g] \in Job
    /\ cancelledBy \in [Runner -> SUBSET {"user", "pause"}]
    /\ pausing \in BOOLEAN
    /\ restarts \in 0 .. MaxRestarts
    /\ overlapped \in BOOLEAN

\* A run that still owes its row an outcome finds the row as it claimed it:
\* no retry, delete, gate or other run moves an encoding row under it, so the
\* unconditional UPDATEs of MarkJobDone, MarkJobSkipped and MarkJobFailed
\* never overwrite a row that has gone on to something else.
RunHoldsRow == \A g \in Runner : phase[g] \in Unsettled => status[runJob[g]] = "encoding"

\* A row has at most one run between its start and its outcome, so no two runs
\* decide on one row.  Rows that share a path are the subject of MediaFile.
OneRunPerJob ==
    \A g, h \in Runner :
        (phase[g] \in Unsettled /\ phase[h] \in Unsettled /\ runJob[g] = runJob[h]) => g = h

\* As long as no statement fails, an encoding row is the one the tick is
\* about to start or has a run that will give it an outcome: no row is left
\* in "encoding", where neither retry nor delete can reach it.
EncodingRowOwned ==
    StoreCanFail \/ \A j \in Job : status[j] = "encoding" =>
        \/ tick = "start" /\ AtRow(j)
        \/ \E g \in Runner : phase[g] \in Unsettled /\ runJob[g] = j

\* Every requeue mark belongs to a job that is in w.encoding: a mark that
\* outlived its run would turn a user's cancel of a later run into a requeue.
MarksHaveEntries == requeueOnCancel \subseteq Entries

\* A row that waits for its turn has been charged at most one attempt per
\* restart: a pause refunds its attempt, a retry resets the counter, and no
\* failure comes back to the queue by itself.  The documentation counts failures
\* as attempts: see FailuresAreRetried below.
AttemptsCountRestarts ==
    \A j \in Job : status[j] \in Waiting \cup {"ready"} => attempts[j] <= restarts

\* The runs that are encoding or about to.
Encoding == {g \in Runner : phase[g] \in {"prepare", "encode"}}

\* Unless a job was started over an older goroutine of its own, every run is
\* in w.encoding under its job, where cancel and pause find it.
RunsAreRegistered ==
    overlapped \/ \A g \in Alive : encoding[runJob[g]] = g

\* With one slot, the default, it never happens: while an older goroutine
\* lives its entry takes the slot.
SerialNeverOverlaps == MaxParallel = 1 => ~overlapped

\* Unless that happened, at most MaxParallel encodes run at a time.
ParallelBoundKept ==
    overlapped \/ Cardinality(Encoding) <= MaxParallel

\* Unless that happened, the error path tells a pause from a user's cancel:
\* it requeues exactly the runs a pause had cancelled by then.
PauseIsRequeued ==
    [][ \A g \in Runner : (phase[g] = "settle" /\ phase'[g] \in {"requeue", "fail"} /\ ~overlapped) =>
            (phase'[g] = "requeue" <=> "pause" \in cancelledBy[g]) ]_vars

\* Every write of the worker, the handlers and the recovery is one of the
\* moves the jobs table promises.
Lifecycle == INSTANCE JobLifecycle WITH status <- status, attempts <- attempts
ImplementsLifecycle == Lifecycle!Spec

\* --- what must happen in the end, under Fairness

\* A claimed row gets its outcome.
EncodingEnds == \A j \in Job : status[j] = "encoding" ~> status[j] # "encoding"

\* Once encoding stays paused, the encodes stop, also the one that slipped in
\* between the tick's look at the switch and its start.
PauseDrains == <>[]paused => <>[](Encoding = {})

\* A ready row is taken, given up or deleted, unless encoding is paused or
\* users keep sending other rows back into the queue.
ReadyIsServed ==
    (<>[][~ \E ids \in SUBSET Job : RetryJobsByIDs(ids)]_vars) =>
        \A j \in Job : status[j] = "ready" ~> (status[j] # "ready" \/ paused)

\* --- what the documentation and the tests say and the code does not do

\* web/src/components/WorkerPanel.vue: once the switch is off "no new encodes
\* will start until you turn it back on".
PausedStartsNothing ==
    [][ \A g \in Runner : (phase[g] = "idle" /\ phase'[g] = "prepare") => ~paused \/ pausing ]_vars

\* docs/remote-agent.md: when a transfer fails "Recodarr's job goes `failed`,
\* retried up to 5 times"; README.md: "like any other job".  A run that ends in an
\* error with attempts left has its row in the queue again, unless a user deletes it.
FailuresAreRetried ==
    \A g \in Runner, j \in Job :
        (phase[g] = "fail" /\ runJob[g] = j /\ cancelledBy[g] = {} /\ attempts[j] < MaxJobAttempts)
            ~> (status[j] \in Waiting \cup {"ready"} \/ ~Exists(j))

\* internal/metrics/metrics.go: the length of w.encoding is reported as the
\* "Number of encodes currently running".
EncodesAreCounted == Cardinality(Encoding) <= Cardinality(Entries)

=============================================================================
