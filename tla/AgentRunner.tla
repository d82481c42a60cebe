---------------------------- MODULE AgentRunner ----------------------------
(***************************************************************************)
(* The agent process: the job store and its manifests (internal/agent/     *)
(* store.go), the runner and its subscriptions (runner.go), and the HTTP   *)
(* handlers that act on them (server.go).                                  *)
(*                                                                         *)
(* The actors are the runner's loop, one goroutine per claimed job, and    *)
(* the handlers of requests; AgentSession says which requests the client   *)
(* of Recodarr sends.  Every critical section of Store.mu or Runner.mu and *)
(* every file operation outside of them is a step.  A job is the id the    *)
(* store hands out; ids are taken in ascending order, so the oldest job is *)
(* the one with the lowest id.                                             *)
(*                                                                         *)
(* Not told apart: progress payloads, logs, the bytes of a file.           *)
(***************************************************************************)
EXTENDS Naturals, FiniteSets

CONSTANTS
    Job,          \* the ids of the jobs created
    MaxParallel,  \* RECODARR_AGENT_MAX_PARALLEL
    MaxRestarts,  \* bound: how often the agent is killed and started again
    WriteCanFail  \* TRUE: a manifest may fail to be written, a directory to be removed (disk full, ...)

ASSUME AgentJobAssumption == Job \subseteq Nat /\ IsFiniteSet(Job)
ASSUME AgentBoundAssumption ==
    MaxParallel \in Nat \ {0} /\ MaxRestarts \in Nat /\ WriteCanFail \in BOOLEAN

VARIABLES
    \* --- files
    disk,        \* disk[j]: the state in j's manifest; "none": no directory, "empty": one without a manifest
    localSource, \* the jobs encoded in place: their source is read from, their output written to the share
    output,      \* output[j]: the encoded file, in the directory or on the share: not written yet, there,
                 \* removed with the directory, or taken off the share by Recodarr
    \* --- the process
    mem,         \* mem[j]: the state of j in Store.jobs, "none" if j is not there
    creating,    \* creating[j]: how far Store.Create has come
    uploading,   \* the jobs whose source is being received
    deleting,    \* deleting[j]: how far the deletion of j has come
    free,        \* tick: how many more jobs it may claim
    goroutine,   \* goroutine[j]: where the encode goroutine of j is
    outcome,     \* outcome[j]: what that goroutine is going to record
    active,      \* the keys of Runner.active
    cancelled,   \* the jobs whose context is cancelled
    stream,      \* stream[j]: where the handler of GET /events is; a terminal state once it has sent that
    channel,     \* channel[j]: the subscription's channel: the events left in it that end the stream
    agentRestarts

fileVars   == <<disk, output, localSource>>
handlerVars == <<creating, uploading, deleting>>
runnerVars == <<goroutine, outcome, active, cancelled>>
streamVars == <<stream, channel>>
agentVars  == <<fileVars, mem, handlerVars, free, runnerVars, streamVars, agentRestarts>>

-----------------------------------------------------------------------------
JobTerminal == {"done", "failed", "cancelled"}
JobState    == {"awaiting_source", "queued", "encoding"} \cup JobTerminal

Goroutine == {"none", "spawned", "found", "registered", "running", "finish", "publish", "close", "exit"}

\* A claimed job's goroutine has not yet recorded its outcome.
Encoding(j) == goroutine[j] \in {"spawned", "found", "registered", "running", "finish"}

InitialState(j) == IF j \in localSource THEN "queued" ELSE "awaiting_source"

AgentInit ==
    /\ disk = [j \in Job |-> "none"]
    /\ localSource = {}
    /\ output = [j \in Job |-> "none"]
    /\ mem = [j \in Job |-> "none"]
    /\ creating = [j \in Job |-> "new"]
    /\ uploading = {}
    /\ deleting = [j \in Job |-> "no"]
    /\ free = 0
    /\ goroutine = [j \in Job |-> "none"]
    /\ outcome = [j \in Job |-> "none"]
    /\ active = {}
    /\ cancelled = {}
    /\ stream = [j \in Job |-> "none"]
    /\ channel = [j \in Job |-> {}]
    /\ agentRestarts = 0

-----------------------------------------------------------------------------
(* Store: Create, Update, Delete *)

\* writeManifest writes a new file and renames it over the old one, or fails
\* and leaves the old one.
WriteManifest(j, s) ==
    \/ disk' = [disk EXCEPT ![j] = s]
    \/ WriteCanFail /\ UNCHANGED disk

\* Mutant: Update does not look whether the job still exists.
UpdateBlindly(j, s) ==
    /\ mem' = [mem EXCEPT ![j] = s]
    /\ WriteManifest(j, s)

\* Store.Update with a function that sets the state: memory first, then the
\* manifest; a job that is gone is left alone.
Update(j, s) ==
    IF mem[j] = "none"
    THEN UNCHANGED <<mem, disk>>
    ELSE /\ mem' = [mem EXCEPT ![j] = s]
         /\ WriteManifest(j, s)

\* createJob: canEncodeInPlace finds the source on the share or not, and the
\* job directory is made.
MakeJobDir(j) ==
    /\ creating[j] = "new"
    /\ \A k \in Job : k < j => creating[k] # "new"
    /\ creating' = [creating EXCEPT ![j] = "dir"]
    /\ localSource' \in {localSource, localSource \cup {j}}
    /\ disk' = [disk EXCEPT ![j] = "empty"]
    /\ UNCHANGED <<output, mem, uploading, deleting, free, runnerVars, streamVars, agentRestarts>>

\* The first manifest is written; if it cannot be, the directory is removed
\* and the request fails.
WriteFirstManifest(j) ==
    /\ creating[j] = "dir"
    /\ \/ /\ disk' = [disk EXCEPT ![j] = InitialState(j)]
          /\ creating' = [creating EXCEPT ![j] = "written"]
       \/ /\ WriteCanFail
          /\ disk' = [disk EXCEPT ![j] = "none"]
          /\ creating' = [creating EXCEPT ![j] = "refused"]
    /\ UNCHANGED <<output, localSource, mem, uploading, deleting, free, runnerVars, streamVars, agentRestarts>>

\* The job enters Store.jobs and the response is sent.
AddJob(j) ==
    /\ creating[j] = "written"
    /\ creating' = [creating EXCEPT ![j] = "created"]
    /\ mem' = [mem EXCEPT ![j] = InitialState(j)]
    /\ UNCHANGED <<fileVars, uploading, deleting, free, runnerVars, streamVars, agentRestarts>>

-----------------------------------------------------------------------------
(* uploadSource *)

\* The job is looked up and awaits its source; the body is being received.
StartUpload(j) ==
    /\ mem[j] = "awaiting_source"
    /\ j \notin uploading
    /\ uploading' = uploading \cup {j}
    /\ UNCHANGED <<fileVars, mem, creating, deleting, free, runnerVars, streamVars, agentRestarts>>

\* All bytes have arrived: the job is queued, whatever has become of it meanwhile.
EndUpload(j) ==
    /\ j \in uploading
    /\ uploading' = uploading \ {j}
    /\ Update(j, "queued")
    /\ UNCHANGED <<output, localSource, creating, deleting, free, runnerVars, streamVars, agentRestarts>>

\* The copy fails or is short: the partial source is removed, the job waits on.
BreakUpload(j) ==
    /\ j \in uploading
    /\ uploading' = uploading \ {j}
    /\ UNCHANGED <<fileVars, mem, creating, deleting, free, runnerVars, streamVars, agentRestarts>>

-----------------------------------------------------------------------------
(* The runner's loop *)

\* maxParallel - len(r.active), not positive if over-claimed
FreeSlots ==
    IF Cardinality(active) >= MaxParallel THEN 0 ELSE MaxParallel - Cardinality(active)

\* tick reads the free slots under Runner.mu.
CountSlots ==
    /\ free = 0
    /\ free' = FreeSlots
    /\ free' # 0
    /\ UNCHANGED <<fileVars, mem, handlerVars, runnerVars, streamVars, agentRestarts>>

Queued == {j \in Job : mem[j] = "queued"}

\* ClaimQueued takes the oldest queued job and go encode() starts; if the
\* manifest cannot be written the claim is undone and tick returns.
Claim(j) ==
    /\ free > 0
    /\ j \in Queued
    /\ \A k \in Queued : j <= k
    /\ \/ /\ mem' = [mem EXCEPT ![j] = "encoding"]
          /\ disk' = [disk EXCEPT ![j] = "encoding"]
          /\ goroutine' = [goroutine EXCEPT ![j] = "spawned"]
          /\ free' = free - 1
       \/ /\ WriteCanFail
          /\ free' = 0
          /\ UNCHANGED <<mem, disk, goroutine>>
    /\ UNCHANGED <<output, localSource, handlerVars, outcome, active, cancelled, streamVars, agentRestarts>>

\* Nothing is queued: tick returns.
FindNothing ==
    /\ free > 0
    /\ Queued = {}
    /\ free' = 0
    /\ UNCHANGED <<fileVars, mem, handlerVars, runnerVars, streamVars, agentRestarts>>

-----------------------------------------------------------------------------
(* encode and finish, the goroutine of job j *)

\* store.Get: a job deleted since the claim ends the goroutine.
LookUp(j) ==
    /\ goroutine[j] = "spawned"
    /\ goroutine' = [goroutine EXCEPT ![j] = IF mem[j] = "none" THEN "none" ELSE "found"]
    /\ UNCHANGED <<fileVars, mem, handlerVars, free, outcome, active, cancelled, streamVars, agentRestarts>>

\* r.active[id] = cancel: from here on the job can be cancelled.  The event
\* "encoding" is published to whoever listens.
RegisterRun(j) ==
    /\ goroutine[j] = "found"
    /\ goroutine' = [goroutine EXCEPT ![j] = "registered"]
    /\ active' = active \cup {j}
    /\ UNCHANGED <<fileVars, mem, handlerVars, free, outcome, cancelled, streamVars, agentRestarts>>

\* The log file is opened in the job directory and HandBrake starts; without
\* the directory the encode fails.
OpenLog(j) ==
    /\ goroutine[j] = "registered"
    /\ IF disk[j] = "none"
       THEN /\ goroutine' = [goroutine EXCEPT ![j] = "finish"]
            /\ outcome' = [outcome EXCEPT ![j] = "failed"]
       ELSE /\ goroutine' = [goroutine EXCEPT ![j] = "running"]
            /\ UNCHANGED outcome
    /\ UNCHANGED <<fileVars, mem, handlerVars, free, active, cancelled, streamVars, agentRestarts>>

\* An uploaded source's output can be renamed into the job directory.
CanPublish(j) == j \in localSource \/ disk[j] # "none"

\* HandBrake has succeeded: its output is published, in place for a local source.
EncodeSucceeds(j) ==
    /\ goroutine[j] = "running"
    /\ goroutine' = [goroutine EXCEPT ![j] = "finish"]
    /\ IF CanPublish(j)
       THEN /\ output' = [output EXCEPT ![j] = "there"]
            /\ outcome' = [outcome EXCEPT ![j] = "done"]
       ELSE /\ outcome' = [outcome EXCEPT ![j] = "failed"]
            /\ UNCHANGED output
    /\ UNCHANGED <<disk, localSource, mem, handlerVars, free, active, cancelled, streamVars, agentRestarts>>

\* Mutant: only a cancelled context counts as an error.
DoneUnlessCancelled(j) == IF j \in cancelled THEN "cancelled" ELSE "done"

FailureOutcome(j) == IF j \in cancelled THEN "cancelled" ELSE "failed"

\* HandBrake has failed or its context was cancelled; handbrake.Run has
\* removed what it wrote.
EncodeFails(j) ==
    /\ goroutine[j] = "running"
    /\ goroutine' = [goroutine EXCEPT ![j] = "finish"]
    /\ outcome' = [outcome EXCEPT ![j] = FailureOutcome(j)]
    /\ UNCHANGED <<fileVars, mem, handlerVars, free, active, cancelled, streamVars, agentRestarts>>

\* finish records the terminal state.
Finish(j) ==
    /\ goroutine[j] = "finish"
    /\ goroutine' = [goroutine EXCEPT ![j] = "publish"]
    /\ Update(j, outcome[j])
    /\ UNCHANGED <<output, localSource, handlerVars, free, outcome, active, cancelled, streamVars, agentRestarts>>

\* publish sends the terminal state to a subscriber, unless its channel is
\* full of progress events.
PublishOutcome(j) ==
    /\ goroutine[j] = "publish"
    /\ goroutine' = [goroutine EXCEPT ![j] = "close"]
    /\ IF stream[j] = "listening"
       THEN channel' \in {channel, [channel EXCEPT ![j] = @ \cup {outcome[j]}]}
       ELSE UNCHANGED channel
    /\ UNCHANGED <<fileVars, mem, handlerVars, free, outcome, active, cancelled, stream, agentRestarts>>

\* Mutant: the channels are left open.
LeftOpen(j) == UNCHANGED channel

CloseChannel(j) ==
    IF stream[j] = "listening"
    THEN channel' = [channel EXCEPT ![j] = @ \cup {"closed"}]
    ELSE UNCHANGED channel

\* closeSubscribers
CloseSubscribers(j) ==
    /\ goroutine[j] = "close"
    /\ goroutine' = [goroutine EXCEPT ![j] = "exit"]
    /\ CloseChannel(j)
    /\ UNCHANGED <<fileVars, mem, handlerVars, free, outcome, active, cancelled, stream, agentRestarts>>

\* Mutant: the slot is not given back.
SlotKept(j) == UNCHANGED active

FreeSlot(j) == active' = active \ {j}

\* The deferred delete(r.active, id).
EndRun(j) ==
    /\ goroutine[j] = "exit"
    /\ goroutine' = [goroutine EXCEPT ![j] = "none"]
    /\ outcome' = [outcome EXCEPT ![j] = "none"]
    /\ FreeSlot(j)
    /\ cancelled' = cancelled \ {j}
    /\ UNCHANGED <<fileVars, mem, handlerVars, free, streamVars, agentRestarts>>

-----------------------------------------------------------------------------
(* streamEvents *)

\* The job is looked up and its state sent; in a terminal one the stream ends.
OpenStream(j) ==
    /\ stream[j] = "none"
    /\ mem[j] # "none"
    /\ stream' = [stream EXCEPT ![j] = IF mem[j] \in JobTerminal THEN mem[j] ELSE "opened"]
    /\ UNCHANGED <<fileVars, mem, handlerVars, free, runnerVars, channel, agentRestarts>>

\* Only now the handler subscribes.
Subscribe(j) ==
    /\ stream[j] = "opened"
    /\ stream' = [stream EXCEPT ![j] = "listening"]
    /\ channel' = [channel EXCEPT ![j] = {}]
    /\ UNCHANGED <<fileVars, mem, handlerVars, free, runnerVars, agentRestarts>>

\* The handler takes the terminal event, or finds the channel closed.
EndStream(j) ==
    /\ stream[j] = "listening"
    /\ channel[j] # {}
    /\ stream' = [stream EXCEPT ![j] =
           IF channel[j] \cap JobTerminal # {} THEN CHOOSE s \in channel[j] \cap JobTerminal : TRUE ELSE "ended"]
    /\ channel' = [channel EXCEPT ![j] = {}]
    /\ UNCHANGED <<fileVars, mem, handlerVars, free, runnerVars, agentRestarts>>

\* The connection is gone: the handler unsubscribes.
DropStream(j) ==
    /\ stream[j] # "none"
    /\ stream' = [stream EXCEPT ![j] = "none"]
    /\ channel' = [channel EXCEPT ![j] = {}]
    /\ UNCHANGED <<fileVars, mem, handlerVars, free, runnerVars, agentRestarts>>

-----------------------------------------------------------------------------
(* deleteJob, cleanupTerminal *)

\* deleteJob looks the job up and, if it is not terminal, calls the cancel
\* function of its run if one is registered.
CancelToDelete(j) ==
    /\ deleting[j] = "no"
    /\ mem[j] # "none"
    /\ deleting' = [deleting EXCEPT ![j] = "memory"]
    /\ cancelled' = IF mem[j] \notin JobTerminal /\ j \in active THEN cancelled \cup {j} ELSE cancelled
    /\ UNCHANGED <<fileVars, mem, creating, uploading, free, goroutine, outcome, active, streamVars, agentRestarts>>

\* Mutant: only the jobs that are done expire.
ExpireDone(j) ==
    /\ deleting[j] = "no"
    /\ mem[j] = "done"
    /\ deleting' = [deleting EXCEPT ![j] = "memory"]
    /\ UNCHANGED <<fileVars, mem, creating, uploading, free, runnerVars, streamVars, agentRestarts>>

\* cleanupTerminal: an hour after its end a terminal job is deleted.
Expire(j) ==
    /\ deleting[j] = "no"
    /\ mem[j] \in JobTerminal
    /\ deleting' = [deleting EXCEPT ![j] = "memory"]
    /\ UNCHANGED <<fileVars, mem, creating, uploading, free, runnerVars, streamVars, agentRestarts>>

\* Store.Delete takes the job out of Store.jobs ...
ForgetJob(j) ==
    /\ deleting[j] = "memory"
    /\ deleting' = [deleting EXCEPT ![j] = "files"]
    /\ mem' = [mem EXCEPT ![j] = "none"]
    /\ UNCHANGED <<fileVars, creating, uploading, free, runnerVars, streamVars, agentRestarts>>

\* ... and os.RemoveAll unlinks what is in its directory, one file after the
\* other and in any order; what lies on the share stays.
OutputInDir(j) == output[j] = "there" /\ j \notin localSource

RemoveEntry(j) ==
    /\ deleting[j] = "files"
    /\ \/ /\ disk[j] \in JobState
          /\ disk' = [disk EXCEPT ![j] = "empty"]
          /\ UNCHANGED output
       \/ /\ OutputInDir(j)
          /\ output' = [output EXCEPT ![j] = "removed"]
          /\ UNCHANGED disk
    /\ UNCHANGED <<localSource, mem, handlerVars, free, runnerVars, streamVars, agentRestarts>>

\* The rest is unlinked and the directory with it, or one of them cannot be and
\* RemoveAll returns with what is left.
RemoveFiles(j) ==
    /\ deleting[j] = "files"
    /\ \/ /\ disk' = [disk EXCEPT ![j] = "none"]
          /\ output' = [output EXCEPT ![j] = IF OutputInDir(j) THEN "removed" ELSE @]
          /\ deleting' = [deleting EXCEPT ![j] = "removed"]
       \/ /\ WriteCanFail
          /\ deleting' = [deleting EXCEPT ![j] = "left"]
          /\ UNCHANGED <<disk, output>>
    /\ UNCHANGED <<localSource, mem, creating, uploading, free, runnerVars, streamVars, agentRestarts>>

-----------------------------------------------------------------------------
\* Mutants: the scan keeps the state it reads, or queues an interrupted encode again.
Rescanned(j) == IF disk[j] \in JobState THEN disk[j] ELSE "none"
ScannedQueued(j) == IF disk[j] = "encoding" THEN "queued" ELSE Rescanned(j)

\* scan: the state a manifest is loaded with.
Scanned(j) ==
    CASE disk[j] \notin JobState -> "none"
      [] disk[j] = "encoding"    -> "failed"
      [] OTHER                   -> disk[j]

\* The process is killed and started again: OpenStore scans the directories.
AgentRestart ==
    /\ agentRestarts < MaxRestarts
    /\ agentRestarts' = agentRestarts + 1
    /\ mem' = [j \in Job |-> Scanned(j)]
    /\ disk' = [j \in Job |-> IF Scanned(j) = "none" THEN disk[j] ELSE Scanned(j)]
    /\ creating' = [j \in Job |-> IF creating[j] \in {"dir", "written"} THEN "lost" ELSE creating[j]]
    /\ uploading' = {}
    /\ deleting' = [j \in Job |-> IF deleting[j] = "removed" THEN "removed" ELSE "no"]
    /\ free' = 0
    /\ goroutine' = [j \in Job |-> "none"]
    /\ outcome' = [j \in Job |-> "none"]
    /\ active' = {}
    /\ cancelled' = {}
    /\ stream' = [j \in Job |-> IF stream[j] = "none" THEN "none" ELSE "broken"]
    /\ channel' = [j \in Job |-> {}]
    /\ UNCHANGED <<output, localSource>>

RunSteps(j) ==
    \/ LookUp(j) \/ RegisterRun(j) \/ OpenLog(j) \/ EncodeSucceeds(j) \/ EncodeFails(j)
    \/ Finish(j) \/ PublishOutcome(j) \/ CloseSubscribers(j) \/ EndRun(j)

LoopSteps == CountSlots \/ FindNothing \/ \E j \in Job : Claim(j)
=============================================================================
