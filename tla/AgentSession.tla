---------------------------- MODULE AgentSession ----------------------------
(***************************************************************************)
(* The agent together with its client: Client.Encode of internal/agent/    *)
(* client.go, one call per job, over a network that may lose a request, a  *)
(* response or a connection at any point.  The context of a call may be    *)
(* cancelled at any point too (pause, cancel, shutdown of Recodarr); both  *)
(* end the call in the same way.                                           *)
(***************************************************************************)
EXTENDS AgentRunner

VARIABLE
    client      \* client[j]: where the call of Encode that j is created for has come

vars == <<agentVars, client>>

InCall == {"creating", "uploading", "sending", "opening", "watching", "polling", "fetching"}

Client == {"idle", "undoing", "closing", "succeeded", "failed"} \cup InCall

Init == AgentInit /\ client = [j \in Job |-> "idle"]

GoTo(j, here, there) ==
    /\ client[j] = here
    /\ client' = [client EXCEPT ![j] = there]

AgentUnchanged == UNCHANGED agentVars

-----------------------------------------------------------------------------
(* Encode *)

\* POST /jobs
PostJob(j) == GoTo(j, "idle", "creating") /\ MakeJobDir(j)

\* The response says whether the source has to be uploaded.
JobCreated(j) ==
    /\ creating[j] = "created"
    /\ GoTo(j, "creating", IF j \in localSource THEN "opening" ELSE "uploading")
    /\ AgentUnchanged

\* PUT /jobs/{id}/source
PutSource(j) == GoTo(j, "uploading", "sending") /\ StartUpload(j)

\* The upload has come to its end: 202, or an error when the job is gone or
\* its manifest cannot be written.
SourceAnswered(j) ==
    /\ client[j] = "sending"
    /\ EndUpload(j)
    /\ client' = [client EXCEPT ![j] = IF mem[j] # "none" /\ disk'[j] = "queued" THEN "opening" ELSE "undoing"]

SourceRefused(j) == GoTo(j, "sending", "undoing") /\ BreakUpload(j)

\* GET /jobs/{id}/events
GetEvents(j) == GoTo(j, "opening", "watching") /\ OpenStream(j)

\* The stream has ended with a terminal state, or without one: then the
\* client asks once.
StreamTold(j) ==
    /\ stream[j] \in JobTerminal
    /\ GoTo(j, "watching", IF stream[j] = "done" THEN "fetching" ELSE "undoing")
    /\ AgentUnchanged

StreamEnded(j) ==
    /\ stream[j] = "ended"
    /\ GoTo(j, "watching", "polling")
    /\ AgentUnchanged

\* Mutant: any answer counts as done.
AnyAnswer(j) == mem[j] # "none"

IsDone(j) == mem[j] = "done"

Poll(j) ==
    /\ GoTo(j, "polling", IF IsDone(j) THEN "fetching" ELSE "undoing")
    /\ AgentUnchanged

\* GET /jobs/{id}/output, or for an encode in place the path of its output
\* from GET /jobs/{id}.
FetchOutput(j) ==
    /\ GoTo(j, "fetching", IF IsDone(j) /\ (j \in localSource \/ output[j] = "there") THEN "closing" ELSE "undoing")
    /\ AgentUnchanged

\* The agent answers with an error: the job cannot be created, or is not in
\* the state the request needs; or the agent dies and the connection breaks.
Refused(j) ==
    \/ client[j] = "creating" /\ creating[j] \in {"refused", "lost"}
    \/ client[j] = "uploading" /\ mem[j] # "awaiting_source"
    \/ client[j] = "sending" /\ j \notin uploading
    \/ client[j] = "opening" /\ mem[j] = "none"
    \/ client[j] = "watching" /\ stream[j] = "broken"

\* With no job id there is nothing to clean up.
Abandoned(j) == [client EXCEPT ![j] = IF @ = "creating" THEN "failed" ELSE "undoing"]

CallFails(j) ==
    /\ Refused(j)
    /\ client' = Abandoned(j)
    /\ AgentUnchanged

\* The context of the call is cancelled, or the network fails.  The
\* connection of a stream is closed.
GiveUp(j) ==
    /\ client[j] \in InCall
    /\ client' = Abandoned(j)
    /\ IF client[j] = "watching" THEN DropStream(j) ELSE AgentUnchanged

\* DELETE /jobs/{id}, with ten seconds of its own: the request may be lost.
SendDelete(j) ==
    /\ client[j] \in {"undoing", "closing"}
    /\ client' = [client EXCEPT ![j] = IF @ = "closing" THEN "succeeded" ELSE "failed"]
    /\ CancelToDelete(j) \/ AgentUnchanged

\* The call is over, and Recodarr does with the file on the share what it wants:
\* it commits it, discards it or encodes to its name again, though a lost DELETE
\* has left the job where it is.
TakeShared(j) ==
    /\ client[j] \in {"succeeded", "failed"}
    /\ j \in localSource
    /\ output[j] = "there"
    /\ output' = [output EXCEPT ![j] = "taken"]
    /\ UNCHANGED <<disk, localSource, mem, handlerVars, free, runnerVars, streamVars, agentRestarts, client>>

-----------------------------------------------------------------------------
ClientSteps(j) ==
    \/ JobCreated(j) \/ PutSource(j) \/ SourceAnswered(j) \/ GetEvents(j) \/ StreamTold(j)
    \/ StreamEnded(j) \/ Poll(j) \/ FetchOutput(j) \/ CallFails(j) \/ SendDelete(j)

ServerSteps(j) ==
    \/ WriteFirstManifest(j) \/ AddJob(j)
    \/ Subscribe(j) \/ EndStream(j) \/ ForgetJob(j) \/ RemoveEntry(j) \/ RemoveFiles(j)

\* The end of an upload whose client has given up.
OrphanUpload(j) == client[j] # "sending" /\ (EndUpload(j) \/ BreakUpload(j))

Next ==
    \/ \E j \in Job : PostJob(j) \/ SourceRefused(j) \/ ClientSteps(j) \/ GiveUp(j) \/ TakeShared(j)
    \/ /\ \/ \E j \in Job : ServerSteps(j) \/ OrphanUpload(j) \/ Expire(j) \/ RunSteps(j)
          \/ LoopSteps
          \/ AgentRestart
       /\ UNCHANGED client

Spec == Init /\ [][Next]_vars

\* Goroutines are scheduled, HandBrake ends, the tickers tick, a handler and a
\* client go on; no one has to give up and no request has to be made.
Fairness ==
    /\ WF_vars(LoopSteps /\ UNCHANGED client)
    /\ \A j \in Job :
        /\ WF_vars(RunSteps(j) /\ UNCHANGED client)
        /\ WF_vars(ServerSteps(j) /\ UNCHANGED client)
        /\ WF_vars(Expire(j) /\ UNCHANGED client)
        /\ WF_vars(ClientSteps(j))

FairSpec == Spec /\ Fairness

-----------------------------------------------------------------------------
(* Properties *)

\* Every variable stays in its range (AgentRunner, AgentSession).
TypeOK ==
    /\ disk \in [Job -> JobState \cup {"none", "empty"}]
    /\ localSource \subseteq Job
    /\ output \in [Job -> {"none", "there", "removed", "taken"}]
    /\ mem \in [Job -> JobState \cup {"none"}]
    /\ creating \in [Job -> {"new", "dir", "written", "created", "refused", "lost"}]
    /\ uploading \subseteq Job
    /\ deleting \in [Job -> {"no", "memory", "files", "removed", "left"}]
    /\ free \in 0..MaxParallel
    /\ goroutine \in [Job -> Goroutine]
    /\ outcome \in [Job -> JobTerminal \cup {"none"}]
    /\ active \subseteq Job
    /\ cancelled \subseteq Job
    /\ stream \in [Job -> JobTerminal \cup {"none", "opened", "listening", "ended", "broken"}]
    /\ channel \in [Job -> SUBSET (JobTerminal \cup {"closed"})]
    /\ agentRestarts \in 0..MaxRestarts
    /\ client \in [Job -> Client]

\* A job in state encoding has a goroutine that will end it: neither a restart,
\* nor an upload, a deletion or a failed write leaves it without (scan, encode).
EncodingHasGoroutine == \A j \in Job : mem[j] = "encoding" => Encoding(j)

\* A deleted job stays deleted: no goroutine or handler that still works on it
\* writes its manifest again, so no restart brings it back (Update, Delete).
DeletedStaysDeleted ==
    \A j \in Job : deleting[j] = "removed" => mem[j] = "none" /\ disk[j] = "none"

\* A deletion unlinked the output of j and not its manifest, and a restart has
\* brought the job back.
HalfRemoved(j) == output[j] = "removed" /\ agentRestarts > 0

\* A job that is done has had its output published (encode, before finish
\* records the state), and has it until the job is deleted, also over a restart
\* and whatever becomes of a deletion under way.  It is without one only if it was
\* written to the share and Recodarr has taken it from there, or if the agent died
\* between two files of a deletion (Store.Delete).
DoneHasOutput ==
    \A j \in Job : mem[j] = "done" => output[j] \in {"there", "taken"} \/ HalfRemoved(j)

\* A client that has seen its job done, in the stream or by asking, finds the
\* whole output as long as the job exists and was not half removed, whatever a
\* restart has made of the job's state by then (watchUntilDone, poll).
SuccessIsEncoded ==
    \A j \in Job : client[j] = "fetching" /\ mem[j] # "none" => output[j] = "there" \/ HalfRemoved(j)

Rank(s) ==
    CASE s = "awaiting_source" -> 1
      [] s = "queued"          -> 2
      [] s = "encoding"        -> 3
      [] OTHER                 -> 4

\* While it exists a job only moves forward through awaiting_source, queued,
\* encoding and one terminal state.  Only a restart that finds a manifest behind
\* the state in memory, one that could not be written, may take it back.
StatesOnlyAdvance ==
    [][\A j \in Job : mem[j] # "none" /\ mem'[j] \notin {"none", mem[j]} =>
        \/ Rank(mem[j]) < Rank(mem'[j])
        \/ AgentRestart /\ disk[j] # mem[j]]_vars

\* Who listens while the job is being encoded is told its end, or finds the
\* channel closed, even if the channel was full (publish, closeSubscribers).
ListenerIsTold ==
    \A j \in Job : (stream[j] = "listening" /\ Encoding(j)) ~> stream[j] # "listening"

\* An ended job is cleaned up even if no client deletes it (cleanupTerminal).
EndedIsExpired == \A j \in Job : mem[j] \in JobTerminal ~> mem[j] = "none"

\* A slot that is taken comes back, whether its run ends, fails, is cancelled, is
\* of a job deleted before the run could be cancelled, or dies with the agent
\* (encode, tick): otherwise the agent would one day encode nothing any more.
SlotsComeBack == \A j \in Job : j \in active ~> j \notin active

-----------------------------------------------------------------------------
(* What the documentation says and the code does not keep *)

\* A test of streamEvents wants the terminal state: who watches a job learns
\* its end.  The handler subscribes after it has read the state.
WatchEnds == \A j \in Job : client[j] = "watching" ~> client[j] # "watching"
=============================================================================
