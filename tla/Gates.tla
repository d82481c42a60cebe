-------------------------------- MODULE Gates --------------------------------
(***************************************************************************)
(* What lets a row of the jobs table through to the encodes: checkSeeding  *)
(* and checkHardlinks (internal/job/job.go) with qBittorrent's answer      *)
(* (internal/qbit/client.go), the link count of the media file, and the    *)
(* encoding window.  In Worker the gates open at any time; here is when.   *)
(*                                                                         *)
(* A qBittorrent that fails, is not configured or refuses the login comes  *)
(* to the same: this tick releases no row that has a torrent.              *)
(***************************************************************************)
EXTENDS Naturals, FiniteSets

CONSTANTS
    Job,           \* ids of the jobs table
    Hash,          \* torrents, as qBittorrent writes their hashes: in lower case
    NoDownload,    \* the download id of a row without one
    BatchLimit,    \* SeedCheckBatchLimit
    MaxFaults      \* bound: how many statements and requests fail, and restarts happen

VARIABLES
    status,    \* status[j]: the row's status; "ended" for done, failed and skipped
    download,  \* download[j]: the row's download id, in the case the *arr writes it
    torrents,  \* what the first qBittorrent instance holds
    links,     \* links[j]: the file has one link or several, or cannot be looked at
    step,      \* where the tick goroutine is
    batch,     \* the rows listed that it has not come to
    absent,    \* history: the torrents that qBittorrent did not hold, or left out of its
               \* answer, at some time since rows were listed
    faults     \* what has failed so far

rowVars == <<status, download>>
outside == <<torrents, links>>
vars == <<rowVars, outside, step, batch, absent, faults>>

Download == [hash : Hash, upper : BOOLEAN]
Waiting == {"waiting_for_seed", "waiting_for_hardlink"}

TypeOK ==
    /\ status \in [Job -> Waiting \cup {"none", "ready", "encoding", "ended", "deleted"}]
    /\ download \in [Job -> Download \cup {NoDownload}]
    /\ torrents \subseteq Hash /\ absent \subseteq Hash
    /\ links \in [Job -> {"one", "many", "unknown"}]
    /\ step \in {"sleep", "seeding", "release", "links"}
    /\ batch \subseteq Job /\ faults \in 0..MaxFaults

Init ==
    /\ status = [j \in Job |-> "none"]
    /\ download = [j \in Job |-> NoDownload]
    /\ torrents \in SUBSET Hash
    /\ links \in [Job -> {"one", "many"}]
    /\ step = "sleep" /\ batch = {} /\ absent = {} /\ faults = 0

-----------------------------------------------------------------------------
(* inEncodingWindow *)

\* Minutes of a day.  A window that ends before it starts goes over midnight.
InWindow(now, start, end) ==
    IF start <= end THEN start <= now /\ now < end ELSE start <= now \/ now < end

-----------------------------------------------------------------------------
(* The tick *)

Works == UNCHANGED faults
Fails == faults < MaxFaults /\ faults' = faults + 1

Rows(s) == {j \in Job : status[j] = s}

\* Mutant: the newest rows are listed.
After(j) == {k \in Rows(status[j]) : k > j}

\* The rows before j in a list of rows with its status.
Before(j) == {k \in Rows(status[j]) : k < j}

\* JobsByStatus: ORDER BY id LIMIT BatchLimit.
Listed(s) == {j \in Rows(s) : Cardinality(Before(j)) < BatchLimit}

\* Mutant: the row is sent on whatever has become of it.
TransitionBlindly(j, from) == status' = [status EXCEPT ![j] = "ready"]

\* TransitionJobStatus: the row goes on if it still waits at this gate.
Transition(j, from) ==
    status' = IF status[j] = from THEN [status EXCEPT ![j] = "ready"] ELSE status

TickStarts ==
    /\ step = "sleep"
    /\ step' = "seeding"
    /\ (Works /\ batch' = Listed("waiting_for_seed")) \/ (Fails /\ batch' = {})
    /\ absent' = Hash \ torrents
    /\ UNCHANGED <<rowVars, outside>>

\* The gate is opened for the row, unless the statement fails.
Open(j, gate) ==
    /\ batch' = batch \ {j}
    /\ (Works /\ Transition(j, gate)) \/ (Fails /\ UNCHANGED status)
    /\ UNCHANGED <<download, outside, step, absent>>

\* A row that was retried may have no download id: there is nothing to wait for.
ReleaseUnknown(j) ==
    /\ step = "seeding" /\ j \in batch
    /\ download[j] = NoDownload
    /\ Open(j, "waiting_for_seed")

\* Mutant: hashes are taken as the *arr writes them.
AsWritten(d) == d

Lower(d) == [hash |-> d.hash, upper |-> FALSE]

\* The torrents asked for that qBittorrent holds, by the hash in lower case.
Held(asked) == {d \in {[hash |-> h, upper |-> FALSE] : h \in torrents} : d.hash \in {a.hash : a \in asked}}

\* TorrentsByHashes: what an answer with status 200 has in it.  Nothing tells
\* whether it is complete.
Answer(asked) == SUBSET Held(asked)

Hashes == {Lower(download[j]) : j \in batch}

\* The rows whose torrents are not in the answer remain.
AskQbit ==
    /\ step = "seeding"
    /\ \A j \in batch : download[j] # NoDownload
    /\ step' = "release"
    /\ \E answer \in Answer(Hashes) :
         /\ batch' = {j \in batch : Lower(download[j]) \notin answer}
         /\ absent' = absent \cup ({d.hash : d \in Hashes} \ {d.hash : d \in answer})
    /\ UNCHANGED <<rowVars, outside, faults>>

\* No instance, no login or no answer: no row is released.
QbitFails ==
    /\ step = "seeding"
    /\ \A j \in batch : download[j] # NoDownload
    /\ Fails
    /\ step' = "release" /\ batch' = {}
    /\ UNCHANGED <<rowVars, outside, absent>>

ReleaseRow(j) ==
    /\ step = "release" /\ j \in batch
    /\ Open(j, "waiting_for_seed")

\* checkHardlinks lists its rows.
ListLinks ==
    /\ step = "release" /\ batch = {}
    /\ step' = "links"
    /\ (Works /\ batch' = Listed("waiting_for_hardlink")) \/ (Fails /\ batch' = {})
    /\ UNCHANGED <<rowVars, outside, absent>>

\* A file that cannot be looked at is released, too.
CheckLinks(j) ==
    /\ step = "links" /\ j \in batch
    /\ IF links[j] = "many"
       THEN batch' = batch \ {j} /\ UNCHANGED <<rowVars, outside, step, absent, faults>>
       ELSE Open(j, "waiting_for_hardlink")

TickEnds ==
    /\ step = "links" /\ batch = {}
    /\ step' = "sleep" /\ absent' = {}
    /\ UNCHANGED <<rowVars, outside, batch, faults>>

Tick ==
    \/ TickStarts \/ AskQbit \/ QbitFails \/ ListLinks \/ TickEnds
    \/ \E j \in Job : ReleaseUnknown(j) \/ ReleaseRow(j) \/ CheckLinks(j)

-----------------------------------------------------------------------------
(* The rest of the program, and the outside world *)

\* The reconciler inserts a row at the seed gate if the import history of the
\* *arr has a download id for the file, else at the hardlink gate.
InsertRow(j) ==
    /\ status[j] = "none"
    /\ \E d \in Download \cup {NoDownload} :
         /\ download' = [download EXCEPT ![j] = d]
         /\ status' = [status EXCEPT ![j] =
                         IF d = NoDownload THEN "waiting_for_hardlink" ELSE "waiting_for_seed"]
    /\ UNCHANGED <<outside, step, batch, absent, faults>>

\* A ready row is claimed, in another tick.
ClaimRow(j) ==
    /\ status[j] = "ready"
    /\ status' = [status EXCEPT ![j] = "encoding"]
    /\ UNCHANGED <<download, outside, step, batch, absent, faults>>

\* A ready row that was claimed too often before is failed.
GiveUpRow(j) ==
    /\ status[j] = "ready"
    /\ status' = [status EXCEPT ![j] = "ended"]
    /\ UNCHANGED <<download, outside, step, batch, absent, faults>>

\* Its encode ends, or is handed back by a pause.
EndRow(j) ==
    /\ status[j] = "encoding"
    /\ \E s \in {"ended", "ready"} : status' = [status EXCEPT ![j] = s]
    /\ UNCHANGED <<download, outside, step, batch, absent, faults>>

\* RetryJob sends a row to the seed gate, whichever gate it came through.
RetryRow(j) ==
    /\ status[j] = "ended"
    /\ status' = [status EXCEPT ![j] = "waiting_for_seed"]
    /\ UNCHANGED <<download, outside, step, batch, absent, faults>>

DeleteRow(j) ==
    /\ status[j] \in Waiting \cup {"ready", "ended"}
    /\ status' = [status EXCEPT ![j] = "deleted"]
    /\ UNCHANGED <<download, outside, step, batch, absent, faults>>

\* The process is started again: rows that were encoding are ready, unless
\* they cannot be updated.
Restart ==
    /\ Fails
    /\ step' = "sleep" /\ batch' = {} /\ absent' = {}
    /\ \/ status' = [j \in Job |-> IF status[j] = "encoding" THEN "ready" ELSE status[j]]
       \/ UNCHANGED status
    /\ UNCHANGED <<download, outside>>

TorrentChanges ==
    /\ \E h \in Hash : torrents' \in {torrents \ {h}, torrents \cup {h}}
    /\ absent' = IF step = "sleep" THEN absent ELSE absent \cup (Hash \ torrents')
    /\ UNCHANGED <<rowVars, links, step, batch, faults>>

LinksChange(j) ==
    /\ links' \in {[links EXCEPT ![j] = n] : n \in {"one", "many", "unknown"}}
    /\ UNCHANGED <<rowVars, torrents, step, batch, absent, faults>>

Next ==
    \/ Tick \/ Restart \/ TorrentChanges
    \/ \E j \in Job :
          \/ InsertRow(j) \/ ClaimRow(j) \/ GiveUpRow(j) \/ EndRow(j)
          \/ RetryRow(j) \/ DeleteRow(j) \/ LinksChange(j)

Spec == Init /\ [][Next]_vars

\* The tick goroutine goes on.
FairSpec == Spec /\ WF_vars(Tick)

-----------------------------------------------------------------------------
(* Properties *)

\* The seed gate opens for a row that has a torrent only if, at some time since
\* the rows were listed, qBittorrent did not hold the torrent or left it out of an
\* answer with status 200, which is taken for complete.  A request or a statement
\* that fails, an answer to another tick, or a hash in another case releases no file
\* that is being seeded (checkSeeding, TorrentsByHashes).
ReleaseIsJustified ==
    [][ \A j \in Job :
          (status[j] = "waiting_for_seed" /\ status'[j] = "ready" /\ download[j] # NoDownload)
            => download[j].hash \in absent ]_vars

\* What the gates do to a row, next to the reconciler, the worker and the user
\* who may have moved or deleted it since it was listed, is one of the moves the
\* jobs table promises (checkSeeding, checkHardlinks, TransitionJobStatus).  How
\* a row has ended is not told apart here; any row may have failed.
Table == INSTANCE JobStatus WITH status <- [j \in Job |-> IF status[j] = "ended" THEN "failed" ELSE status[j]]
ImplementsStatus == Table!StatusSpec

\* Nothing holds the row back any more, and few enough rows wait before it.
Passable(j) ==
    /\ \/ status[j] = "waiting_for_seed" /\ (download[j] = NoDownload \/ download[j].hash \notin torrents)
       \/ status[j] = "waiting_for_hardlink" /\ links[j] # "many"
    /\ Cardinality({k \in Rows(status[j]) : k < j}) < BatchLimit

\* A row does not wait for ever at a gate that nothing holds shut.
GatesOpen == \A j \in Job : []<>~Passable(j)

=============================================================================
