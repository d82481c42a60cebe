# Recodarr in TLA+

Recodarr polls Sonarr and Radarr for files whose tags are mapped to a HandBrake
profile, waits until their torrents stop seeding or their hardlinks are gone,
encodes them with HandBrakeCLI (on the machine itself or on a remote agent) and
renames the result over the original. This directory models the parts of it
that carry its logic: the job queue and the worker that serves it, what an
encode does to the file, the choice of the profile, the remote agent with its
client, and the parts beside the encodes: gates, login, library pages, health
checker, progress streams and the start of the database. TLC checks the models
on small instances; TLAPS proves all of their safety properties, and of most
liveness properties everything but the fairness, for instances of any size.

Paths below are relative to the repository; `job.go` is `internal/job/job.go`,
`queries.go` is `internal/store/queries.go`, and so on.

## 1. Inventory

The program has two modes. `recodarr` runs the server: HTTP API, worker,
reconciler, health checker, all goroutines of one process over one SQLite
database. `recodarr agent` runs the agent on another machine: HTTP API, runner,
and a directory with one subdirectory per job.

| component | state it keeps | operations | talks to |
|---|---|---|---|
| job queue (`queries.go`) | rows of `jobs`: status, attempts, profile, file size, ... | insert, transition, claim, requeue, done / skipped / failed, retry, delete, recover | written by reconciler, worker, API |
| job worker (`job.go`) | `w.encoding`, `w.requeueOnCancel`, one goroutine per encode | tick: gates, claim, start; pause, resume, cancel | queue, settings, HandBrake or agent, *arr |
| reconciler (`reconcile.go`) | none between polls | list instances, read mappings, fetch libraries, insert rows | *arr, queue, marker files |
| encode of a file (`encodeOne`, `handbrake.go`, `filters.go`) | temp file, source, marker file | encode, size guard, commit, discard, write marker | file system |
| start-up recovery (`main.go`) | none | rows back to ready, temp files removed | queue, file system |
| gates (`job.go`, `qbit/client.go`) | none | checkSeeding, checkHardlinks | qBittorrent, file system |
| configuration (`admin.go`, `queries.go`) | instances, profiles, tag mappings, settings | create, update, (soft) delete | read by all others |
| library (`library.go`, `arr.go`) | cache of scans | scan, add a tag | *arr |
| remote agent (`agent/store.go`, `runner.go`, `server.go`) | `Store.jobs` and one manifest per job; `Runner.active`, subscriptions | create, upload, claim, encode, finish, stream, delete, expire, scan | its client, HandBrake |
| agent client (`agent/client.go`) | one call of `Encode` | create, upload, watch, poll, fetch, delete | agent |
| health checker (`health.go`, `notify.go`) | last snapshot | probe, compare, notify | services |
| authentication (`auth.go`, `ratelimit.go`) | admin, sessions, login attempts | set up, log in, log out, limit | database |
| progress events (`job.go`, `admin.go`) | subscriber channels | subscribe, broadcast, unsubscribe | worker, browser |
| migrations, seed | schema version | migrate once at the start | database |
| HandBrake arguments, audio, probe | none | pure functions | |
| metrics, logging, HTTP plumbing, web frontend | none | output | |

How they interact. The worker, the reconciler and the handlers share the
database and nothing else but the two maps of the worker (under `w.mu`).
SQLite serialises statements; several of them in a row are never one
transaction (the deletion of a profile is the exception), so every read that a
later write relies on may be stale. The database has no busy timeout set for
writers: a statement may return SQLITE_BUSY, and most callers log and go on.
The agent and its client share a network that may lose any request.

What is hard, and what makes each component correct:

- **Worker and queue**: the tick reads the switch, the free slots and the ready
  rows, and acts on each later; goroutines of an old and of a new run of one job
  overlap; a pause, a user's cancel, a retry and a deletion hit a run at any
  point; the process dies at any point. Correct: a row is encoded by one run at
  a time, no row is lost or stuck, the outcome of a run lands on the row it
  claimed, the limits on attempts and on parallel encodes hold, pause and cancel
  do what they say.
- **Encode of a file**: crash, failure and disk-full between HandBrake, rename,
  row and marker; the name of the temp file depends on the media path only, so
  the encodes of two rows of one path (an upgrade, two *arr instances) share it
  when there are two slots; the start after a crash puts rows back before it
  removes temp files. Correct: the media path holds a whole file as long as
  such encodes do not overlap, temp files are removed, the size guard saves what
  the profile asks for, encodes end, one import is not encoded twice.
- **Profile choice**: mappings by tag id and by tag label, copies of rows, and
  mappings, profiles and instances that change meanwhile. Correct: a deleted
  profile is not used, rows tell the truth, what is tagged is queued unless its
  path or a marker keeps it out.
- **Agent**: handlers, goroutines and clean-up act on one job at the same time;
  memory and manifest differ when a write fails; a deletion unlinks one file
  after the other; a restart goes by the manifests it finds. Correct: no job
  stuck, none back from the dead, a done job has its output unless a deletion
  died half way, watchers learn the end, slots come back.
- **Gates**: qBittorrent answers, fails or answers late, and the rows move
  meanwhile. Whatever an answer with status 200 leaves out counts as gone, since
  nothing tells that it is incomplete; no other answer may release a seeding
  torrent, and a limit on the rows looked at must not starve rows.
- **Library**: scans of different age overwrite each other and the tags written
  meanwhile. Correct: an answer from the cache is never wrong for longer than
  the cache says.
- **Health checker**: the ticker and requests probe side by side. Correct: the
  user is told of each issue once, and once when it is over.
- **Authentication**: the limiter is bounded and forgets; the account may be
  wiped and made anew while a login is under way. Correct: who is locked out
  stays so; no session outlives its account or passes to the next one.
- **Progress**: subscribers are read under the lock and used after it; browsers
  do not read. Correct: no encode waits for a browser.
- **Migrations and seed**: databases of any release, and a start that dies
  between two statements. Correct: the program never serves half a schema.

`PROJECT.json` lists these as `components`, and as `hazards` every place in the
code where something of this kind can go wrong, with the properties that would
show it.

## 2. The modules

| module | what it is |
|---|---|
| `JobStages` | abstract specification of the jobs table: no row, waiting, encoded, over |
| `JobStatus` | abstract specification: the moves of the status column; implements `JobStages` |
| `JobLifecycle` | abstract specification: the moves with the attempts they charge; implements `JobStatus` |
| `JobTableProofs` | each of the three implements the one before |
| `Worker` | tick goroutine, encode goroutines, handlers, restart; implements `JobLifecycle` |
| `WorkerProofs` | types, `RunHoldsRow`, `OneRunPerJob`, `AttemptsCountRestarts`, the refinement |
| `WorkerMapProofs` | `w.encoding` and `w.requeueOnCancel`: `MarksHaveEntries`, `RunsAreRegistered`, `PauseIsRequeued` |
| `WorkerLimitProofs` | `ParallelBoundKept`, `SerialNeverOverlaps`, `EncodingRowOwned`; what ends: runs, ticks, claimed rows |
| `MediaFile` | one media file with its temp file and marker: reconciler, as many encodes as there are slots, crash and start; implements `JobStages` |
| `ProfileChoice` | which files are queued and which profile they are encoded with; implements `JobStages` |
| `MediaFileProofs` | `MediaFile`: types, `SourceIsWhole`, `TempRemoved`, `GuardHolds`, `EncodedOnce`, `EncodeDescends`; what one slot adds; the refinement |
| `ManualProfile` | `ProfileChoice` with the jobs whose profile was set by hand |
| `ProfileProofs` | `ProfileChoice`: types, `DeletedProfileUnused`, `RowTellsProfile`; the refinement |
| `AgentRunner` | the agent: store, runner, handlers |
| `AgentSession` | the agent composed with its client over a network that loses things |
| `AgentProofs` | `AgentSession`: types, `EncodingHasGoroutine`, `DeletedStaysDeleted`, `DoneHasOutput`, `SuccessIsEncoded`, `StatesOnlyAdvance`; slots, goroutines and listeners |
| `Gates` | what opens the gates: qBittorrent, link counts, the batch limit, the encoding window; implements `JobStatus` |
| `Library` | the cache of the library pages and the tags added through them |
| `Login` | the login limiter, the admin account and the sessions |
| `Health` | the health checker and what it tells the user |
| `Progress` | broadcasts of progress and the streams of browsers |
| `Startup` | adoption of old databases, migrations, default profiles |
| `Services` | the six modules above, side by side |
| `ServicesProofs` | `Services`: all its safety properties; the encoding window, the table of waits; ticks of the gates and broadcasts end |
| `MCWorker`, `MCMediaFile`, `MCProfileChoice`, `MCServices` | constants and symmetry for TLC |

### The jobs table

Four modules move rows of `jobs`, each with the part of the table it is about:
`Worker` has the status and the attempts, `Gates` the status and the download,
`MediaFile` the status and the stored size, `ProfileChoice` the status, the
profile and the label. What they have to agree on is stated once, as a chain of
abstract specifications whose moves are the statements of `queries.go`:

    JobStages  <-  JobStatus  <-  JobLifecycle
        ^              ^               ^
    MediaFile        Gates           Worker
    ProfileChoice

`JobStages` only knows that there is no row, or that it waits, is encoded, or is
over; `JobStatus` has the seven values of the column; `JobLifecycle` adds the
attempts. Every arrow is a refinement proved for all constants (section 4). So
what one module leaves open about the table is bounded by what the others do:
the release that `Worker` may take at any time is the move of `JobStatus` that
`Gates` makes when the gates are open, and the claims, retries and deletions that
happen beside the gates are those that `Worker` makes.

### Worker

One step is one SQL statement or one critical section of `w.mu`.

| variables | code |
|---|---|
| `status`, `attempts` | the columns of `jobs`; `"none"` before the INSERT, `"deleted"` after the DELETE |
| `paused`, `pausing` | the `encoding_paused` setting; the moment between its write and the cancel in `SetPaused` |
| `encoding`, `requeueOnCancel` | the two maps of `Worker` |
| `tick`, `slots`, `batch`, `spent` | where `tick`/`runEncodes` is, its free slots, and the listed rows it has not come to |
| `phase`, `runJob`, `cancelledBy` | per encode goroutine: place in `encodeOne`, its row, who called its cancel function |
| `restarts`, `overlapped` | history |

`TickStarts` to `StartEncode` are `Run`, `tick` and `runEncodes`. What the
gates find is left open here: `Release` may open any waiting row, and `Gates`
says when it does; both are the same move of `JobStatus`. `Lifecycle == INSTANCE JobLifecycle WITH ...` is the
refinement mapping, and `ImplementsLifecycle` the refinement. `RejectJob` to
`Cleanup` are `encodeOne` and the deferred function of `startEncode`; how the
encode itself ends is left open too. `MarkJob` has no guard, as the SQL has
none: that it never hits a row that has moved on is a theorem. The handlers are
the two halves of `SetPaused(true)`, `Resume`, `PutPaused` (the settings page
stores the switch without cancelling anything), `CancelEncoding`, the three
retries and the three deletions. `Restart` is the death of the process followed
by `recoverOrphanEncodes`, which may fail. With `StoreCanFail` every statement
may return an error, and `LoadAppSettings` then returns its defaults, which are
not paused.

`overlapped` becomes true when a run is started while an older goroutine of the
same job is still alive (it has given its row an outcome and is refreshing the
*arr, the row was retried, and there is a second slot). The older goroutine's
clean-up then deletes the newer run's entry. Three properties hold only until
that happens, and say so; `SerialNeverOverlaps` shows that with one slot, the
default, it never does, and the run `WorkerHiddenEncode` that with two it does.

### MediaFile

`source`, `temp` and `marker` are the three files; a content records the import
it comes from, how many encodes it has been through, its size, and whether it is
whole. The *arr imports the file `MaxImports` times under the same path, each
time with a new item id. `PollFile` and `QueueFile` are `reconcileParent`, which
looks for the marker and for a job in two places. `Claim` to `WriteMarker` are
`encodeOne` with `handbrake.Run` and `Commit`, one action per file operation or
statement, and each goroutine of `Run` is at one of them: `encoder`, `job`,
`policy`, `savings`, `tries` and `final` are its local variables. The worker's
claim, pause and retry are not repeated here.

The rows of a path have one temp file. `at[e]` says where the file is that `e`'s
HandBrake has open: it follows the file, also when another encode renames it over
the source or unlinks it. `spoiled` are the runs whose file another HandBrake
writes too, or whose source was a part of a file when they opened it: what they
write is not whole.

`Crash` is the death of the process, and with it of every HandBrake (its
container). The start after it goes by `boot`: `RecoverRows` puts the rows
back or fails, `RemoveTemps` then removes the temp file or cannot, and only then
the program is up; it may die at either. `upsets`, `shared` and `missed` are
history: the process died or a user retried or deleted a row; an encode started
while another had use of the temp file; a temp file could not be removed, or the
start died before it.

### ProfileChoice

`mappings`, `deleted` and `enabled` are the tables; `job[i]` has the status, the
profile and the stored tag label. `StartPoll`, `ReadMappings`, `FetchLibrary`
and `QueueItem` are a poll, which takes the *first* mapping of a tag *id*;
`ListReady` to `EndRun` are the path of a row through `runEncodes` and
`encodeOne`, which takes the *last* mapping of the tag *label*, starting from a
copy of the row made before the claim (`given`). `barred` are the files that
`reconcileParent` passes over (`PassedOver`): those with a marker beside them, which
`EndRun` may write if `MarkersOn`, and those whose path is not clean and absolute
or is that of a temp file. The user changes everything else between any two steps.
`stale`, `failed`, `gone` and `revived` are history, and so is `manual` in the
module `ManualProfile`.

### AgentRunner and AgentSession

`AgentRunner` has one step per critical section of `Store.mu` or `Runner.mu` and
per file operation outside of them. `disk[j]` is the state in `j`'s manifest and
`mem[j]` the one in `Store.jobs`; they differ when a manifest cannot be written.
`output[j]` is the encode, in the job's directory or on the share: not written
yet, there, removed with the directory, or taken off the share by Recodarr
(`TakeShared`). `RemoveEntry` unlinks one file of a deleted job, in any order, and
`RemoveFiles` the rest and the directory, or it stops with what is left; a
restart between them finds what has not been unlinked.
A goroutine goes from `spawned` (claimed, not yet in `Runner.active`) to `exit`;
`stream` and `channel` are the handler of `GET /events` and its subscription.
The capacity of the channel is not counted: `publish` may find it full, and then
drops the event. `AgentRestart` is `OpenStore`'s scan.

`AgentSession` adds `client[j]`, the place of one call of `Client.Encode`. Each
request is a joint step of the client and a handler, or fails; `GiveUp` is a
cancelled context or a broken connection at any point, `SendDelete` the clean-up
request that may itself be lost.

### Gates, Library, Login, Health, Progress, Startup and Services

| module | one step is | variables and code |
|---|---|---|
| `Gates` | a statement, one answer of qBittorrent, one look at a file; what reconciler, worker and users do to rows meanwhile | `status`, `download` the columns of `jobs`; `torrents`, `links` what is outside; `step`, `batch` the place in `checkSeeding` and `checkHardlinks` |
| `Library` | a critical section of `libraryCache.mu` or one answer of the *arr | `cache`; `scan[r]` the answer a request is building, dated before it asks; `target` the item whose tag the cache is not told of yet; `tagged` and `since` are the *arr's tags and their age |
| `Login` | a critical section of `LoginLimiter.mu` or a statement | `failures`, `nextOK` the limiter's entries; `accounts`, `sessions` the tables; `phase`, `client`, `user` the place of a request in `authLogin` or `authSetup` |
| `Health` | a probe of one service, a critical section of `Checker.mu`, one notification | `last`, `fresh`, `prev` the fields of `Checker`; `ahead`, `found` a probe under way; `opened`, `resolved` what `diffAndNotify` has still to send |
| `Progress` | a critical section of `Worker.mu` or one channel operation | `subscribers`, `closed`, `queued` the channels, `copied[e]` the list a broadcast still works off |
| `Startup` | a statement, or one migration with its version | `tables`, `columns`, `versioned`, `version`, `profiles` the database, `phase` the place in `Open` |

`Services` instantiates the six. They share no variable, and the program runs
them side by side; since nothing one does depends on another, a behaviour of
`Services` exercises one (`part`) and leaves the rest at their initial states. So
one run and one proof module serve them all, with the constants' assumptions in
one place. `tagged`, `absent` and `told` tell what the properties
compare with: the tags as the *arr has them, the torrents that qBittorrent did not
hold or left out of an answer (`Answer`, any part of what it holds) at some time
since the rows were listed, and what the user believes.

## 3. What is checked

Passing runs:

| run | bounds | asks |
|---|---|---|
| `WorkerFaults` | 2 jobs (one a temp file), 2 slots, 2 goroutines, 1 attempt, 1 restart, failing statements | `TypeOK`, `RunHoldsRow`, `OneRunPerJob`, `MarksHaveEntries`, `AttemptsCountRestarts`, `RunsAreRegistered`, `PauseIsRequeued`, `ImplementsLifecycle` |
| `WorkerLive` | 2 jobs, 1 slot, 2 goroutines, 1 attempt, 1 restart, fairness | `EncodingRowOwned`, `ParallelBoundKept`, `SerialNeverOverlaps`, `EncodingEnds`, `PauseDrains`, `ReadyIsServed` |
| `FileFaults` | 2 slots, 2 imports, size 3 with 33 % and 50 %, 1 retry, failing writes and removals, markers, 1 crash (with any number of deaths in the start after it) or 1 act of a user | `SourceIsWhole`, `TempRemoved`, `EncodedOnce`, `GuardHolds`, `EncodeDescends` |
| `ProfileChoice` | 1 instance, 1 file, 1 tag, 2 profiles, 2 mappings, markers, failing calls, fairness of polls | `DeletedProfileUnused`, `RowTellsProfile`, `MappedIsQueued` |
| `AgentFaults` | 1 job, 2 restarts, failing writes and removals, lossy network, fairness | `EncodingHasGoroutine`, `DeletedStaysDeleted`, `DoneHasOutput`, `SuccessIsEncoded`, `StatesOnlyAdvance`, `ListenerIsTold`, `EndedIsExpired`, `SlotsComeBack` |
| `Services` | see below; faults, restarts, fairness | `AnswerIsRecent`, `SessionsAreOwned`, `SchemaIsComplete`, `ReleaseIsJustified`, `GatesKeepStatus`, `GatesOpen`, `LockoutIsKept`, `NoticesAlternate`, `LastingIsTold`, `BroadcastEnds` |

Runs that find a violation of what the repository says:

| run | says | does |
|---|---|---|
| `WorkerPauseRace` | "no new encodes will start until you turn it back on" (`WorkerPanel.vue`) | a tick that has read the switch before starts its encode after `SetPaused(true)` has written it and cancelled the others (`ButtonSpec` leaves the settings page out, which cancels nothing anyway); `PauseDrains` shows that it then comes to an end |
| `WorkerFailedOnce` | a failed job is "retried up to 5 times" (`docs/remote-agent.md`), "like any other job" (`README.md`) | nothing takes a row out of `failed` but a user, who also resets the attempts; only restarts use them up (`AttemptsCountRestarts`) |
| `WorkerHiddenEncode` | the gauge is the "Number of encodes currently running" (`metrics.go`) | after an overlap a run encodes without an entry in `w.encoding`: uncounted, and out of reach of pause and cancel |
| `FileShared` | "atomic rename over the original" (`docs/remote-agent.md`) | with two slots two rows of one path write one temp file, and the first to end renames over the source what the other still writes; `OneSlotCommitsAtomically` shows that with one slot, the default, it does not happen |
| `AgentLostEnd` | a watcher gets the terminal state (`server_test.go`) | `streamEvents` subscribes after it has read the state; an end in between reaches nobody, and the client has no timeout |
| `ManualProfile` | "Done jobs get the new profile too; re-queue them to actually re-encode" (`Jobs.vue`) | `encodeOne` replaces the profile by what the tag mapping gives |

Why the bounds are enough. The worker's hazards involve one row and two
goroutines for it, or two rows competing for a slot; one of the two is a temp file,
for the refusal. `Runner` bounds the goroutines alive at once: one lingering and
one new are what an overlap needs. `MaxJobAttempts` is 5 in the code; 1 makes the
cap and the give-up happen early, and nothing depends on the number. One restart
suffices since a restart forgets everything but the rows, and a second starts from
rows a first could have left. `MaxParallel` is a constant though the setting may
change; a lower limit takes effect for later starts only. The properties that
hold with one slot only, or only while statements succeed, are checked in
`WorkerLive`, the others in `WorkerFaults`. For the file, two imports
are an upgrade during the encode of its predecessor, two slots make them share the
temp file, one crash hits every point, and of size 3 a saving of 33 % rounds to
nothing while 50 % does not. For profiles two mappings are
one for the kind and one for both, which the poll and the encode order
differently, or one before and one after a deletion. Jobs of the agent share
nothing but slots, so that one job is enough.

`Services` has the smallest numbers with which its hazards happen. Gates: two
jobs, one torrent, a batch of one, so that a row can hide behind another; one
failure or restart. Library: one item, two scans that overtake each other, one
tagger, a clock of three with a TTL of one; one cache key, since entries under
different keys never meet (the theorem holds for any number). Login: three
clients for two entries, so that eviction happens, two requests, one session,
two accounts one after the other. Health: two issues, the ticker and one
request, one failed listing or restart. Progress: two encodes, two browsers,
channels of one event. Startup: the repository's own migrations 2 to 8, two old
columns of which one is dropped at the end, two default profiles; the start may
die any number of times.

Deadlock is checked in the worker's runs and in `Services`. It is not in the
others: an agent whose jobs are gone, a file that is done and marked, and a
reconciler without instances may stop.

### Fairness

- `WorkerLive`: goroutines that can move are scheduled (weak fairness of the
  tick, of each run, of the second half of a pause). An encode ends, because
  HandBrake or the agent does. The window is open again and again when the
  worker looks (strong fairness of `PassPauseCheck`): with an encoding window
  set, a tick falls into it every day. Nothing is assumed of gates, users or
  crashes; `ReadyIsServed` excludes only users who retry rows with lower ids for
  ever, which really starves the rows behind them.
- `ProfileChoice`: polls are started, and no call is refused every time it is
  tried (strong fairness of each call of a poll). Restarts, deletions of the
  job and failing polls may go on for ever.
- `AgentFaults`: goroutines, handlers, tickers and the client go
  on. Nobody has to give up, no request has to be made or to arrive.
- `Services`: the worker's tick, the health checker's ticker and a goroutine in
  a broadcast go on. All of them run until the process ends, every request they
  make has a timeout, and what fails fails at most `MaxFaults` times.
- `WorkerFailedOnce` and `AgentLostEnd` assume the fairness of `WorkerLive` and
  `AgentFaults`: their counterexamples do not rest on a step that is never taken.

## 4. What is proved

For every finite set of jobs, every set of goroutines, every limit, and with or
without failing statements (the assumptions are the named `ASSUME`s of
`Worker`), TLAPS proves of `Worker`'s `Spec`:

| theorem | property |
|---|---|
| `TypeCorrect` | `TypeOK` |
| `RunsHoldTheirRows` | `RunHoldsRow` |
| `OneRunAtATime` | `OneRunPerJob` |
| `RestartsUseUpAttempts` | `AttemptsCountRestarts` |
| `WorkerImplementsLifecycle` | `ImplementsLifecycle` |
| `MarksBelongToEntries` | `MarksHaveEntries` |
| `RunsAreFound` | `RunsAreRegistered` |
| `PausedRunsAreRequeued` | `PauseIsRequeued` |
| `LimitOnEncodes` | `ParallelBoundKept` |
| `OneSlotIsSafe` | `SerialNeverOverlaps` |
| `ClaimedRowsAreOwned` | `EncodingRowOwned` |
| `EncodesHaveEntries` | `EncodesAreCounted`, which `WorkerHiddenEncode` refutes, holds until an overlap |
| `PausedTicksStartNothing` | a tick that has still to look at the switch starts nothing: `PausedStartsNothing`, which `WorkerPauseRace` refutes, fails only after that look |
| `RunsComeToTheirEnd` | a run takes at most seven steps, and nobody else adds to them |
| `TicksComeToTheirEnd` | a tick takes a bounded number of steps |
| `ClaimedRowsComeToTheirEnd` | a claimed row has a holder, whose every step brings it nearer to its outcome |

of the jobs table, for every set of jobs and every limit on attempts:

| theorem | shows |
|---|---|
| `LifecycleMovesStatus` | `JobLifecycle` implements `JobStatus` |
| `StatusTypes`, `StatusMovesStages` | `JobStatus` keeps its types and implements `JobStages` |

and of `ProfileChoice`'s `Spec`, for every set of instances, tags, files and
profiles and every number of mappings (`ProfileAssumption`):

| theorem | property |
|---|---|
| `ProfileTypes` | `TypeOK` |
| `DeletedStayUnused` | `DeletedProfileUnused` |
| `RowsTellProfiles` | `RowTellsProfile` |
| `ProfilesMoveStages` | `ProfileChoice` implements `JobStages` |

and of `MediaFile`'s `Spec`, for every number of runs, imports, retries and
upsets, every finite set of sizes, every policy and percentage
(`FileAssumption`):

| theorem | property |
|---|---|
| `FileTypes` | `TypeOK` |
| `SourceStaysWhole` | `SourceIsWhole` |
| `OneSlotCommitsAtomically` | with one slot no two encodes overlap, and `CommitIsAtomic`, which `FileShared` refutes, holds |
| `TempsAreRemoved` | `TempRemoved` |
| `GuardIsKept` | `GuardHolds` |
| `ImportsAreEncodedOnce` | `EncodedOnce` |
| `FilesMoveStages` | `MediaFile` implements `JobStages` |
| `EncodesDescend` | `EncodeDescends`, and `StepsLeft` is a number |

and of `AgentSession`'s `Spec`, for every finite set of jobs, every number of
slots and restarts, with or without failing writes (`AgentJobAssumption`,
`AgentBoundAssumption`):

| theorem | property |
|---|---|
| `SessionTypes` | `TypeOK` |
| `EncodesHaveGoroutines` | `EncodingHasGoroutine` |
| `DeletedJobsStayDeleted` | `DeletedStaysDeleted` |
| `DoneJobsHaveOutput` | `DoneHasOutput` |
| `SuccessesAreEncoded` | `SuccessIsEncoded` |
| `StatesAdvance` | `StatesOnlyAdvance` |
| `SlotsAreGivenBack` | a slot is taken exactly as long as a goroutine is on its way to give it back |
| `GoroutinesComeToTheirEnd` | a goroutine takes at most eight steps |
| `EndedJobsGo` | an ended job can be deleted at any time, and only its deletion or a restart changes it |
| `ListenersAreNotForgotten` | who listens while a job is encoded stays owed the end of the stream; `AgentLostEnd` refutes `WatchEnds` with one who subscribes after it |

and of `Services`' `Spec`, for every value of its constants
(`GatesAssumption`, `RowAssumption`, `LibraryAssumption`, `LoginAssumption`,
`HealthAssumption`, `StartAssumption`, `SizeAssumption`):

| theorem | property |
|---|---|
| `ServicesTypes` | `TypeOK` |
| `AnswersAreRecent` | `AnswerIsRecent` |
| `ReleasesAreJustified` | `ReleaseIsJustified` |
| `GatesMoveRows` | `GatesKeepStatus`: `Gates` implements `JobStatus` |
| `BatchesAreLimited` | a tick has at most `SeedCheckBatchLimit` rows before it |
| `GateTicksComeToTheirEnd` | each step of a tick of the gates leaves a row less, or goes on to the next part |
| `LockoutsAreKept` | `LockoutIsKept` |
| `SessionsStayOwned` | `SessionsAreOwned` |
| `NoticesTakeTurns` | `NoticesAlternate` |
| `SchemasAreComplete` | `SchemaIsComplete` |
| `PanicsNeedDepartures` | listed channels are open: a send panics only if the browser left after the list was copied |
| `BroadcastsComeToTheirEnd` | a broadcast has a channel less before it with each step |
| `BackoffGrows` | what `LoginAssumption` asks of the waits holds of the code's table |
| `WindowIsInterval` | the encoding window is an interval of the day, over midnight as well |

The arguments:

- `Held` (`WorkerProofs`). `RunHoldsRow` alone is not inductive: `StartEncode`
  makes a run for a row that the tick claimed in an earlier step. `Held` adds
  that the row at which the tick is about to start is encoding and has no run
  yet (`StartPending`); that a row listed with no attempt left is deleted, or
  ready with all attempts used, so that nobody can claim it (`SpentRows`); and
  that the row being given up is one of these (`GiveUpPending`), so that the
  unconditional `MarkJobFailed` never meets a row that encodes. Together with
  `OneRunPerJob` this is inductive: retries and deletions skip encoding rows, a
  claim needs a ready row, and a run settles its own row only.
- `Charges`: a row that waits or is ready has been charged at most once per
  restart, an encoding row between once and once more than that, and a job
  without a row not at all. So the refund of a pause never drops below zero, and
  the refinement to `JobLifecycle`, whose `Requeue` subtracts without a guard,
  goes through. Every action maps to one abstract move or to a stutter;
  `Restart` maps to `Recover`, or to a stutter if the statement failed.
- `Registered` (`WorkerMapProofs`): entries belong to live runs of their job;
  live runs are registered unless there was an overlap; marks have entries; idle
  runners are not cancelled; and up to its error path a run's job is marked
  exactly if a pause cancelled the run, unless there was an overlap
  (`MarksArePauses`). `PauseIsRequeued` follows, as an action property, since
  the error path reads the mark and the map in one critical section.
- `Room` (`WorkerLimitProofs`): entries plus rows still to be started never
  exceed the limit. The lemma behind it is that `LIMIT slots` lists no more
  than `slots` rows, proved by mapping each listed row to the number of ready
  rows before it. Distinct runs have distinct entries, which bounds the encodes.
- `Inv` (`MediaFileProofs`): each `encodeOne` holds a row of its own that is
  encoding until it settles it, and none runs while the process starts
  (`RowIsHeld`). What a HandBrake writes depends on where the file is that it has
  open (`FilesAreOpen`). As long as no encode has started while another had use of
  the temp file, the file is one encode's at a time, nobody's HandBrake is
  disturbed, and what is about to be committed is whole (`TempIsOwn`):
  `SourceIsWhole` is claimed up to there, and `FileShared` shows what happens
  afterwards. With one slot it never gets there (`OneSlotCommitsAtomically`). What is
  about to be committed satisfies the guard (`CommitIsChecked`), which has a try left
  when an encode starts (`TriesAreLeft`). `TempRemoved` is not inductive: after
  a restart that could not update the rows, the temp file of one row is there
  while another row is encoded and settled. `StaleTempIsFound` says that a temp file
  which no encode uses belongs to a row that still says it is encoding, or is about
  to be removed by the start, or was missed: the removal failed, or
  the start died between the rows and the removal. `EncodedOnce` needs besides
  that only a process that died is starting (`StartsFollowCrashes`). `GuardHolds` comes down to the rounding of
  `size - size * percent / 100` (`ThresholdSaves`).
- `Inv` (`ProfileProofs`): types alone are not inductive, since a run updates
  fields of a row that has to exist; `RunsHaveRows` says that it does, because
  deleting and editing spare the rows of runs. `CopyIsRow` carries the profile
  from the listing to the encode. `DeletedProfileUnused` needs that only a
  profile mapped again has mappings though it is deleted (`MappedAreAlive`),
  so that what `reresolveProfile` finds is none of the profiles that were
  deleted at the claim (`ChoiceIsAlive`). That there is a last mapping of a
  label at all follows from the least element of a set of numbers.

- `Inv` (`AgentProofs`) is said job by job. `DoneHasOutput` is not inductive:
  that the output is there has to be known of whatever may still say that the job
  is done, the goroutine's outcome, its channel, a stream, a client, and the
  manifest, which a restart reads (`OutputThere`). It is lost only with the job
  itself, or with a removal that a restart cut in two, or to Recodarr after its
  call (`OutputLost`). All but the manifest may
  outlive the job, and then the job must not come back: `Deletes` orders the two
  halves of a deletion, `NotYet` says that nobody knows a job before `Create`
  has ended. `RunHasState` ties the state to the goroutine, in both directions.
- `LibraryInv` (`ServicesProofs`): an entry, and a scan under way, lists every
  item tagged before its date (`Dated`), because it is dated before the *arr is
  asked. The property follows, since an answer is at most TTL old.
- `GateInv`: a row is in the batch that is released only if its torrent was
  absent, or left out of an answer, since the rows were listed; transitions look at the status again.
- `LimiterInv`: an entry's time is at most the wait for its failures from now, so
  that one more failure never shortens a lockout, given that waits grow
  (`BackoffGrows`); and there are at most `MaxEntries` entries. Evicting the entry
  that is ready first, and only if there is no room, touches a locked client only
  if all are locked.
- `SessionsStayOwned`: accounts are numbered and never used twice, a session is
  checked against them when it is inserted and goes with them.
- `ReportInv`: what the user was told is what the last round found, less what is
  still to be told and plus what is still to be taken back; requests change
  neither.
- `SchemaInv`: a database whose version is `v` has exactly the columns of `v`; the
  place in the start says how far an old database has been adopted.

- The refinements to `JobStages` and `JobStatus` need of `MediaFile` and
  `ProfileChoice` that a run holds the row it ends (`RowIsHeld`, `RunsHaveRows`),
  since `MarkJobDone`, `MarkJobSkipped` and `MarkJobFailed` do not ask for the
  status. `Gates` needs no invariant: `TransitionJobStatus` names the status it
  expects, and a transition without that is refuted by the run `Services`.
- What ends is proved by descent. `RunLeft`, `TickLeft`, `StepsLeft` and their like
  are numbers that every step of the process in question lessens and no step of
  another raises; the theorems say this of all steps, so that it also holds
  while users retry, pause and delete, and while statements fail. For a claimed row
  the number passes from the tick to its run (`Owes`), which needs `Held`: the
  row at which the tick is about to start has no run yet. A
  listener of the agent has the end in its channel already, or its goroutine is
  still to close it: `Watched` says that the job is not deleted under a goroutine
  whose client watches, so that `store.Get` finds it, and `HeldSlot` that
  a slot is taken exactly while a goroutine will give it back; both are parts of
  `OwedInv`.
- `EndedJobsGo`: a job that is out of `Store.jobs` comes back only through a restart
  (`NoneComesBack`), so that no deletion that left the files behind leaves the job
  in memory as well.
- `BatchesAreLimited` is about a set of rows taken in the order of their ids with a
  limit (`FewAreListed`). That a set of `n` numbers has a first part of each size
  is an induction over `n`, done as a proof that the set of counterexamples has no
  least element (`LeastNatural`).
- `StreamInv`: a channel in the list is open, because `Subscribe`'s unsubscribe takes
  it out and closes it under one lock; a copied list may still hold it, and that is
  the only way to `Panic`.

Only model-checked: the liveness properties, since neither fairness nor `ENABLED`
is within the prover's reach. For most of them the theorems above leave nothing
open but that:

| liveness property | what is proved of it |
|---|---|
| `EncodingEnds` | `ClaimedRowsComeToTheirEnd`, `ClaimedRowsAreOwned` |
| `PauseDrains` | `PausedTicksStartNothing`, `RunsComeToTheirEnd` |
| `ReadyIsServed` | `TicksComeToTheirEnd`, `RunsComeToTheirEnd`: ticks and slots come back; that lower rows run out is not proved |
| `ListenerIsTold` | `ListenersAreNotForgotten`, `GoroutinesComeToTheirEnd` |
| `SlotsComeBack` | `SlotsAreGivenBack`, `GoroutinesComeToTheirEnd` |
| `GatesOpen` | `BatchesAreLimited`, `GateTicksComeToTheirEnd`; that a tick finds what is open is not proved |
| `BroadcastEnds` | `BroadcastsComeToTheirEnd` |
| `EndedIsExpired` | `EndedJobsGo` |
| `MappedIsQueued`, `LastingIsTold` | nothing |

Nothing else is only model-checked: each safety property of a passing run is a
theorem. The six violations are counterexamples and need no proof; for five of
them theorems say how much of the sentence holds: `PausedTicksStartNothing`
(`WorkerPauseRace`), `RestartsUseUpAttempts` (`WorkerFailedOnce`),
`EncodesHaveEntries` (`WorkerHiddenEncode`), `OneSlotCommitsAtomically`
(`FileShared`) and `ListenersAreNotForgotten` (`AgentLostEnd`).

## 5. What the code does not keep

Besides the six runs above, modelling came across these; where the models reach
it, stating the sentence as a property of the module named shows it:

- `MediaFile`: markers are there so that "the same file can't accidentally be
  re-encoded a second time" (`WorkerPanel.vue`); a crash after the rename and
  before `MarkJobDone` encodes the encode again.
- `MediaFile`: "upgraded files are picked up on the next poll" (`README.md`); if
  the upgrade takes the path of a file with a marker, it is passed over.
- `MediaFile`: the size guard compares with the size the *arr gave when the job
  was queued; after a retry the file in place may be an encode already, and the
  next one may be bigger than what it replaces.
- `MediaFile`: a temp file whose removal fails, or that is there when the start
  dies between `RecoverOrphanEncoding`, which makes the rows ready, and the
  removal, which goes by the rows that were encoding, is never looked
  for again; an encode of the same path overwrites it (`missed`).
- `MediaFile` with two slots: an encode that is not accepted removes the temp file that
  the other row's HandBrake writes, and that one then has nothing to commit.
- `Worker` with two slots: after an overlap a requeue mark may be taken by the
  wrong run, so that a user's cancel requeues.
- `AgentRunner`: `tick` counts `Runner.active`, in which a claimed job appears
  later; two ticks in quick succession claim more jobs than there are slots.
- `AgentRunner`: `os.RemoveAll` that ends or fails between the output and
  `state.json` leaves a manifest that says done, and the restart lists a done job
  that has no output (`HalfRemoved`).
- `AgentSession`: an output on the share is moved over the source by Recodarr; if
  the DELETE after it is lost, the agent's job stays done without its output until it
  expires (`TakeShared`).
- `AgentRunner`: a DELETE between the claim and the registration cancels
  nothing; HandBrake runs to its end for a job that is gone.
- `AgentRunner`: a job that awaits its source when its client has gone is never
  cleaned up: only terminal jobs expire.
- `ProfileChoice`: a tagged and mapped file with a marker beside it, or with
  a path that is not clean and absolute or is a temp file's, is passed over by every
  poll without a word to the user (`PassedOver`).
- `ProfileChoice`: mappings have a tag id and no instance, and every instance
  numbers its own tags: a mapping made for one instance's tag queues the items
  that carry another instance's tag of the same id ("Items without a matching
  tag are ignored", `README.md`).

- `MediaFile`: an upgrade that arrives while its predecessor's row waits is
  encoded with the predecessor's row, and then again with its own; one that
  arrives during the encode is overwritten by `Commit`.
- `Gates`: "when the torrent is no longer seeding, the job becomes ready"
  (`README.md`); the code waits until qBittorrent does not hold the torrent at
  all, and asks the first instance only.
- `Gates`: whatever a 200 answer of qBittorrent lacks is taken for gone, so that an
  incomplete one releases files that are still seeded (`Answer`);
  `ReleaseIsJustified` is the best that holds.
- `Gates`: with a qBittorrent that is never configured every look at the
  torrents fails and rows with a torrent wait for ever, as the repository's `README.md`
  says; `GatesOpen` is about faults that end.
- `Gates`: rows behind 5000 that cannot pass are not looked at until some of
  those pass; `GatesOpen` promises nothing for them.
- `Gates`: a retry sends a row that came through the hardlink gate to the seed
  gate, which lets a row without a torrent pass at once; a file that cannot be
  looked at passes the hardlink gate.
- `Library`: an older scan replaces a newer one, and a tag may be missing in the
  answers until the entry is older than TTL; `AnswerIsRecent` is the best that
  holds. The entries of the map share their slices, so that `markTagged` writes
  what a handler may be encoding to JSON.
- `Health`: a service that cannot be listed counts as healthy, and its issue is
  reported as resolved; a notification that is lost is not repeated; a restart
  reports everything again and never reports as resolved what ended meanwhile.
- `Progress`: a send to a channel that was closed after the list was copied
  panics and ends the process (`Panic`), with all encodes.
- `Startup`: profiles are seeded only into an empty table: a start that dies
  between two of them leaves the others out for good. An old database whose
  adoption died between the creation of the version table and its stamp may be
  refused by every later start (`StartVersions`).

## 6. What is not modelled, and the plan

Left out for good: the arguments HandBrake gets, audio bitrates and probing
(pure functions on text and numbers, covered by table tests), metrics, logging,
HTTP plumbing and the frontend (no state the server depends on).

Left open, in the order in which they would add most:

1. The settings: `PUT` stores them key by key without a transaction, and readers
   see half of them; `Worker` has the one switch that starts and stops encodes.
2. `Worker` with two processes: `reset-admin` is a second process that also runs
   the migrations.
3. The cookies and the middleware, which read the session; the qBittorrent
   client's requests one by one.

Left to prove, most useful first:

1. The descent of a poll (`MappedIsQueued`) and of a round of the health checker
   (`LastingIsTold`), as for the other processes.
2. What a listing promises to the rows behind others: the rows before a ready or
   waiting row only become fewer while users leave them alone, which
   `ReadyIsServed` and `GatesOpen` rest on.
