------------------------------- MODULE Services -------------------------------
(***************************************************************************)
(* The parts of the server beside the encodes: the start of the database,  *)
(* the gates, the login, the library pages, the health checker and the     *)
(* progress streams.  main.go starts the first, then the others side by    *)
(* side.  They share no variable, so that what one does never depends on   *)
(* how it is interleaved with another: a behaviour exercises one of them,  *)
(* and the others stay as they were at the start.                          *)
(***************************************************************************)
EXTENDS Naturals, FiniteSets, Sequences

CONSTANTS
    Job, Hash, NoDownload, BatchLimit,
    Key, Item, Scanner, Tagger, TTL, NoItem, NoEntry,
    Client, Request, Token, NoClient, MaxEntries, Backoff(_), Retention,
    MaxFailures, MaxAccounts,
    Issue, Prober, Ticker,
    Encode, Channel, Cap,
    Legacy, Dropped, Added, Defaults, Unversioned,
    LibraryTime, LoginTime,   \* bounds: how long the clocks run
    MaxFaults                 \* bound: what may fail

\* The rows of the jobs table: there are finitely many, their ids are numbers.
ASSUME RowAssumption == Job \subseteq Nat /\ IsFiniteSet(Job)

\* The gates: a row without a download id has none; the *arr's hashes are records.
ASSUME GatesAssumption ==
    /\ NoDownload \notin [hash : Hash, upper : BOOLEAN]
    /\ BatchLimit \in Nat \ {0} /\ MaxFaults \in Nat

\* The library: an entry has a key, a time, its items and whether there was an answer.
ASSUME LibraryAssumption ==
    /\ TTL \in Nat /\ LibraryTime \in Nat
    /\ NoItem \notin Item
    /\ NoEntry \notin [key : Key, at : 0..LibraryTime, items : SUBSET Item, ok : BOOLEAN]

\* The login: the more failures, the longer the wait.
ASSUME LoginAssumption ==
    /\ IsFiniteSet(Client) /\ NoClient \notin Client
    /\ MaxEntries \in Nat \ {0} /\ Retention \in Nat
    /\ MaxFailures \in Nat \ {0} /\ LoginTime \in Nat /\ MaxAccounts \in Nat
    /\ \A n \in 0..MaxFailures : Backoff(n) \in Nat
    /\ \A m, n \in 0..MaxFailures : m <= n => Backoff(m) <= Backoff(n)

\* The health checker: one of the probers is the ticker.
ASSUME HealthAssumption == Ticker \in Prober

\* The start: the last migration drops a column of the first.
ASSUME StartAssumption ==
    /\ Dropped \in Legacy
    /\ Len(Added) \in Nat
    /\ Unversioned \notin Nat

\* The streams and the seed: channels have a capacity, encodes are finitely many,
\* and so are the default profiles.
ASSUME SizeAssumption == Cap \in Nat /\ IsFiniteSet(Encode) /\ Defaults \in Nat

VARIABLES
    part,   \* the part this behaviour exercises
    status, download, torrents, links, step, batch, absent, gateFaults,
    scanTime, tagged, since, cache, scan, scanPhase, target,
    loginTime, failures, nextOK, accounts, created, sessions, issued,
    loginPhase, client, user,
    down, last, fresh, prev, probePhase, ahead, found, opened, resolved, told, probeFaults,
    running, subscribers, closed, queued, stream, snapshots, encodePhase, copied,
    tables, columns, versioned, version, profiles, startPhase

gateVars == <<status, download, torrents, links, step, batch, absent, gateFaults>>
libraryVars == <<scanTime, tagged, since, cache, scan, scanPhase, target>>
loginVars == <<loginTime, failures, nextOK, accounts, created, sessions, issued,
               loginPhase, client, user>>
healthVars == <<down, last, fresh, prev, probePhase, ahead, found, opened, resolved,
                told, probeFaults>>
progressVars == <<running, subscribers, closed, queued, stream, snapshots, encodePhase, copied>>
startVars == <<tables, columns, versioned, version, profiles, startPhase>>
vars == <<part, gateVars, libraryVars, loginVars, healthVars, progressVars, startVars>>

Gate     == INSTANCE Gates WITH faults <- gateFaults
Pages    == INSTANCE Library WITH now <- scanTime, phase <- scanPhase, MaxTime <- LibraryTime
Door     == INSTANCE Login WITH now <- loginTime, phase <- loginPhase, MaxTime <- LoginTime
Checker  == INSTANCE Health WITH phase <- probePhase, faults <- probeFaults
Watch    == INSTANCE Progress WITH phase <- encodePhase
Database == INSTANCE Startup WITH phase <- startPhase

TypeOK ==
    /\ part \in {"gates", "library", "login", "health", "progress", "start"}
    /\ Gate!TypeOK /\ Pages!TypeOK /\ Door!TypeOK
    /\ Checker!TypeOK /\ Watch!TypeOK /\ Database!TypeOK

\* The parts that are not exercised have one initial state.
Init ==
    /\ part \in {"gates", "library", "login", "health", "progress", "start"}
    /\ Gate!Init /\ Pages!Init /\ Door!Init /\ Checker!Init /\ Watch!Init /\ Database!Init
    /\ part # "gates" => torrents = {} /\ \A j \in Job : links[j] = "one"
    /\ part # "health" => down = {}
    /\ part # "start" => ~tables

\* The part p, whose variables are none of the rest, takes a step.
Alone(p, rest) == part = p /\ UNCHANGED <<part, rest>>

BesideGates    == Alone("gates", <<libraryVars, loginVars, healthVars, progressVars, startVars>>)
BesideLibrary  == Alone("library", <<gateVars, loginVars, healthVars, progressVars, startVars>>)
BesideLogin    == Alone("login", <<gateVars, libraryVars, healthVars, progressVars, startVars>>)
BesideHealth   == Alone("health", <<gateVars, libraryVars, loginVars, progressVars, startVars>>)
BesideProgress == Alone("progress", <<gateVars, libraryVars, loginVars, healthVars, startVars>>)
BesideStart    == Alone("start", <<gateVars, libraryVars, loginVars, healthVars, progressVars>>)

Next ==
    \/ BesideGates /\ Gate!Next
    \/ BesideLibrary /\ Pages!Next
    \/ BesideLogin /\ Door!Next
    \/ BesideHealth /\ Checker!Next
    \/ BesideProgress /\ Watch!Next
    \/ BesideStart /\ Database!Next

Spec == Init /\ [][Next]_vars

\* The goroutines of the parts go on (see the parts).
Fairness ==
    /\ WF_vars(BesideGates /\ Gate!Tick)
    /\ WF_vars(BesideHealth /\ Checker!Tick)
    /\ \A e \in Encode : WF_vars(BesideProgress /\ Watch!Sends(e))

FairSpec == Spec /\ Fairness

-----------------------------------------------------------------------------
(* The properties of the parts *)

\* The seed gate opens only for a torrent qBittorrent did not hold (checkSeeding).
ReleaseIsJustified == Gate!ReleaseIsJustified

\* The gates move rows as the jobs table allows it (TransitionJobStatus).
GatesKeepStatus == Gate!ImplementsStatus

\* No row waits for ever at a gate that nothing holds shut (checkSeeding, checkHardlinks).
GatesOpen == Gate!GatesOpen

\* An answer from the cache shows every tag that is older than TTL (libraryScan).
AnswerIsRecent == Pages!AnswerIsRecent

\* Every session is of the one account and was paid for with its password
\* (CreateAdmin, CreateSession, ResetAdmin).
SessionsAreOwned == Door!SessionsAreOwned

\* A client stays locked out until its time (LoginLimiter).
LockoutIsKept == Door!LockoutIsKept

\* No issue is reported twice, or as resolved without having been reported (Service.tick).
NoticesAlternate == Checker!NoticesAlternate

\* What lasts is reported, what is over is reported as resolved (Service.tick).
LastingIsTold == Checker!LastingIsTold

\* A broadcast ends whoever watches (Worker.broadcast).
BroadcastEnds == Watch!BroadcastEnds

\* The program serves with a complete database only (Open).
SchemaIsComplete == Database!SchemaIsComplete

=============================================================================
