-------------------------------- MODULE Health --------------------------------
(***************************************************************************)
(* The health checker (internal/health/health.go): a ticker probes the     *)
(* services, compares what it finds with what it found before, and tells   *)
(* the user of the differences (internal/notify/notify.go).  Requests for  *)
(* the snapshot run beside it and probe on their own when it is too old.   *)
(* A probe looks at one service after the other in any order.              *)
(*                                                                         *)
(* Whether a notification arrives is left out: SendHealth logs what fails  *)
(* and goes on, and nothing is told twice.                                 *)
(***************************************************************************)
EXTENDS Naturals, FiniteSets

CONSTANTS
    Issue,      \* what can be wrong: one issue for each service
    Prober,     \* the ticker and the requests for the snapshot
    Ticker,     \* the ticker among them
    MaxFaults   \* bound: how often a service cannot be listed, or the program is restarted

VARIABLES
    down,      \* the issues there are
    last,      \* the snapshot served to requests
    fresh,     \* last is younger than cacheTTL
    prev,      \* what the ticker has found the last time
    phase,     \* phase[p]: where prober p is
    ahead,     \* ahead[p]: the services it has not looked at
    found,     \* found[p]: the issues it has found
    opened,    \* the issues the ticker has still to report
    resolved,  \* the issues it has still to report as resolved
    told,      \* history: the issues this process has reported and not reported as resolved since
    faults

probeVars  == <<phase, ahead, found>>
reportVars == <<opened, resolved, told>>
vars == <<down, last, fresh, prev, probeVars, reportVars, faults>>

TypeOK ==
    /\ down \subseteq Issue /\ last \subseteq Issue /\ prev \subseteq Issue
    /\ fresh \in BOOLEAN
    /\ phase \in [Prober -> {"idle", "probe", "report"}]
    /\ ahead \in [Prober -> SUBSET Issue] /\ found \in [Prober -> SUBSET Issue]
    /\ opened \subseteq Issue /\ resolved \subseteq Issue /\ told \subseteq Issue
    /\ faults \in 0..MaxFaults

Init ==
    /\ down \in SUBSET Issue
    /\ last = {} /\ fresh = FALSE /\ prev = {}
    /\ phase = [p \in Prober |-> "idle"]
    /\ ahead = [p \in Prober |-> {}] /\ found = [p \in Prober |-> {}]
    /\ opened = {} /\ resolved = {} /\ told = {}
    /\ faults = 0

-----------------------------------------------------------------------------
(* probe *)

\* The ticker probes at each tick, a request if the snapshot is too old.
StartProbe(p) ==
    /\ phase[p] = "idle"
    /\ p = Ticker \/ ~fresh
    /\ phase' = [phase EXCEPT ![p] = "probe"]
    /\ ahead' = [ahead EXCEPT ![p] = Issue]
    /\ found' = [found EXCEPT ![p] = {}]
    /\ UNCHANGED <<down, last, fresh, prev, reportVars, faults>>

\* A service answers or does not, or is not probed because it could not be
\* listed, and then has no issue.
Look(p, i) ==
    /\ phase[p] = "probe" /\ i \in ahead[p]
    /\ ahead' = [ahead EXCEPT ![p] = @ \ {i}]
    /\ \/ found' = [found EXCEPT ![p] = @ \cup ({i} \cap down)] /\ UNCHANGED faults
       \/ faults < MaxFaults /\ faults' = faults + 1 /\ UNCHANGED found
    /\ UNCHANGED <<down, last, fresh, prev, phase, reportVars>>

-----------------------------------------------------------------------------
(* tick *)

\* Mutant: the ticker compares with the snapshot, which requests store too.
Served == last

Before == prev

\* The snapshot and prev are stored in one critical section.
StoreTick ==
    /\ phase[Ticker] = "probe" /\ ahead[Ticker] = {}
    /\ phase' = [phase EXCEPT ![Ticker] = "report"]
    /\ last' = found[Ticker] /\ fresh' = TRUE
    /\ prev' = found[Ticker]
    /\ opened' = found[Ticker] \ Before
    /\ resolved' = Before \ found[Ticker]
    /\ UNCHANGED <<down, ahead, found, told, faults>>

\* diffAndNotify: first what is new, then what is over.
Report(i) ==
    /\ phase[Ticker] = "report"
    /\ \/ i \in opened /\ opened' = opened \ {i} /\ told' = told \cup {i} /\ UNCHANGED resolved
       \/ opened = {} /\ i \in resolved /\ resolved' = resolved \ {i} /\ told' = told \ {i} /\ UNCHANGED opened
    /\ UNCHANGED <<down, last, fresh, prev, probeVars, faults>>

EndTick ==
    /\ phase[Ticker] = "report" /\ opened = {} /\ resolved = {}
    /\ phase' = [phase EXCEPT ![Ticker] = "idle"]
    /\ UNCHANGED <<down, last, fresh, prev, ahead, found, reportVars, faults>>

Tick ==
    \/ StartProbe(Ticker) \/ StoreTick \/ EndTick
    \/ \E i \in Issue : Look(Ticker, i) \/ Report(i)

-----------------------------------------------------------------------------
(* Snapshot *)

\* Mutant: a request stores what it has found for the ticker, too.
StorePrev(p) == prev' = found[p]

KeepPrev(p) == UNCHANGED prev

\* A request stores the snapshot and answers with it.
StoreSnapshot(p) ==
    /\ p # Ticker
    /\ phase[p] = "probe" /\ ahead[p] = {}
    /\ phase' = [phase EXCEPT ![p] = "idle"]
    /\ last' = found[p] /\ fresh' = TRUE
    /\ KeepPrev(p)
    /\ UNCHANGED <<down, ahead, found, reportVars, faults>>

\* cacheTTL passes.
SnapshotAges ==
    /\ fresh
    /\ fresh' = FALSE
    /\ UNCHANGED <<down, last, prev, probeVars, reportVars, faults>>

\* A service fails or recovers.
ServiceChanges(i) ==
    /\ down' = IF i \in down THEN down \ {i} ELSE down \cup {i}
    /\ UNCHANGED <<last, fresh, prev, probeVars, reportVars, faults>>

\* The checker keeps everything in memory.
Restart ==
    /\ faults < MaxFaults /\ faults' = faults + 1
    /\ last' = {} /\ fresh' = FALSE /\ prev' = {}
    /\ phase' = [p \in Prober |-> "idle"]
    /\ ahead' = [p \in Prober |-> {}] /\ found' = [p \in Prober |-> {}]
    /\ opened' = {} /\ resolved' = {} /\ told' = {}
    /\ UNCHANGED down

Next ==
    \/ Tick \/ Restart
    \/ \E p \in Prober \ {Ticker} :
         StartProbe(p) \/ StoreSnapshot(p) \/ \E i \in Issue : Look(p, i)
    \/ SnapshotAges
    \/ \E i \in Issue : ServiceChanges(i)

Spec == Init /\ [][Next]_vars

\* The ticker goes on: every probe has a timeout, and so has a notification.
FairSpec == Spec /\ WF_vars(Tick)

-----------------------------------------------------------------------------
(* Properties *)

\* Of each issue the user is told in turn that it is there and that it is
\* over, however often requests store a snapshot of their own meanwhile
\* (tick, Snapshot, diffAndNotify).
NoticesAlternate ==
    [][ \A i \in Issue : Report(i) => (i \in told') # (i \in told) ]_vars

\* An issue that lasts is told in the end and stays so; one that is over for
\* good is reported as resolved.
LastingIsTold ==
    \A i \in Issue :
      /\ <>[](i \in down) => <>[](i \in told)
      /\ <>[](i \notin down) => <>[](i \notin told)

=============================================================================
