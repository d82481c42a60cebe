------------------------------- MODULE Progress -------------------------------
(***************************************************************************)
(* How browsers watch encodes: Subscribe and broadcast (internal/job/      *)
(* job.go) and the handler that streams to one browser (workerProgressSSE, *)
(* internal/api/admin.go).  The list of subscribers is read and written    *)
(* under the worker's mutex, the channels in it are not.                   *)
(*                                                                         *)
(* Every subscription has a channel of its own; of the events in it only   *)
(* the number is kept.                                                     *)
(***************************************************************************)
EXTENDS Naturals, FiniteSets

CONSTANTS
    Encode,    \* goroutines that encode
    Channel,   \* the channels subscriptions may make
    Cap        \* the capacity of a channel

VARIABLES
    running,       \* the goroutines that encode now, in w.encoding
    subscribers,   \* w.subscribers
    closed,        \* the channels that are closed
    queued,        \* queued[ch]: the number of events in the channel
    stream,        \* stream[ch]: where the handler that made the channel is
    snapshots,     \* snapshots[ch]: how many snapshots it has still to send to itself
    phase,         \* phase[e]: where goroutine e is
    copied         \* copied[e]: the subscribers broadcast has still to send to

streamVars == <<stream, snapshots>>
encodeVars == <<running, phase, copied>>
vars == <<subscribers, closed, queued, streamVars, encodeVars>>

TypeOK ==
    /\ running \subseteq Encode
    /\ subscribers \subseteq Channel /\ closed \subseteq Channel
    /\ queued \in [Channel -> 0..Cap]
    /\ stream \in [Channel -> {"none", "snapshots", "open", "gone"}]
    /\ snapshots \in [Channel -> 0..Cardinality(Encode)]
    /\ phase \in [Encode -> {"idle", "encode", "ended", "broadcast", "last"}]
    /\ copied \in [Encode -> SUBSET Channel]

Init ==
    /\ running = {} /\ subscribers = {} /\ closed = {}
    /\ queued = [ch \in Channel |-> 0]
    /\ stream = [ch \in Channel |-> "none"] /\ snapshots = [ch \in Channel |-> 0]
    /\ phase = [e \in Encode |-> "idle"] /\ copied = [e \in Encode |-> {}]

-----------------------------------------------------------------------------
(* The encode goroutines *)

\* startEncode
StartEncode(e) ==
    /\ phase[e] = "idle"
    /\ phase' = [phase EXCEPT ![e] = "encode"]
    /\ running' = running \cup {e}
    /\ UNCHANGED <<subscribers, closed, queued, streamVars, copied>>

\* The encode ends and its entry goes; a last broadcast follows.
EndEncode(e) ==
    /\ phase[e] = "encode"
    /\ phase' = [phase EXCEPT ![e] = "ended"]
    /\ running' = running \ {e}
    /\ UNCHANGED <<subscribers, closed, queued, streamVars, copied>>

\* The subscribers are copied under the mutex, when HandBrake reports progress
\* and when the encode has ended.
Broadcast(e) ==
    /\ \/ phase[e] = "encode" /\ phase' = [phase EXCEPT ![e] = "broadcast"]
       \/ phase[e] = "ended" /\ phase' = [phase EXCEPT ![e] = "last"]
    /\ copied' = [copied EXCEPT ![e] = subscribers]
    /\ UNCHANGED <<running, subscribers, closed, queued, streamVars>>

\* Mutant: a send that waits for room.
IfRoom(ch) == queued[ch] < Cap

\* select { case ch <- ev: default: } never waits,
AtOnce(ch) == TRUE

\* and a full channel drops the event.
Offer(ch) == queued' = [queued EXCEPT ![ch] = IF @ < Cap THEN @ + 1 ELSE @]

Send(e, ch) ==
    /\ phase[e] \in {"broadcast", "last"} /\ ch \in copied[e] \ closed
    /\ AtOnce(ch) /\ Offer(ch)
    /\ copied' = [copied EXCEPT ![e] = @ \ {ch}]
    /\ UNCHANGED <<running, subscribers, closed, streamVars, phase>>

\* The channel was closed after it was copied: a send to it panics and ends
\* the process.  Everything starts anew, the browsers subscribe again.
Panic(e) ==
    /\ phase[e] \in {"broadcast", "last"} /\ copied[e] \cap closed # {}
    /\ running' = {} /\ subscribers' = {}
    /\ closed' = {ch \in Channel : stream[ch] # "none"}
    /\ queued' = [ch \in Channel |-> 0]
    /\ stream' = [ch \in Channel |-> IF stream[ch] = "none" THEN "none" ELSE "gone"]
    /\ snapshots' = [ch \in Channel |-> 0]
    /\ phase' = [f \in Encode |-> "idle"] /\ copied' = [f \in Encode |-> {}]

EndBroadcast(e) ==
    /\ phase[e] \in {"broadcast", "last"} /\ copied[e] = {}
    /\ phase' = [phase EXCEPT ![e] = IF phase[e] = "last" THEN "idle" ELSE "encode"]
    /\ UNCHANGED <<running, subscribers, closed, queued, streamVars, copied>>

\* What a goroutine does in broadcast.
Sends(e) == (\E ch \in Channel : Send(e, ch)) \/ Panic(e) \/ EndBroadcast(e)

-----------------------------------------------------------------------------
(* The handler of a stream *)

\* Subscribe: the channel is registered and the snapshots are taken in one
\* critical section.
Subscribe(ch) ==
    /\ stream[ch] = "none"
    /\ subscribers' = subscribers \cup {ch}
    /\ stream' = [stream EXCEPT ![ch] = "snapshots"]
    /\ snapshots' = [snapshots EXCEPT ![ch] = Cardinality(running)]
    /\ UNCHANGED <<closed, queued, encodeVars>>

\* They are sent after it: events may have come first.
SendSnapshot(ch) ==
    /\ stream[ch] = "snapshots"
    /\ IF snapshots[ch] > 0
       THEN /\ Offer(ch)
            /\ snapshots' = [snapshots EXCEPT ![ch] = @ - 1]
            /\ UNCHANGED stream
       ELSE /\ stream' = [stream EXCEPT ![ch] = "open"]
            /\ UNCHANGED <<queued, snapshots>>
    /\ UNCHANGED <<subscribers, closed, encodeVars>>

\* The handler writes an event to the browser, which may take its time.
Receive(ch) ==
    /\ stream[ch] = "open" /\ queued[ch] > 0
    /\ queued' = [queued EXCEPT ![ch] = @ - 1]
    /\ UNCHANGED <<subscribers, closed, streamVars, encodeVars>>

\* The browser goes away: the channel is taken from the list and closed.
Unsubscribe(ch) ==
    /\ stream[ch] = "open"
    /\ stream' = [stream EXCEPT ![ch] = "gone"]
    /\ subscribers' = subscribers \ {ch}
    /\ closed' = closed \cup {ch}
    /\ UNCHANGED <<queued, snapshots, encodeVars>>

Next ==
    \/ \E e \in Encode : StartEncode(e) \/ EndEncode(e) \/ Broadcast(e) \/ Sends(e)
    \/ \E ch \in Channel : Subscribe(ch) \/ SendSnapshot(ch) \/ Receive(ch) \/ Unsubscribe(ch)

Spec == Init /\ [][Next]_vars

\* A goroutine in broadcast is scheduled; no browser has to read.
Fairness == \A e \in Encode : WF_vars(Sends(e))
FairSpec == Spec /\ Fairness

-----------------------------------------------------------------------------
(* Properties *)

\* An encode is not held up by who watches it: a broadcast ends though no
\* browser reads its channel, and though subscribers come and go meanwhile
\* (broadcast).  A panic ends it, too, and all others with it.
BroadcastEnds ==
    \A e \in Encode : phase[e] \in {"broadcast", "last"} ~> phase[e] \notin {"broadcast", "last"}

=============================================================================
