--------------------------- MODULE ServicesProofs ---------------------------
(***************************************************************************)
(* Proofs about the parts beside the encodes.  A part's properties are     *)
(* about its own variables, so that an invariant of a part is one of       *)
(* Services: a step of another part leaves it alone.                       *)
(***************************************************************************)
EXTENDS Services, FiniteSetTheorems, WellFoundedInduction, TLAPS

-----------------------------------------------------------------------------
(* The library pages *)

\* A scan is dated before the *arr was asked, and shows what had its tag by then.
Dated(e) ==
    /\ e.at <= scanTime
    /\ e.ok => \A i \in tagged : since[i] < e.at => i \in e.items

LibraryInv ==
    /\ Pages!TypeOK
    /\ \A i \in Item : since[i] <= scanTime
    /\ \A k \in Key : cache[k] # NoEntry => Dated(cache[k])
    /\ \A r \in Scanner : scanPhase[r] # "idle" => scan[r] # NoEntry /\ Dated(scan[r])
    /\ \A r \in Scanner : scanPhase[r] = "fetch" => ~scan[r].ok

LEMMA LibraryInvInductive ==
  ASSUME LibraryInv, Pages!Next \/ UNCHANGED Pages!vars
  PROVE  LibraryInv'
<1> USE LibraryAssumption DEF LibraryInv, Dated, Pages!TypeOK
<1> DEFINE T == 0..LibraryTime
<1>0. \A n \in T : n \in Nat
  OBVIOUS
<1>1. ASSUME NEW r \in Scanner, NEW k \in Key, Pages!StartScan(r, k) PROVE LibraryInv'
  <2> DEFINE e == [key |-> k, at |-> scanTime, items |-> {}, ok |-> FALSE]
  <2>1. e \in Pages!Scan /\ e # NoEntry
    <3>1. scanTime \in T
      OBVIOUS
    <3>2. e \in Pages!Scan
      BY <3>1, Zenon DEF Pages!Scan
    <3> QED
      BY <3>2 DEF Pages!Scan
  <2>2. /\ scan' = [scan EXCEPT ![r] = e] /\ scanPhase' = [scanPhase EXCEPT ![r] = "fetch"]
        /\ UNCHANGED <<scanTime, tagged, since, cache, target>>
    BY <1>1 DEF Pages!StartScan
  <2>3. Pages!TypeOK'
    BY <2>1, <2>2 DEF Pages!Scan
  <2>4. e.at = scanTime /\ ~e.ok /\ scanTime <= scanTime
    OBVIOUS
  <2> HIDE DEF e
  <2> QED
    BY <2>1, <2>2, <2>3, <2>4
<1>2. ASSUME NEW r \in Scanner, Pages!Fetch(r) PROVE LibraryInv'
  <2>1. /\ scanPhase[r] = "fetch" /\ scanPhase' = [scanPhase EXCEPT ![r] = "put"]
        /\ UNCHANGED <<scanTime, tagged, since, cache, target>>
    BY <1>2 DEF Pages!Fetch
  <2>2. scan[r] \in Pages!Scan /\ Dated(scan[r]) /\ ~scan[r].ok
    BY <2>1
  <2>3. CASE UNCHANGED scan
    BY <2>1, <2>2, <2>3
  <2>4. CASE scan' = [scan EXCEPT ![r].items = tagged, ![r].ok = TRUE]
    <3> DEFINE e == [[scan[r] EXCEPT !.items = tagged] EXCEPT !.ok = TRUE]
    <3>1. scan' = [scan EXCEPT ![r] = e]
      BY <2>4, <2>2
    <3>2. e \in Pages!Scan /\ e.at = scan[r].at /\ e.items = tagged /\ e # NoEntry
      BY <2>2 DEF Pages!Scan
    <3> HIDE DEF e
    <3>3. Pages!TypeOK'
      BY <2>1, <3>1, <3>2
    <3> QED
      BY <2>1, <2>2, <3>1, <3>2, <3>3
  <2> QED
    BY <1>2, <2>3, <2>4 DEF Pages!Fetch
<1>3. ASSUME NEW r \in Scanner, Pages!Put(r) PROVE LibraryInv'
  <2>1. /\ cache' = [cache EXCEPT ![scan[r].key] = scan[r]] /\ scan' = [scan EXCEPT ![r] = NoEntry]
        /\ scanPhase[r] = "put" /\ scanPhase' = [scanPhase EXCEPT ![r] = "idle"]
        /\ UNCHANGED <<scanTime, tagged, since, target>>
    BY <1>3 DEF Pages!Put, Pages!AsScanned
  <2>2. scan[r] \in Pages!Scan /\ Dated(scan[r])
    BY <2>1
  <2>3. scan[r].key \in Key
    BY <2>2 DEF Pages!Scan
  <2>4. Pages!TypeOK'
    BY <2>1, <2>2, <2>3
  <2> QED
    BY <2>1, <2>2, <2>3, <2>4
<1>4. ASSUME NEW r \in Tagger, NEW i \in Item, Pages!AddTag(r, i) PROVE LibraryInv'
  <2>1. /\ tagged' = tagged \cup {i} /\ target' = [target EXCEPT ![r] = i]
        /\ since' = IF i \in tagged THEN since ELSE [since EXCEPT ![i] = scanTime]
        /\ UNCHANGED <<scanTime, cache, scan, scanPhase>>
    BY <1>4 DEF Pages!AddTag, Pages!scanVars
  <2>2. \A j \in Item : since'[j] \in T /\ since'[j] <= scanTime
    BY <2>1
  <2>3. Pages!TypeOK'
    BY <2>1, <2>2
  <2>4. \A e \in Pages!Scan : Dated(e) => Dated(e)'
    <3> SUFFICES ASSUME NEW e \in Pages!Scan, Dated(e), e.ok, NEW j \in tagged', since'[j] < e.at PROVE j \in e.items
      BY <2>1
    <3>1. e.at \in T
      BY DEF Pages!Scan
    <3>2. j \in tagged
      BY <2>1, <3>1, <1>0
    <3> QED
      BY <2>1, <3>2
  <2> HIDE DEF Dated
  <2> QED
    BY <2>1, <2>2, <2>3, <2>4
<1>5. ASSUME NEW r \in Tagger, Pages!MarkTagged(r) PROVE LibraryInv'
  <2>1. /\ target[r] \in Item /\ target' = [target EXCEPT ![r] = NoItem]
        /\ UNCHANGED <<scanTime, tagged, since, scan, scanPhase>>
    BY <1>5 DEF Pages!MarkTagged, Pages!scanVars
  <2>2. cache' = [k \in Key |-> IF cache[k] # NoEntry /\ cache[k].ok
                               THEN [cache[k] EXCEPT !.items = @ \cup {target[r]}] ELSE cache[k]]
    BY <1>5 DEF Pages!MarkTagged
  <2>3. ASSUME NEW k \in Key
        PROVE /\ cache'[k] \in Pages!Scan \cup {NoEntry}
              /\ cache'[k] # NoEntry => Dated(cache'[k])
    <3>1. CASE cache[k] # NoEntry /\ cache[k].ok
      <4>1. cache[k] \in Pages!Scan /\ Dated(cache[k])
        BY <3>1
      <4>2. cache'[k] = [cache[k] EXCEPT !.items = @ \cup {target[r]}]
        BY <2>2, <3>1
      <4>3. /\ cache'[k] \in Pages!Scan /\ cache'[k].at = cache[k].at
            /\ cache'[k].items = cache[k].items \cup {target[r]}
        BY <4>1, <4>2, <2>1 DEF Pages!Scan
      <4> QED
        BY <3>1, <4>1, <4>3
    <3>2. CASE ~(cache[k] # NoEntry /\ cache[k].ok)
      BY <2>2, <3>2
    <3> QED
      BY <3>1, <3>2
  <2>4. Pages!TypeOK'
    BY <2>1, <2>2, <2>3
  <2>5. \A e : Dated(e) => Dated(e)'
    BY <2>1
  <2> HIDE DEF Dated
  <2> QED
    BY <2>1, <2>3, <2>4, <2>5
<1>6. ASSUME NEW r \in Tagger, Pages!LoseAnswer(r) PROVE LibraryInv'
  BY <1>6 DEF Pages!LoseAnswer, Pages!scanVars
<1>7. ASSUME NEW i \in Item, Pages!RemoveTag(i) PROVE LibraryInv'
  <2>1. /\ tagged' = tagged \ {i} /\ since' = [since EXCEPT ![i] = 0]
        /\ UNCHANGED <<scanTime, cache, scan, scanPhase, target>>
    BY <1>7 DEF Pages!RemoveTag, Pages!scanVars
  <2>2. \A j \in Item : since'[j] \in T /\ since'[j] <= scanTime
    BY <2>1
  <2>3. Pages!TypeOK'
    BY <2>1, <2>2
  <2>4. \A e : Dated(e) => Dated(e)'
    BY <2>1
  <2> HIDE DEF Dated
  <2> QED
    BY <2>1, <2>2, <2>3, <2>4
<1>8. CASE Pages!Tick
  <2>1. /\ scanTime' = scanTime + 1 /\ scanTime < LibraryTime
        /\ UNCHANGED <<tagged, since, cache, scan, scanPhase, target>>
    BY <1>8 DEF Pages!Tick, Pages!scanVars
  <2>2. Pages!TypeOK'
    BY <2>1
  <2>3. \A e \in Pages!Scan : Dated(e) => Dated(e)'
    <3> SUFFICES ASSUME NEW e \in Pages!Scan, Dated(e) PROVE e.at <= scanTime + 1
      BY <2>1
    <3>1. e.at \in T
      BY DEF Pages!Scan
    <3> QED
      BY <3>1
  <2>4. \A i \in Item : since'[i] <= scanTime'
    BY <2>1
  <2> HIDE DEF Dated
  <2> QED
    BY <2>1, <2>2, <2>3, <2>4
<1>9. CASE Pages!Restart
  BY <1>9 DEF Pages!Restart
<1>10. CASE UNCHANGED Pages!vars
  BY <1>10 DEF Pages!vars, Pages!scanVars
<1> HIDE DEF LibraryInv
<1> QED
  BY <1>1, <1>2, <1>3, <1>4, <1>5, <1>6, <1>7, <1>8, <1>9, <1>10 DEF Pages!Next

LEMMA LibraryInvHolds == Spec => []LibraryInv
<1>1. Init => LibraryInv
  BY LibraryAssumption DEF Init, Pages!Init, LibraryInv, Dated, Pages!TypeOK
<1>2. ASSUME LibraryInv, [Next]_vars PROVE LibraryInv'
  BY <1>2, LibraryInvInductive
     DEF Next, vars, libraryVars, Pages!vars, Pages!scanVars,
         Alone, BesideGates, BesideLibrary, BesideLogin, BesideHealth, BesideProgress, BesideStart
<1> QED
  BY <1>1, <1>2, PTL DEF Spec

\* However scans and tags overtake each other, an answer from the cache shows
\* every tag that is older than TTL (libraryScan, markTagged).
THEOREM AnswersAreRecent == Spec => []AnswerIsRecent
<1>1. LibraryInv => AnswerIsRecent
  <2> SUFFICES ASSUME LibraryInv, NEW k \in Key, Pages!Hit(k), cache[k].ok,
                      NEW i \in tagged, scanTime - since[i] > TTL
               PROVE  i \in cache[k].items
    BY DEF AnswerIsRecent, Pages!AnswerIsRecent
  <2> USE LibraryAssumption DEF LibraryInv, Pages!TypeOK
  <2>1. cache[k] \in Pages!Scan /\ Dated(cache[k]) /\ scanTime - cache[k].at <= TTL
    BY DEF Pages!Hit
  <2>2. cache[k].at \in 0..LibraryTime
    BY <2>1 DEF Pages!Scan
  <2>3. since[i] \in 0..LibraryTime
    OBVIOUS
  <2>4. since[i] < cache[k].at
    BY <2>1, <2>2, <2>3
  <2> QED
    BY <2>1, <2>4 DEF Dated
<1> QED
  BY <1>1, LibraryInvHolds, PTL

-----------------------------------------------------------------------------
(* The gates *)

\* The rows that a tick has come to release have torrents that qBittorrent did
\* not hold, or left out of its answer.
GateInv ==
    /\ status \in [Job -> {"none", "ready", "encoding", "ended", "deleted",
                          "waiting_for_seed", "waiting_for_hardlink"}]
    /\ download \in [Job -> Gate!Download \cup {NoDownload}]
    /\ batch \subseteq Job
    /\ \A j \in batch : status[j] # "none"
    /\ step = "release" => \A j \in batch : download[j] \in Gate!Download /\ download[j].hash \in absent

LEMMA ListedRows ==
  ASSUME NEW s PROVE Gate!Listed(s) \subseteq {j \in Job : status[j] = s}
BY DEF Gate!Listed, Gate!Rows

\* A row is let through by its gate, and keeps its download id.
LEMMA OpenIsTransition ==
  ASSUME GateInv, NEW j \in Job, NEW s \in {"waiting_for_seed", "waiting_for_hardlink"}, Gate!Open(j, s)
  PROVE  /\ status' = status \/ (status[j] = s /\ status' = [status EXCEPT ![j] = "ready"])
         /\ batch' = batch \ {j}
         /\ UNCHANGED <<download, torrents, links, step, absent>>
BY DEF Gate!Open, Gate!Transition, Gate!outside

LEMMA GateInvInductive ==
  ASSUME GateInv, Gate!Next \/ UNCHANGED Gate!vars
  PROVE  GateInv'
<1> USE GatesAssumption DEF GateInv
<1>1. CASE Gate!TickStarts
  <2>1. batch' \subseteq {j \in Job : status[j] = "waiting_for_seed"}
    BY <1>1, ListedRows DEF Gate!TickStarts
  <2> QED
    BY <1>1, <2>1 DEF Gate!TickStarts, Gate!rowVars, Gate!outside
<1>2. ASSUME NEW j \in Job, Gate!ReleaseUnknown(j) PROVE GateInv'
  BY <1>2, OpenIsTransition DEF Gate!ReleaseUnknown
<1>3. CASE Gate!AskQbit
  <2>1. ASSUME NEW j \in batch' PROVE download[j] \in Gate!Download /\ download[j].hash \in absent'
    <3>0. PICK answer \in Gate!Answer(Gate!Hashes) :
             /\ batch' = {k \in batch : Gate!Lower(download[k]) \notin answer}
             /\ absent' = absent \cup ({e.hash : e \in Gate!Hashes} \ {e.hash : e \in answer})
      BY <1>3 DEF Gate!AskQbit
    <3>1. j \in batch /\ Gate!Lower(download[j]) \notin answer
      BY <2>1, <3>0
    <3>2. download[j] \in Gate!Download /\ download[j].hash \in Hash
      BY <1>3, <3>1 DEF Gate!AskQbit, Gate!Download
    <3> DEFINE d == Gate!Lower(download[j])
    <3>3. d = [hash |-> download[j].hash, upper |-> FALSE]
      BY <3>2 DEF Gate!Lower, Gate!Download
    <3>4. d \in Gate!Hashes
      BY <3>1 DEF Gate!Hashes
    <3>5. d.hash = download[j].hash
      BY <3>3
    <3>6. ASSUME NEW e \in answer PROVE e.hash # download[j].hash
      <4>1. e = [hash |-> e.hash, upper |-> FALSE]
        BY <3>0 DEF Gate!Answer, Gate!Held
      <4> QED
        BY <3>1, <3>3, <4>1
    <3> QED
      BY <3>0, <3>2, <3>4, <3>5, <3>6
  <2> QED
    BY <1>3, <2>1 DEF Gate!AskQbit, Gate!rowVars, Gate!outside
<1>4. CASE Gate!QbitFails
  BY <1>4 DEF Gate!QbitFails, Gate!rowVars, Gate!outside
<1>5. ASSUME NEW j \in Job, Gate!ReleaseRow(j) PROVE GateInv'
  BY <1>5, OpenIsTransition DEF Gate!ReleaseRow
<1>6. CASE Gate!ListLinks
  <2>1. batch' \subseteq {j \in Job : status[j] = "waiting_for_hardlink"}
    BY <1>6, ListedRows DEF Gate!ListLinks
  <2> QED
    BY <1>6, <2>1 DEF Gate!ListLinks, Gate!rowVars, Gate!outside
<1>7. ASSUME NEW j \in Job, Gate!CheckLinks(j) PROVE GateInv'
  BY <1>7, OpenIsTransition DEF Gate!CheckLinks, Gate!rowVars, Gate!outside
<1>8. CASE Gate!TickEnds
  BY <1>8 DEF Gate!TickEnds, Gate!rowVars, Gate!outside
<1>9. ASSUME NEW j \in Job, Gate!InsertRow(j) PROVE GateInv'
  BY <1>9 DEF Gate!InsertRow, Gate!outside
<1>10. ASSUME NEW j \in Job, \/ Gate!ClaimRow(j) \/ Gate!GiveUpRow(j) \/ Gate!EndRow(j)
                              \/ Gate!RetryRow(j) \/ Gate!DeleteRow(j)
      PROVE  GateInv'
  BY <1>10 DEF Gate!ClaimRow, Gate!GiveUpRow, Gate!EndRow, Gate!RetryRow, Gate!DeleteRow, Gate!outside
<1>11. CASE Gate!Restart
  BY <1>11 DEF Gate!Restart, Gate!rowVars, Gate!outside
<1>12. CASE Gate!TorrentChanges
  BY <1>12 DEF Gate!TorrentChanges, Gate!rowVars
<1>13. ASSUME NEW j \in Job, Gate!LinksChange(j) PROVE GateInv'
  BY <1>13 DEF Gate!LinksChange, Gate!rowVars
<1>14. CASE UNCHANGED Gate!vars
  BY <1>14 DEF Gate!vars, Gate!rowVars, Gate!outside
<1> HIDE DEF GateInv
<1> QED
  BY <1>1, <1>2, <1>3, <1>4, <1>5, <1>6, <1>7, <1>8, <1>9, <1>10, <1>11, <1>12, <1>13, <1>14
     DEF Gate!Next, Gate!Tick

LEMMA GateInvHolds == Spec => []GateInv
<1>1. Init => GateInv
  BY DEF Init, Gate!Init, GateInv
<1>2. ASSUME GateInv, [Next]_vars PROVE GateInv'
  BY <1>2, GateInvInductive
     DEF Next, vars, gateVars, Gate!vars, Gate!rowVars, Gate!outside,
         Alone, BesideGates, BesideLibrary, BesideLogin, BesideHealth, BesideProgress, BesideStart
<1> QED
  BY <1>1, <1>2, PTL DEF Spec

\* A row with a torrent leaves the seed gate only if qBittorrent did not hold
\* the torrent, or left it out of an answer, at some time since rows were listed
\* (checkSeeding, TorrentsByHashes).
THEOREM ReleasesAreJustified == Spec => ReleaseIsJustified
<1> DEFINE Released(j) == status[j] = "waiting_for_seed" /\ status'[j] = "ready" /\ download[j] # NoDownload
<1>1. ASSUME GateInv, Gate!Next, NEW j \in Job, Released(j) PROVE download[j].hash \in absent
  <2>1. CASE \E k \in Job : Gate!ReleaseRow(k)
    <3>1. PICK k \in Job : Gate!ReleaseRow(k)
      BY <2>1
    <3>2. step = "release" /\ k \in batch /\ Gate!Open(k, "waiting_for_seed")
      BY <3>1 DEF Gate!ReleaseRow
    <3>3. j = k
      BY <1>1, <3>2, OpenIsTransition DEF GateInv
    <3> QED
      BY <1>1, <3>2, <3>3 DEF GateInv
  <2>2. CASE \E k \in Job : Gate!ReleaseUnknown(k)
    <3>1. PICK k \in Job : Gate!ReleaseUnknown(k)
      BY <2>2
    <3>2. download[k] = NoDownload /\ Gate!Open(k, "waiting_for_seed")
      BY <3>1 DEF Gate!ReleaseUnknown
    <3> QED
      BY <1>1, <3>2, OpenIsTransition DEF GateInv
  <2>3. CASE \E k \in Job : Gate!CheckLinks(k)
    BY <1>1, <2>3, OpenIsTransition DEF Gate!CheckLinks, Gate!rowVars, GateInv
  <2>4. CASE \E k \in Job : \/ Gate!InsertRow(k) \/ Gate!ClaimRow(k) \/ Gate!GiveUpRow(k) \/ Gate!EndRow(k)
                            \/ Gate!RetryRow(k) \/ Gate!DeleteRow(k)
    BY <1>1, <2>4 DEF Gate!InsertRow, Gate!ClaimRow, Gate!GiveUpRow, Gate!EndRow, Gate!RetryRow,
         Gate!DeleteRow, GateInv
  <2>5. CASE Gate!Restart
    BY <1>1, <2>5 DEF Gate!Restart, GateInv
  <2>6. CASE status' = status
    BY <1>1, <2>6
  <2> QED
    BY <1>1, <2>1, <2>2, <2>3, <2>4, <2>5, <2>6
       DEF Gate!Next, Gate!Tick, Gate!TickStarts, Gate!AskQbit, Gate!QbitFails, Gate!ListLinks,
           Gate!TickEnds, Gate!TorrentChanges, Gate!LinksChange, Gate!rowVars
<1>2. ASSUME GateInv, [Next]_vars
      PROVE  [\A j \in Job : Released(j) => download[j].hash \in absent]_(Gate!vars)
  BY <1>1, <1>2
     DEF Next, vars, gateVars, Gate!vars, Gate!rowVars, Gate!outside,
         Alone, BesideGates, BesideLibrary, BesideLogin, BesideHealth, BesideProgress, BesideStart
<1> QED
  BY <1>2, GateInvHolds, PTL DEF Spec, ReleaseIsJustified, Gate!ReleaseIsJustified

\* The gates let a row through whatever the other parts do to it since it was
\* listed, and what becomes of it is a move the jobs table promises: none is let
\* through that has been deleted, claimed or ended (TransitionJobStatus).
THEOREM GatesMoveRows == Spec => GatesKeepStatus
<1> DEFINE tab == [j \in Job |-> IF status[j] = "ended" THEN "failed" ELSE status[j]]
<1>1. Init => Gate!Table!NoRows
  BY DEF Init, Gate!Init, Gate!Table!NoRows
<1>2. ASSUME GateInv, Gate!Next PROVE [Gate!Table!Moves]_tab
  <2> USE DEF GateInv
  <2>1. ASSUME NEW j \in Job, NEW s \in {"waiting_for_seed", "waiting_for_hardlink"}, Gate!Open(j, s)
        PROVE  [Gate!Table!Moves]_tab
    <3>1. CASE status' = status
      BY <3>1
    <3>2. CASE status[j] = s /\ status' = [status EXCEPT ![j] = "ready"]
      <4>1. Gate!Table!Releases(j)
        BY <1>2, <3>2 DEF Gate!Table!Releases, Gate!Table!Waiting
      <4> QED
        BY <4>1 DEF Gate!Table!Moves
    <3> QED
      BY <1>2, <2>1, <3>1, <3>2, OpenIsTransition
  <2>2. ASSUME NEW j \in Job, Gate!InsertRow(j) PROVE [Gate!Table!Moves]_tab
    <3>1. Gate!Table!Inserts(j)
      BY <1>2, <2>2 DEF Gate!InsertRow, Gate!Table!Inserts, Gate!Table!Waiting
    <3> QED
      BY <3>1 DEF Gate!Table!Moves
  <2>3. ASSUME NEW j \in Job, Gate!ClaimRow(j) PROVE [Gate!Table!Moves]_tab
    <3>1. Gate!Table!Claims(j)
      BY <1>2, <2>3 DEF Gate!ClaimRow, Gate!Table!Claims
    <3> QED
      BY <3>1 DEF Gate!Table!Moves
  <2>4. ASSUME NEW j \in Job, Gate!EndRow(j) PROVE [Gate!Table!Moves]_tab
    <3>1. Gate!Table!Finishes(j) \/ Gate!Table!Requeues(j)
      BY <1>2, <2>4 DEF Gate!EndRow, Gate!Table!Finishes, Gate!Table!Requeues, Gate!Table!Terminal
    <3> QED
      BY <3>1 DEF Gate!Table!Moves
  <2>5. ASSUME NEW j \in Job, Gate!RetryRow(j) PROVE [Gate!Table!Moves]_tab
    <3>1. Gate!Table!Retries({j})
      BY <1>2, <2>5 DEF Gate!RetryRow, Gate!Table!Retries, Gate!Table!Terminal
    <3>2. {j} \in SUBSET Job
      OBVIOUS
    <3> QED
      BY <3>1, <3>2 DEF Gate!Table!Moves
  <2>6. ASSUME NEW j \in Job, Gate!DeleteRow(j) PROVE [Gate!Table!Moves]_tab
    <3>1. Gate!Table!Deletes({j})
      BY <1>2, <2>6 DEF Gate!DeleteRow, Gate!Waiting, Gate!Table!Deletes, Gate!Table!RowStatus,
           Gate!Table!Waiting, Gate!Table!Terminal
    <3>2. {j} \in SUBSET Job
      OBVIOUS
    <3> QED
      BY <3>1, <3>2 DEF Gate!Table!Moves
  <2>7. CASE Gate!Restart
    <3>1. UNCHANGED tab \/ Gate!Table!Recovers
      BY <1>2, <2>7 DEF Gate!Restart, Gate!Table!Recovers
    <3> QED
      BY <3>1 DEF Gate!Table!Moves
  <2>8. CASE status' = status
    BY <2>8
  <2>9. ASSUME NEW j \in Job, Gate!GiveUpRow(j) PROVE [Gate!Table!Moves]_tab
    <3>1. Gate!Table!GivesUp(j)
      BY <1>2, <2>9 DEF Gate!GiveUpRow, Gate!Table!GivesUp
    <3> QED
      BY <3>1 DEF Gate!Table!Moves
  <2> QED
    BY <1>2, <2>1, <2>2, <2>3, <2>4, <2>5, <2>6, <2>7, <2>8, <2>9
       DEF Gate!Next, Gate!Tick, Gate!TickStarts, Gate!AskQbit, Gate!QbitFails, Gate!ListLinks, Gate!CheckLinks,
           Gate!ReleaseRow, Gate!ReleaseUnknown, Gate!TickEnds, Gate!TorrentChanges, Gate!LinksChange, Gate!rowVars
<1>3. ASSUME GateInv, [Next]_vars PROVE [Gate!Table!Moves]_tab
  BY <1>2, <1>3
     DEF Next, vars, gateVars, Gate!vars, Gate!rowVars, Gate!outside,
         Alone, BesideGates, BesideLibrary, BesideLogin, BesideHealth, BesideProgress, BesideStart
<1> QED
  BY <1>1, <1>3, GateInvHolds, PTL DEF Spec, GatesKeepStatus, Gate!ImplementsStatus, Gate!Table!StatusSpec

\* The minutes from one time of a day to another, forwards.
MinutesFrom(a, b, day) == IF a <= b THEN b - a ELSE b + day - a

\* Whatever the length of a day, and whether or not the window goes over
\* midnight, it is open from its start until as long after as it lasts; one
\* that ends when it starts is never open (inEncodingWindow).
THEOREM WindowIsInterval ==
  ASSUME NEW day \in Nat, NEW now \in 0..(day - 1), NEW start \in 0..(day - 1), NEW end \in 0..(day - 1)
  PROVE  Gate!InWindow(now, start, end) <=> MinutesFrom(start, now, day) < MinutesFrom(start, end, day)
<1>1. CASE start <= end
  BY <1>1 DEF Gate!InWindow, MinutesFrom
<1>2. CASE end < start
  BY <1>2 DEF Gate!InWindow, MinutesFrom
<1> QED
  BY <1>1, <1>2

\* A set of natural numbers that is not empty has a least element.
LEMMA LeastNatural ==
  ASSUME NEW T, T \subseteq Nat, T # {}
  PROVE  \E n \in T : \A m \in T : n <= m
<1> DEFINE R == OpToRel(<, Nat)
<1>1. \E n \in T : \A m \in T : ~(<<m, n>> \in R)
  <2> HIDE DEF R
  <2>1. IsWellFoundedOn(R, Nat)
    BY NatLessThanWellFounded, Zenon DEF R
  <2> QED
    BY <2>1, WFMin
<1>2. \A n, m \in Nat : <<m, n>> \in R <=> m < n
  BY DEF OpToRel
<1> HIDE DEF R
<1>3. PICK n \in T : \A m \in T : ~(<<m, n>> \in R)
  BY <1>1
<1>4. ASSUME NEW m \in T PROVE n <= m
  <2>1. ~(m < n)
    BY <1>2, <1>3
  <2> QED
    BY <2>1
<1> QED
  BY <1>3, <1>4

\* A finite set of ids that is not empty has a last one: the one that the
\* fewest come after.
LEMMA LastId ==
  ASSUME NEW S \in SUBSET Nat, IsFiniteSet(S), S # {}
  PROVE  \E j \in S : \A k \in S : k <= j
<1> DEFINE Above(j) == {k \in S : k > j}
<1>1. \A j \in S : IsFiniteSet(Above(j)) /\ Cardinality(Above(j)) \in Nat
  BY FS_Subset, FS_CardinalityType
<1> DEFINE T == {Cardinality(Above(j)) : j \in S}
<1>2. PICK n \in T : \A m \in T : n <= m
  <2>1. T \subseteq Nat /\ T # {}
    BY <1>1
  <2> HIDE DEF T
  <2> QED
    BY <2>1, LeastNatural
<1>3. PICK j \in S : n = Cardinality(Above(j))
  BY <1>2
<1>4. ASSUME NEW k \in S, k > j PROVE FALSE
  <2>1. Above(k) \subseteq Above(j) /\ k \in Above(j) /\ k \notin Above(k)
    <3>1. ASSUME NEW l \in Above(k) PROVE l \in S /\ l > j
      BY <1>4, <3>1
    <3>2. k \in Above(j)
      BY <1>4
    <3>3. k \notin Above(k)
      OBVIOUS
    <3>4. Above(k) \subseteq Above(j)
      <4>1. ASSUME NEW l \in Above(k) PROVE l \in Above(j)
        BY <3>1
      <4> HIDE DEF Above
      <4> QED
        BY <4>1
    <3> HIDE DEF Above
    <3> QED
      BY <3>2, <3>3, <3>4
  <2>2. Above(k) # Above(j)
    BY <2>1
  <2>3. Cardinality(Above(k)) < Cardinality(Above(j))
    <3> HIDE DEF Above
    <3>1. Cardinality(Above(k)) <= Cardinality(Above(j))
      BY <1>1, <2>1, FS_Subset
    <3>2. Cardinality(Above(k)) # Cardinality(Above(j))
      BY <1>1, <2>1, <2>2, FS_Subset
    <3> QED
      BY <1>1, <3>1, <3>2
  <2>4. n <= Cardinality(Above(k))
    BY <1>2
  <2> QED
    BY <1>1, <1>3, <2>3, <2>4
<1> QED
  BY <1>4

\* Those of a set of ids that fewer than n come before are at most n.
LEMMA FirstIds ==
  ASSUME NEW S \in SUBSET Nat, IsFiniteSet(S), NEW n \in Nat \ {0}
  PROVE  LET F == {j \in S : Cardinality({k \in S : k < j}) < n}
         IN  IsFiniteSet(F) /\ Cardinality(F) <= n
<1> DEFINE Below(j) == {k \in S : k < j}
           F == {j \in S : Cardinality(Below(j)) < n}
<1>1. IsFiniteSet(F) /\ F \in SUBSET Nat
  BY FS_Subset
<1>2. CASE F = {}
  <2>1. IsFiniteSet(F) /\ Cardinality(F) <= n
    <3> HIDE DEF F
    <3> QED
      BY <1>1, <1>2, FS_EmptySet
  <2> HIDE DEF F, Below
  <2> QED
    BY <2>1 DEF F, Below
<1>3. CASE F # {}
  <2>1. PICK j \in F : \A k \in F : k <= j
    <3> HIDE DEF F
    <3> QED
      BY <1>1, <1>3, LastId
  <2>2. F \subseteq Below(j) \cup {j}
    <3>1. ASSUME NEW k \in F PROVE k \in Below(j) \cup {j}
      <4>1. k \in S /\ j \in S
        OBVIOUS
      <4>2. k <= j
        <5> HIDE DEF F
        <5> QED
          BY <2>1
      <4> QED
        BY <4>1, <4>2
    <3> HIDE DEF F, Below
    <3> QED
      BY <3>1
  <2>3. IsFiniteSet(Below(j)) /\ Cardinality(Below(j)) \in Nat /\ Cardinality(Below(j)) < n
    BY FS_Subset, FS_CardinalityType
  <2>4. j \notin Below(j)
    OBVIOUS
  <2>5. /\ IsFiniteSet(Below(j) \cup {j})
        /\ Cardinality(Below(j) \cup {j}) = Cardinality(Below(j)) + 1
    <3> HIDE DEF Below
    <3> QED
      BY <2>3, <2>4, FS_AddElement
  <2>6. Cardinality(F) <= Cardinality(Below(j) \cup {j})
    <3> HIDE DEF F, Below
    <3> QED
      BY <2>2, <2>5, FS_Subset
  <2>7. Cardinality(F) \in Nat
    <3> HIDE DEF F
    <3> QED
      BY <1>1, FS_CardinalityType
  <2>8. IsFiniteSet(F) /\ Cardinality(F) <= n
    <3> HIDE DEF F, Below
    <3> QED
      BY <1>1, <2>3, <2>5, <2>6, <2>7
  <2> HIDE DEF F, Below
  <2> QED
    BY <2>8 DEF F, Below
<1> QED
  BY <1>2, <1>3

\* Gates brings the same Cardinality.
LEMMA SameSize == \A S : Gate!Cardinality(S) = Cardinality(S)
BY DEF Gate!Cardinality, Cardinality

LEMMA FewAreListed ==
  ASSUME NEW s
  PROVE  IsFiniteSet(Gate!Listed(s)) /\ Cardinality(Gate!Listed(s)) <= BatchLimit
<1> DEFINE S == {j \in Job : status[j] = s}
<1>1. S \in SUBSET Nat /\ IsFiniteSet(S)
  BY RowAssumption, FS_Subset
<1>2. Gate!Listed(s) = {j \in S : Cardinality({k \in S : k < j}) < BatchLimit}
  <2>1. Gate!Rows(s) = S
    BY DEF Gate!Rows
  <2>2. ASSUME NEW j \in S PROVE Gate!Before(j) = {k \in S : k < j}
    BY <2>1, <2>2 DEF Gate!Before
  <2>3. Gate!Listed(s) = {j \in S : Cardinality(Gate!Before(j)) < BatchLimit}
    BY <2>1, SameSize DEF Gate!Listed
  <2> HIDE DEF S
  <2> QED
    BY <2>2, <2>3
<1> HIDE DEF S
<1>3. BatchLimit \in Nat \ {0}
  BY GatesAssumption
<1> QED
  BY <1>1, <1>2, <1>3, FirstIds

\* A tick has no more rows before it than it may list.
BatchIsLimited == IsFiniteSet(batch) /\ Cardinality(batch) <= BatchLimit

\* For every table and limit: a tick asks qBittorrent about, or looks up the
\* links of, at most SeedCheckBatchLimit rows, however many wait (checkSeeding,
\* checkHardlinks).
THEOREM BatchesAreLimited == Spec => []BatchIsLimited
<1>1. IsFiniteSet({}) /\ Cardinality({}) <= BatchLimit
  BY GatesAssumption, FS_EmptySet
<1>2. Init => BatchIsLimited
  BY <1>1 DEF Init, Gate!Init, BatchIsLimited
<1>3. ASSUME BatchIsLimited, Gate!Next PROVE BatchIsLimited'
  <2>1. CASE batch' \subseteq batch
    <3>1. IsFiniteSet(batch') /\ Cardinality(batch') <= Cardinality(batch)
      BY <1>3, <2>1, FS_Subset DEF BatchIsLimited
    <3>2. Cardinality(batch') \in Nat /\ Cardinality(batch) \in Nat /\ BatchLimit \in Nat
      BY <1>3, <3>1, FS_CardinalityType, GatesAssumption DEF BatchIsLimited
    <3> QED
      BY <1>3, <3>1, <3>2 DEF BatchIsLimited
  <2>2. CASE batch' = Gate!Listed("waiting_for_seed") \/ batch' = Gate!Listed("waiting_for_hardlink")
    BY <2>2, FewAreListed DEF BatchIsLimited
  <2>3. CASE batch' = {}
    BY <1>1, <2>3 DEF BatchIsLimited
  <2> QED
    BY <1>3, <2>1, <2>2, <2>3
       DEF Gate!Next, Gate!Tick, Gate!TickStarts, Gate!AskQbit, Gate!QbitFails, Gate!ListLinks, Gate!CheckLinks,
           Gate!ReleaseRow, Gate!ReleaseUnknown, Gate!Open, Gate!TickEnds, Gate!InsertRow,
           Gate!ClaimRow, Gate!GiveUpRow, Gate!EndRow, Gate!RetryRow, Gate!DeleteRow, Gate!Restart, Gate!TorrentChanges, Gate!LinksChange
<1>4. ASSUME BatchIsLimited, [Next]_vars PROVE BatchIsLimited'
  BY <1>3, <1>4
     DEF Next, vars, gateVars, BatchIsLimited,
         Alone, BesideGates, BesideLibrary, BesideLogin, BesideHealth, BesideProgress, BesideStart
<1> QED
  BY <1>2, <1>4, PTL DEF Spec

\* What is left of a tick, by its step.
TickLeft(s) ==
    CASE s = "seeding" -> 3
      [] s = "release" -> 2
      [] s = "links"   -> 1
      [] OTHER         -> 0

LEMMA TickTable ==
  TickLeft("seeding") = 3 /\ TickLeft("release") = 2 /\ TickLeft("links") = 1 /\ TickLeft("sleep") = 0
BY DEF TickLeft

\* A tick that runs goes on to its next step, or has one row less before it;
\* nobody else but a restart moves it.
GateTicksDescend ==
    [][/\ Gate!Tick /\ step # "sleep" =>
             \/ TickLeft(step') < TickLeft(step)
             \/ step' = step /\ batch' \subseteq batch /\ batch' # batch
       /\ <<step, batch>>' # <<step, batch>> => Gate!Tick \/ Gate!Restart]_(Gate!vars)

\* For every table and limit, with BatchesAreLimited: a tick ends after at most
\* one step per listed row and three of its own, whatever fails and whoever
\* retries or deletes rows meanwhile.  GatesOpen needs that to come back to a
\* row that could not be released before (checkSeeding, checkHardlinks).
THEOREM GateTicksComeToTheirEnd == Spec => GateTicksDescend
<1> DEFINE Down == /\ Gate!Tick /\ step # "sleep" =>
                         \/ TickLeft(step') < TickLeft(step)
                         \/ step' = step /\ batch' \subseteq batch /\ batch' # batch
                   /\ <<step, batch>>' # <<step, batch>> => Gate!Tick \/ Gate!Restart
<1>1. ASSUME Gate!Tick, step # "sleep"
      PROVE  \/ TickLeft(step') < TickLeft(step)
             \/ step' = step /\ batch' \subseteq batch /\ batch' # batch
  <2>1. CASE Gate!AskQbit \/ Gate!QbitFails \/ Gate!ListLinks \/ Gate!TickEnds
    BY <2>1, TickTable DEF Gate!AskQbit, Gate!QbitFails, Gate!ListLinks, Gate!TickEnds
  <2>2. ASSUME NEW j \in Job, Gate!ReleaseUnknown(j) \/ Gate!ReleaseRow(j) \/ Gate!CheckLinks(j)
        PROVE  step' = step /\ batch' \subseteq batch /\ batch' # batch
    <3>1. j \in batch /\ batch' = batch \ {j} /\ step' = step
      BY <2>2 DEF Gate!ReleaseUnknown, Gate!ReleaseRow, Gate!CheckLinks, Gate!Open
    <3> QED
      BY <3>1
  <2> QED
    BY <1>1, <2>1, <2>2 DEF Gate!Tick, Gate!TickStarts
<1>2. ASSUME Gate!Next PROVE Down
  <2>1. CASE Gate!Tick \/ Gate!Restart
    BY <1>1, <2>1
  <2>2. CASE UNCHANGED <<step, batch>> /\ ~Gate!Tick
    BY <2>2
  <2>3. UNCHANGED <<step, batch>> \/ Gate!Tick \/ Gate!Restart
    BY <1>2
       DEF Gate!Next, Gate!InsertRow, Gate!ClaimRow, Gate!GiveUpRow, Gate!EndRow, Gate!RetryRow, Gate!DeleteRow,
           Gate!TorrentChanges, Gate!LinksChange
  <2> QED
    BY <2>1, <2>2, <2>3
<1>3. [Next]_vars =>
        [/\ Gate!Tick /\ step # "sleep" =>
              \/ TickLeft(step') < TickLeft(step)
              \/ step' = step /\ batch' \subseteq batch /\ batch' # batch
         /\ <<step, batch>>' # <<step, batch>> => Gate!Tick \/ Gate!Restart]_(Gate!vars)
  BY <1>2
     DEF Next, vars, gateVars, Gate!vars, Gate!rowVars, Gate!outside,
         Alone, BesideGates, BesideLibrary, BesideLogin, BesideHealth, BesideProgress, BesideStart
<1> QED
  BY <1>3, PTL DEF Spec, GateTicksDescend

-----------------------------------------------------------------------------
(* The login *)

\* An entry lets its client try again no later than the back-off after its
\* last failure, and there are no more entries than the limiter may hold.
LimiterInv ==
    /\ loginTime \in Nat
    /\ failures \in [Client -> 0..MaxFailures] /\ nextOK \in [Client -> Nat]
    /\ loginPhase \in [Request -> {"idle", "verify", "reset", "made", "session"}]
    /\ client \in [Request -> Client \cup {NoClient}]
    /\ \A r \in Request : loginPhase[r] \in {"verify", "reset"} => client[r] \in Client
    /\ \A c \in Client : failures[c] > 0 => nextOK[c] <= loginTime + Backoff(failures[c])
    /\ Cardinality(Door!Entries) <= MaxEntries

\* Login brings the same Cardinality.
LEMMA SameCardinality == \A S : Door!Cardinality(S) = Cardinality(S)
BY DEF Door!Cardinality, Cardinality

LEMMA EntriesFinite ==
  /\ IsFiniteSet(Door!Entries) /\ Cardinality(Door!Entries) \in Nat
  /\ \A kept \in SUBSET Door!Entries :
       /\ IsFiniteSet(kept) /\ Cardinality(kept) \in Nat
       /\ Cardinality(kept) <= Cardinality(Door!Entries)
       /\ Cardinality(kept) = Cardinality(Door!Entries) => kept = Door!Entries
<1>1. IsFiniteSet(Door!Entries)
  BY LoginAssumption, FS_Subset DEF Door!Entries
<1> QED
  BY <1>1, FS_Subset, FS_CardinalityType

\* A new entry makes room for itself.
LEMMA RoomForOne ==
  ASSUME LimiterInv, NEW c \in Client, NEW gone \in Door!Forgotten(c)
  PROVE  Cardinality((Door!Entries \ gone) \cup {c}) <= MaxEntries
<1> USE LoginAssumption DEF LimiterInv
<1>1. CASE failures[c] > 0
  <2>1. (Door!Entries \ gone) \cup {c} = Door!Entries
    BY <1>1 DEF Door!Forgotten, Door!Entries
  <2> QED
    BY <2>1
<1>2. CASE ~(failures[c] > 0)
  <2> DEFINE kept == Door!Entries \ Door!Swept
  <2>1. PICK out \in Door!Evicted(kept) : gone = Door!Swept \cup out
    BY <1>2 DEF Door!Forgotten
  <2>2. IsFiniteSet(kept) /\ Cardinality(kept) \in Nat /\ Cardinality(kept) <= MaxEntries
    BY EntriesFinite
  <2>3. c \notin kept
    BY <1>2 DEF Door!Entries
  <2>4. CASE Cardinality(kept) < MaxEntries
    <3>1. (Door!Entries \ gone) \cup {c} = kept \cup {c}
      BY <2>1, <2>4, SameCardinality DEF Door!Evicted
    <3>2. Cardinality(kept \cup {c}) = Cardinality(kept) + 1
      BY <2>2, <2>3, FS_AddElement
    <3> HIDE DEF kept
    <3>3. Cardinality(kept) + 1 <= MaxEntries
      BY <2>2, <2>4
    <3> QED
      BY <3>1, <3>2, <3>3
  <2>5. CASE ~(Cardinality(kept) < MaxEntries)
    <3>1. PICK d \in kept : out = {d}
      BY <2>1, <2>5, SameCardinality DEF Door!Evicted
    <3>2. (Door!Entries \ gone) \cup {c} = (kept \ {d}) \cup {c}
      BY <2>1, <3>1
    <3>3. IsFiniteSet(kept \ {d}) /\ Cardinality(kept \ {d}) = Cardinality(kept) - 1
      BY <2>2, <3>1, FS_RemoveElement
    <3> HIDE DEF kept
    <3>4. Cardinality((kept \ {d}) \cup {c}) = Cardinality(kept \ {d}) + 1
      BY <2>3, <3>3, FS_AddElement
    <3>5. Cardinality((kept \ {d}) \cup {c}) = Cardinality(kept)
      BY <2>2, <3>3, <3>4
    <3> QED
      BY <2>2, <3>2, <3>5
  <2> QED
    BY <2>4, <2>5
<1> QED
  BY <1>1, <1>2

\* What a failure does to the entries.
LEMMA FailureIsRegistered ==
  ASSUME LimiterInv, NEW c \in Client, Door!RegisterFailure(c)
  PROVE  \E gone \in Door!Forgotten(c), n \in 1..MaxFailures :
           /\ n >= failures[c]
           /\ failures' = [d \in Client |-> IF d = c THEN n ELSE IF d \in gone THEN 0 ELSE failures[d]]
           /\ nextOK' = [d \in Client |-> IF d = c THEN loginTime + Backoff(n)
                                         ELSE IF d \in gone THEN 0 ELSE nextOK[d]]
<1> DEFINE n == IF failures[c] < MaxFailures THEN failures[c] + 1 ELSE MaxFailures
<1>1. n \in 1..MaxFailures /\ n >= failures[c]
  BY LoginAssumption DEF LimiterInv
<1> QED
  BY <1>1 DEF Door!RegisterFailure

LEMMA LimiterInvInductive ==
  ASSUME LimiterInv, Door!Next \/ UNCHANGED Door!vars
  PROVE  LimiterInv'
<1> USE LoginAssumption DEF LimiterInv
<1> DEFINE Kept == UNCHANGED <<loginTime, failures, nextOK>>
<1>0. ASSUME Kept PROVE UNCHANGED Door!Entries
  BY <1>0 DEF Door!Entries
<1>1. ASSUME NEW r \in Request, NEW c \in Client, Door!StartLogin(r, c) PROVE LimiterInv'
  BY <1>1, <1>0 DEF Door!StartLogin, Door!Goes, Door!limiterVars
<1>2. ASSUME NEW r \in Request, Door!RightPassword(r) \/ Door!Setup(r) PROVE LimiterInv'
  BY <1>2, <1>0 DEF Door!RightPassword, Door!Setup, Door!Goes, Door!limiterVars
<1>3. ASSUME NEW r \in Request, Door!CreateSession(r) \/ Door!SetupVerifies(r) PROVE LimiterInv'
  BY <1>3, <1>0 DEF Door!CreateSession, Door!SetupVerifies, Door!Answered, Door!limiterVars
<1>4. ASSUME NEW r \in Request, Door!WrongPassword(r) PROVE LimiterInv'
  <2>1. /\ client[r] \in Client /\ Door!RegisterFailure(client[r])
        /\ loginTime' = loginTime
        /\ loginPhase' = [loginPhase EXCEPT ![r] = "idle"]
        /\ client' = [client EXCEPT ![r] = NoClient]
    BY <1>4 DEF Door!WrongPassword, Door!Answered
  <2> DEFINE c == client[r]
  <2>2. PICK gone \in Door!Forgotten(c), n \in 1..MaxFailures :
           /\ n >= failures[c]
           /\ failures' = [d \in Client |-> IF d = c THEN n ELSE IF d \in gone THEN 0 ELSE failures[d]]
           /\ nextOK' = [d \in Client |-> IF d = c THEN loginTime + Backoff(n)
                                         ELSE IF d \in gone THEN 0 ELSE nextOK[d]]
    BY <2>1, FailureIsRegistered
  <2>3. Backoff(n) \in Nat /\ n \in 0..MaxFailures
    OBVIOUS
  <2>4. failures' \in [Client -> 0..MaxFailures] /\ nextOK' \in [Client -> Nat]
    BY <2>2, <2>3
  <2>5. \A d \in Client : failures'[d] > 0 => nextOK'[d] <= loginTime + Backoff(failures'[d])
    BY <2>2, <2>3
  <2>6. Door!Entries' = (Door!Entries \ gone) \cup {c}
    BY <2>1, <2>2 DEF Door!Entries
  <2>7. Cardinality(Door!Entries)' <= MaxEntries
    BY <2>1, <2>6, RoomForOne
  <2> QED
    BY <2>1, <2>4, <2>5, <2>7
<1>5. ASSUME NEW r \in Request, Door!ResetClient(r) PROVE LimiterInv'
  <2>1. /\ failures' = [failures EXCEPT ![client[r]] = 0] /\ nextOK' = [nextOK EXCEPT ![client[r]] = 0]
        /\ loginPhase' = [loginPhase EXCEPT ![r] = "session"]
        /\ client' = client /\ loginTime' = loginTime /\ client[r] \in Client
    BY <1>5 DEF Door!ResetClient, Door!Goes, Door!Forget
  <2>2. Door!Entries' \in SUBSET Door!Entries
    BY <2>1 DEF Door!Entries
  <2>3. Cardinality(Door!Entries)' <= MaxEntries
    BY <2>2, EntriesFinite
  <2> QED
    BY <2>1, <2>3
<1>6. CASE (\E t \in Token : Door!EndSession(t)) \/ Door!ResetAdmin
  BY <1>6, <1>0 DEF Door!EndSession, Door!ResetAdmin, Door!limiterVars, Door!requestVars
<1>7. CASE Door!Tick
  <2>1. loginTime' = loginTime + 1 /\ UNCHANGED <<failures, nextOK, loginPhase, client>>
    BY <1>7 DEF Door!Tick, Door!limiterVars, Door!requestVars
  <2>2. UNCHANGED Door!Entries
    BY <2>1 DEF Door!Entries
  <2> QED
    BY <2>1, <2>2
<1>8. CASE Door!Restart
  <2>1. /\ failures' = [c \in Client |-> 0] /\ nextOK' = [c \in Client |-> 0]
        /\ loginPhase' = [r \in Request |-> "idle"] /\ client' = [r \in Request |-> NoClient]
        /\ loginTime' = loginTime
    BY <1>8 DEF Door!Restart
  <2>2. Door!Entries' = {}
    BY <2>1 DEF Door!Entries
  <2> QED
    BY <2>1, <2>2, FS_EmptySet
<1>9. CASE UNCHANGED Door!vars
  BY <1>9, <1>0 DEF Door!vars, Door!limiterVars, Door!requestVars
<1> HIDE DEF LimiterInv
<1> QED
  BY <1>1, <1>2, <1>3, <1>4, <1>5, <1>6, <1>7, <1>8, <1>9 DEF Door!Next, Door!Handle

LEMMA LimiterInvHolds == Spec => []LimiterInv
<1>1. Init => LimiterInv
  <2> SUFFICES ASSUME Init PROVE LimiterInv
    OBVIOUS
  <2>1. Door!Entries = {}
    BY DEF Init, Door!Init, Door!Entries
  <2> QED
    BY <2>1, LoginAssumption, FS_EmptySet DEF Init, Door!Init, LimiterInv
<1>2. ASSUME LimiterInv, [Next]_vars PROVE LimiterInv'
  BY <1>2, LimiterInvInductive
     DEF Next, vars, loginVars, Door!vars, Door!limiterVars, Door!accountVars, Door!sessionVars,
          Door!requestVars,
         Alone, BesideGates, BesideLibrary, BesideLogin, BesideHealth, BesideProgress, BesideStart
<1> QED
  BY <1>1, <1>2, PTL DEF Spec

\* What may end a lockout.
Ended(c) ==
    \/ failures'[c] > 0 /\ nextOK'[c] >= nextOK[c]
    \/ \E r \in Request : Door!ResetClient(r) /\ client[r] = c
    \/ Door!Restart
    \/ Cardinality(Door!Entries) >= MaxEntries /\ \A d \in Door!Entries : Door!Locked(d)

LEMMA FailureKeepsLockout ==
  ASSUME LimiterInv, NEW c \in Client, Door!Locked(c), NEW r \in Request, Door!WrongPassword(r)
  PROVE  Ended(c)
<1> USE LoginAssumption DEF LimiterInv
<1> DEFINE d == client[r]
<1>1. d \in Client /\ Door!RegisterFailure(d)
  BY DEF Door!WrongPassword
<1>2. PICK gone \in Door!Forgotten(d), n \in 1..MaxFailures :
         /\ n >= failures[d]
         /\ failures' = [e \in Client |-> IF e = d THEN n ELSE IF e \in gone THEN 0 ELSE failures[e]]
         /\ nextOK' = [e \in Client |-> IF e = d THEN loginTime + Backoff(n)
                                       ELSE IF e \in gone THEN 0 ELSE nextOK[e]]
  BY <1>1, FailureIsRegistered
<1>3. failures[c] > 0 /\ nextOK[c] > loginTime
  BY DEF Door!Locked
<1>4. CASE c = d
  <2>1. n \in 0..MaxFailures /\ failures[c] \in 0..MaxFailures /\ failures[c] <= n
    BY <1>2, <1>4
  <2>2. Backoff(failures[c]) <= Backoff(n) /\ Backoff(n) \in Nat /\ Backoff(failures[c]) \in Nat
    BY <2>1
  <2>3. nextOK[c] <= loginTime + Backoff(failures[c])
    BY <1>3
  <2>4. failures'[c] = n /\ nextOK'[c] = loginTime + Backoff(n)
    BY <1>2, <1>4
  <2> QED
    BY <2>2, <2>3, <2>4 DEF Ended
<1>5. CASE c # d /\ c \notin gone
  BY <1>2, <1>3, <1>5 DEF Ended
<1>6. CASE c # d /\ c \in gone
  <2> DEFINE kept == Door!Entries \ Door!Swept
  <2>1. PICK out \in Door!Evicted(kept) : gone = Door!Swept \cup out
    BY <1>6 DEF Door!Forgotten
  <2>2. c \notin Door!Swept
    BY <1>3 DEF Door!Swept
  <2>3. /\ ~(Cardinality(kept) < MaxEntries)
        /\ \A e \in kept : nextOK[c] <= nextOK[e]
    BY <1>6, <2>1, <2>2, SameCardinality DEF Door!Evicted
  <2>4. kept = Door!Entries
    BY <2>3, EntriesFinite
  <2>5. Cardinality(Door!Entries) >= MaxEntries
    BY <2>3, <2>4, EntriesFinite
  <2>6. \A e \in Door!Entries : Door!Locked(e)
    BY <1>3, <2>3, <2>4 DEF Door!Locked, Door!Entries
  <2> QED
    BY <2>5, <2>6 DEF Ended
<1> QED
  BY <1>4, <1>5, <1>6

\* A client stays locked out until its time, whatever others and its own
\* earlier requests do, with the exceptions named (LoginLimiter).
THEOREM LockoutsAreKept == Spec => LockoutIsKept
<1>1. ASSUME LimiterInv, Door!Next, NEW c \in Client, Door!Locked(c) PROVE Ended(c)
  <2>1. failures[c] > 0 /\ nextOK[c] \in Nat
    BY <1>1 DEF LimiterInv, Door!Locked
  <2>2. CASE UNCHANGED <<failures, nextOK>>
    BY <2>1, <2>2 DEF Ended
  <2>3. CASE \E r \in Request : Door!WrongPassword(r)
    BY <1>1, <2>3, FailureKeepsLockout
  <2>4. CASE \E r \in Request : Door!ResetClient(r)
    <3>1. PICK r \in Request : Door!ResetClient(r)
      BY <2>4
    <3>2. failures' = [failures EXCEPT ![client[r]] = 0] /\ nextOK' = [nextOK EXCEPT ![client[r]] = 0]
      BY <3>1 DEF Door!ResetClient, Door!Forget
    <3>3. CASE client[r] = c
      BY <3>1, <3>3 DEF Ended
    <3>4. CASE client[r] # c
      BY <1>1, <2>1, <3>2, <3>4 DEF Ended, LimiterInv
    <3> QED
      BY <3>3, <3>4
  <2>5. CASE Door!Restart
    BY <2>5 DEF Ended
  <2> QED
    BY <1>1, <2>2, <2>3, <2>4, <2>5
       DEF Door!Next, Door!Handle, Door!StartLogin, Door!RightPassword, Door!Setup, Door!CreateSession,
           Door!SetupVerifies, Door!EndSession, Door!ResetAdmin, Door!Tick, Door!limiterVars
<1>2. ASSUME LimiterInv, [Next]_vars
      PROVE  [ \A c \in Client : Door!Locked(c) =>
                 \/ failures'[c] > 0 /\ nextOK'[c] >= nextOK[c]
                 \/ \E r \in Request : Door!ResetClient(r) /\ client[r] = c
                 \/ Door!Restart
                 \/ Door!Cardinality(Door!Entries) >= MaxEntries /\ \A d \in Door!Entries : Door!Locked(d)
             ]_(Door!vars)
  BY <1>1, <1>2, SameCardinality
     DEF Ended, Next, vars, loginVars, Door!vars, Door!limiterVars, Door!accountVars, Door!sessionVars,
          Door!requestVars,
         Alone, BesideGates, BesideLibrary, BesideLogin, BesideHealth, BesideProgress, BesideStart
<1> QED
  BY <1>2, LimiterInvHolds, PTL DEF Spec, LockoutIsKept, Door!LockoutIsKept

\* The table of the program is one of those: more failures, a longer wait.
THEOREM BackoffGrows == \A m, n \in Nat : m <= n => Door!BackoffFor(m) <= Door!BackoffFor(n)
<1>1. \A n \in Nat : Door!BackoffFor(n) =
        IF n <= 3 THEN 0 ELSE IF n = 4 THEN 2 ELSE IF n = 5 THEN 4 ELSE IF n = 6 THEN 8 ELSE
        IF n = 7 THEN 16 ELSE IF n = 8 THEN 30 ELSE IF n = 9 THEN 60 ELSE IF n = 10 THEN 120 ELSE 300
  <2> TAKE n \in Nat
  <2>1. n <= 3 \/ n = 4 \/ n = 5 \/ n = 6 \/ n = 7 \/ n = 8 \/ n = 9 \/ n = 10 \/ n > 10
    OBVIOUS
  <2> QED
    BY <2>1 DEF Door!BackoffFor
<1> QED
  BY <1>1

\* A session is of the account there is (CreateAdmin, CreateSession,
\* ResetAdmin).
SessionInv ==
    /\ SessionsAreOwned
    /\ sessions \in [Token -> Nat]
    /\ accounts \subseteq Nat /\ created \in Nat

LEMMA SessionInvInductive ==
  ASSUME SessionInv, Door!Next \/ UNCHANGED Door!vars
  PROVE  SessionInv'
<1> USE DEF SessionInv, SessionsAreOwned, Door!SessionsAreOwned
<1> DEFINE Kept == UNCHANGED <<accounts, created, sessions>>
<1>1. CASE Kept
  BY <1>1
<1>2. ASSUME NEW r \in Request, Door!Setup(r) PROVE SessionInv'
  <2>1. /\ accounts = {} /\ accounts' = {created'} /\ created' = created + 1
        /\ UNCHANGED sessions
    BY <1>2 DEF Door!Setup, Door!NoAdmin, Door!sessionVars
  <2>2. \A t \in Token : sessions[t] = 0
    BY <2>1
  <2> QED
    BY <2>1, <2>2
<1>3. ASSUME NEW r \in Request, Door!CreateSession(r) PROVE SessionInv'
  <2>1. accounts' = accounts /\ created' = created
    BY <1>3 DEF Door!CreateSession, Door!accountVars
  <2>2. CASE user[r] \in accounts
    <3>1. PICK t \in Token : sessions' = [sessions EXCEPT ![t] = user[r]]
      BY <1>3, <2>2 DEF Door!CreateSession, Door!Referable
    <3> QED
      BY <2>1, <2>2, <3>1
  <2>3. CASE user[r] \notin accounts
    BY <1>3, <2>1, <2>3 DEF Door!CreateSession, Door!Referable, Door!sessionVars
  <2> QED
    BY <2>2, <2>3
<1>4. ASSUME NEW t \in Token, Door!EndSession(t) PROVE SessionInv'
  BY <1>4 DEF Door!EndSession, Door!accountVars
<1>5. CASE Door!ResetAdmin
  BY <1>5 DEF Door!ResetAdmin
<1> HIDE DEF SessionInv
<1> QED
  BY <1>1, <1>2, <1>3, <1>4, <1>5
     DEF Door!Next, Door!Handle, Door!StartLogin, Door!RightPassword, Door!WrongPassword, Door!ResetClient,
         Door!SetupVerifies, Door!Tick, Door!Restart, Door!vars, Door!accountVars, Door!sessionVars

\* Whatever is reset, made anew and logged into at the same time, no session
\* outlives its account (CreateSession, ResetAdmin).
THEOREM SessionsStayOwned == Spec => []SessionsAreOwned
<1>1. Init => SessionInv
  BY DEF Init, Door!Init, SessionInv, SessionsAreOwned, Door!SessionsAreOwned
<1>2. ASSUME SessionInv, [Next]_vars PROVE SessionInv'
  BY <1>2, SessionInvInductive
     DEF Next, vars, loginVars, Door!vars, Door!limiterVars, Door!accountVars, Door!sessionVars,
          Door!requestVars,
         Alone, BesideGates, BesideLibrary, BesideLogin, BesideHealth, BesideProgress, BesideStart
<1>3. SessionInv => SessionsAreOwned
  BY DEF SessionInv
<1> QED
  BY <1>1, <1>2, <1>3, PTL DEF Spec

-----------------------------------------------------------------------------
(* The health checker *)

\* What has been told is what the ticker had found before, as far as it has
\* not yet reported the difference to what it has found now.
ReportInv ==
    /\ probePhase \in [Prober -> {"idle", "probe", "report"}]
    /\ told = (prev \ opened) \cup resolved
    /\ opened \subseteq prev /\ resolved \cap prev = {}
    /\ probePhase[Ticker] # "report" => opened = {} /\ resolved = {}

LEMMA ReportInvInductive ==
  ASSUME ReportInv, Checker!Next \/ UNCHANGED Checker!vars
  PROVE  ReportInv'
<1> USE HealthAssumption DEF ReportInv
<1>1. ASSUME NEW p \in Prober, Checker!StartProbe(p) PROVE ReportInv'
  BY <1>1 DEF Checker!StartProbe, Checker!reportVars
<1>2. ASSUME NEW p \in Prober, NEW i \in Issue, Checker!Look(p, i) PROVE ReportInv'
  BY <1>2 DEF Checker!Look, Checker!reportVars
<1>3. CASE Checker!StoreTick
  BY <1>3 DEF Checker!StoreTick, Checker!Before
<1>4. ASSUME NEW i \in Issue, Checker!Report(i) PROVE ReportInv'
  BY <1>4 DEF Checker!Report, Checker!probeVars
<1>5. CASE Checker!EndTick
  BY <1>5 DEF Checker!EndTick, Checker!reportVars
<1>6. ASSUME NEW p \in Prober, Checker!StoreSnapshot(p) PROVE ReportInv'
  BY <1>6 DEF Checker!StoreSnapshot, Checker!KeepPrev, Checker!reportVars
<1>7. CASE Checker!SnapshotAges \/ \E i \in Issue : Checker!ServiceChanges(i)
  BY <1>7 DEF Checker!SnapshotAges, Checker!ServiceChanges, Checker!probeVars, Checker!reportVars
<1>8. CASE Checker!Restart
  BY <1>8 DEF Checker!Restart
<1>9. CASE UNCHANGED Checker!vars
  BY <1>9 DEF Checker!vars, Checker!probeVars, Checker!reportVars
<1> HIDE DEF ReportInv
<1> QED
  BY <1>1, <1>2, <1>3, <1>4, <1>5, <1>6, <1>7, <1>8, <1>9 DEF Checker!Next, Checker!Tick

\* Of each issue the user is told in turn that it is there and that it is
\* over, though requests probe and store beside the ticker (tick, Snapshot).
THEOREM NoticesTakeTurns == Spec => NoticesAlternate
<1>1. Init => ReportInv
  BY DEF Init, Checker!Init, ReportInv
<1>2. ASSUME ReportInv, [Next]_vars PROVE ReportInv'
  BY <1>2, ReportInvInductive
     DEF Next, vars, healthVars, Checker!vars, Checker!probeVars, Checker!reportVars,
         Alone, BesideGates, BesideLibrary, BesideLogin, BesideHealth, BesideProgress, BesideStart
<1>3. ASSUME ReportInv, NEW i \in Issue, Checker!Report(i) PROVE (i \in told') # (i \in told)
  BY <1>3 DEF ReportInv, Checker!Report
<1>4. ReportInv => [\A i \in Issue : Checker!Report(i) => (i \in told') # (i \in told)]_(Checker!vars)
  BY <1>3
<1> QED
  BY <1>1, <1>2, <1>4, PTL DEF Spec, NoticesAlternate, Checker!NoticesAlternate

-----------------------------------------------------------------------------
(* The progress streams *)

\* The list of subscribers and the closed channels say where the handlers are;
\* a broadcast sends to channels that were in the list.
StreamInv ==
    /\ stream \in [Channel -> {"none", "snapshots", "open", "gone"}]
    /\ encodePhase \in [Encode -> {"idle", "encode", "ended", "broadcast", "last"}]
    /\ copied \in [Encode -> SUBSET Channel]
    /\ subscribers = {ch \in Channel : stream[ch] \in {"snapshots", "open"}}
    /\ closed = {ch \in Channel : stream[ch] = "gone"}
    /\ \A e \in Encode : \A ch \in copied[e] : stream[ch] # "none"
    /\ \A e \in Encode : encodePhase[e] \notin {"broadcast", "last"} => copied[e] = {}

LEMMA StreamInvInductive ==
  ASSUME StreamInv, Watch!Next \/ UNCHANGED Watch!vars
  PROVE  StreamInv'
<1> USE DEF StreamInv, Watch!streamVars, Watch!encodeVars
<1>1. ASSUME NEW e \in Encode, Watch!StartEncode(e) \/ Watch!EndEncode(e) PROVE StreamInv'
  BY <1>1 DEF Watch!StartEncode, Watch!EndEncode
<1>2. ASSUME NEW e \in Encode, Watch!Broadcast(e) PROVE StreamInv'
  BY <1>2 DEF Watch!Broadcast
<1>3. ASSUME NEW e \in Encode, NEW ch \in Channel, Watch!Send(e, ch) PROVE StreamInv'
  BY <1>3 DEF Watch!Send
<1>4. ASSUME NEW e \in Encode, Watch!Panic(e) PROVE StreamInv'
  BY <1>4 DEF Watch!Panic
<1>5. ASSUME NEW e \in Encode, Watch!EndBroadcast(e) PROVE StreamInv'
  BY <1>5 DEF Watch!EndBroadcast
<1>6. ASSUME NEW ch \in Channel, Watch!Subscribe(ch) PROVE StreamInv'
  BY <1>6 DEF Watch!Subscribe
<1>7. ASSUME NEW ch \in Channel, Watch!SendSnapshot(ch) PROVE StreamInv'
  BY <1>7 DEF Watch!SendSnapshot
<1>8. ASSUME NEW ch \in Channel, Watch!Receive(ch) PROVE StreamInv'
  BY <1>8 DEF Watch!Receive
<1>9. ASSUME NEW ch \in Channel, Watch!Unsubscribe(ch) PROVE StreamInv'
  BY <1>9 DEF Watch!Unsubscribe
<1>10. CASE UNCHANGED Watch!vars
  BY <1>10 DEF Watch!vars
<1> HIDE DEF StreamInv
<1> QED
  BY <1>1, <1>2, <1>3, <1>4, <1>5, <1>6, <1>7, <1>8, <1>9, <1>10 DEF Watch!Next, Watch!Sends

LEMMA StreamInvHolds == Spec => []StreamInv
<1>1. Init => StreamInv
  BY DEF Init, Watch!Init, StreamInv
<1>2. ASSUME StreamInv, [Next]_vars PROVE StreamInv'
  BY <1>2, StreamInvInductive
     DEF Next, vars, progressVars, Watch!vars, Watch!streamVars, Watch!encodeVars,
         Alone, BesideGates, BesideLibrary, BesideLogin, BesideHealth, BesideProgress, BesideStart
<1> QED
  BY <1>1, <1>2, PTL DEF Spec

\* A channel in the list of subscribers is open, and so is every channel a
\* broadcast has still to send to unless its browser has left since.
ListedChannelsAreOpen ==
    /\ subscribers \cap closed = {}
    /\ \A e \in Encode : copied[e] \cap closed \subseteq copied[e] \ subscribers

\* For every number of encodes and browsers: the mutex keeps the list and the
\* close of a channel together, so that a send can only panic on a channel that
\* was unsubscribed between the copy of the list and the send (Subscribe, broadcast).
THEOREM PanicsNeedDepartures == Spec => []ListedChannelsAreOpen
<1>1. StreamInv => ListedChannelsAreOpen
  BY DEF StreamInv, ListedChannelsAreOpen
<1> QED
  BY <1>1, StreamInvHolds, PTL

Sending(e) == encodePhase[e] \in {"broadcast", "last"}

\* A broadcast has one channel less before it with each of its steps, until it
\* ends; browsers that come, leave or do not read add none and take none.
BroadcastsDescend ==
    [][\A e \in Encode :
        Sending(e) /\ Sending(e)' =>
            /\ copied'[e] \subseteq copied[e]
            /\ Watch!Next /\ Watch!Sends(e) => copied'[e] # copied[e]]_vars

\* For every number of encodes, browsers and places in a channel, a broadcast
\* ends after at most one step per subscriber and one of its own: what
\* BroadcastEnds asks besides fairness (broadcast).
THEOREM BroadcastsComeToTheirEnd == Spec => BroadcastsDescend
<1> DEFINE Down(e) == Sending(e) /\ Sending(e)' =>
                        /\ copied'[e] \subseteq copied[e]
                        /\ Watch!Next /\ Watch!Sends(e) => copied'[e] # copied[e]
<1>1. ASSUME StreamInv, Watch!Next, NEW e \in Encode PROVE Down(e)
  <2> USE DEF StreamInv, Sending, Watch!encodeVars
  <2>1. ASSUME NEW f \in Encode, Watch!StartEncode(f) \/ Watch!EndEncode(f) \/ Watch!Broadcast(f) PROVE Down(e)
    BY <1>1, <2>1 DEF Watch!StartEncode, Watch!EndEncode, Watch!Broadcast,
                      Watch!Sends, Watch!Send, Watch!EndBroadcast, Watch!Panic
  <2>2. ASSUME NEW f \in Encode, NEW ch \in Channel, Watch!Send(f, ch) PROVE Down(e)
    BY <1>1, <2>2 DEF Watch!Send, Watch!Sends, Watch!EndBroadcast, Watch!Panic
  <2>3. ASSUME NEW f \in Encode, Watch!Panic(f) \/ Watch!EndBroadcast(f) PROVE Down(e)
    BY <1>1, <2>3 DEF Watch!Panic, Watch!EndBroadcast, Watch!Sends, Watch!Send
  <2>4. CASE \E ch \in Channel : \/ Watch!Subscribe(ch) \/ Watch!SendSnapshot(ch)
                                 \/ Watch!Receive(ch) \/ Watch!Unsubscribe(ch)
    BY <1>1, <2>4 DEF Watch!Subscribe, Watch!SendSnapshot, Watch!Receive, Watch!Unsubscribe,
                      Watch!Sends, Watch!Send, Watch!EndBroadcast, Watch!Panic
  <2> QED
    BY <1>1, <2>1, <2>2, <2>3, <2>4 DEF Watch!Next, Watch!Sends
<1>2. ASSUME StreamInv, [Next]_vars PROVE [\A e \in Encode : Down(e)]_vars
  <2>1. CASE Watch!Next
    BY <1>1, <1>2, <2>1
  <2>2. CASE UNCHANGED copied /\ ~Watch!Next
    BY <2>2
  <2>3. Watch!Next \/ UNCHANGED copied
    BY <1>2
       DEF Next, vars, progressVars,
           Alone, BesideGates, BesideLibrary, BesideLogin, BesideHealth, BesideProgress, BesideStart
  <2> QED
    BY <2>1, <2>2, <2>3
<1>3. StreamInv /\ [Next]_vars =>
        [\A e \in Encode :
            Sending(e) /\ Sending(e)' =>
                /\ copied'[e] \subseteq copied[e]
                /\ Watch!Next /\ Watch!Sends(e) => copied'[e] # copied[e]]_vars
  BY <1>2
<1> QED
  BY <1>3, StreamInvHolds, PTL DEF Spec, BroadcastsDescend

-----------------------------------------------------------------------------
(* The start of the database *)

\* The columns of a database that counts as migrated to v.
ColumnsOf(v) == IF v = Database!Last THEN Database!Column \ {Dropped} ELSE Database!ColumnsAt(v)

SchemaInv ==
    /\ tables \in BOOLEAN /\ versioned \in BOOLEAN
    /\ version \in 0..Database!Last \cup {Unversioned}
    /\ ~tables => columns = {}
    /\ version # Unversioned => versioned
    /\ version \in 1..Database!Last => tables /\ columns = ColumnsOf(version)
    /\ version \in {0, Unversioned} => columns \subseteq Legacy
    /\ version = 0 /\ tables => columns = Legacy
    /\ startPhase \in {"columns", "create", "stamp"} => tables /\ version = Unversioned
    /\ startPhase \in {"create", "stamp"} => columns = Legacy
    /\ startPhase = "stamp" => versioned
    /\ version = Unversioned /\ versioned => tables /\ columns = Legacy
    /\ startPhase = "up" /\ tables => versioned
    /\ startPhase \in {"seed", "seeding", "serve"} => version = Database!Last

LEMMA MigrationAdds ==
  /\ Database!Last \in Nat /\ Database!Last >= 2
  /\ Database!ColumnsAt(1) = Legacy
  /\ \A v \in 1..(Database!Last - 2) : Database!ColumnsAt(v + 1) = Database!ColumnsAt(v) \cup {Added[v]}
  /\ Database!ColumnsAt(Database!Last - 1) = Database!Column
  /\ 0 # Unversioned /\ 1 # Unversioned /\ Unversioned \notin 0..Database!Last
<1> USE StartAssumption DEF Database!Last, Database!ColumnsAt
<1>1. Database!ColumnsAt(1) = Legacy
  OBVIOUS
<1>2. ASSUME NEW v \in 1..(Database!Last - 2)
      PROVE  Database!ColumnsAt(v + 1) = Database!ColumnsAt(v) \cup {Added[v]}
  OBVIOUS
<1>3. Database!ColumnsAt(Database!Last - 1) = Database!Column
  BY DEF Database!Column, Database!AddedColumns
<1> QED
  BY <1>1, <1>2, <1>3

LEMMA SchemaInvInductive ==
  ASSUME SchemaInv, Database!Next \/ UNCHANGED Database!vars
  PROVE  SchemaInv'
<1> USE StartAssumption, MigrationAdds DEF SchemaInv, ColumnsOf
<1>1. CASE Database!OpenStore
  BY <1>1 DEF Database!OpenStore, Database!Goes, Database!dbVars
<1>2. CASE Database!AddColumn
  BY <1>2 DEF Database!AddColumn
<1>3. CASE Database!ColumnsAdded
  BY <1>3 DEF Database!ColumnsAdded, Database!Goes, Database!dbVars
<1>4. CASE Database!CreateVersions
  BY <1>4 DEF Database!CreateVersions, Database!Goes
<1>5. CASE Database!StampVersion
  <2>1. /\ version' = 1 /\ startPhase = "stamp" /\ startPhase' = "up"
        /\ UNCHANGED <<tables, columns, versioned, profiles>>
    BY <1>5 DEF Database!StampVersion, Database!Stamp, Database!Goes
  <2> QED
    BY <2>1
<1>6. CASE Database!StartVersions
  <2>1. CASE version' = 0 /\ versioned' = TRUE /\ UNCHANGED startPhase
    BY <1>6, <2>1 DEF Database!StartVersions
  <2>2. CASE versioned /\ startPhase' = "failed" /\ UNCHANGED <<versioned, version>>
    BY <1>6, <2>2 DEF Database!StartVersions
  <2> QED
    BY <1>6, <2>1, <2>2 DEF Database!StartVersions
<1>7. CASE Database!Migrate
  <2>1. /\ startPhase = "up" /\ version \in 0..(Database!Last - 1) /\ version' = version + 1
        /\ version' \in 1..Database!Last
        /\ UNCHANGED <<versioned, profiles, startPhase>>
    BY <1>7 DEF Database!Migrate
  <2>2. tables' /\ columns' = ColumnsOf(version')
    <3>1. CASE version = 0
      BY <1>7, <2>1, <3>1 DEF Database!Migrate
    <3>2. CASE version > 0 /\ version' < Database!Last
      <4>1. version \in 1..(Database!Last - 2)
        BY <2>1, <3>2
      <4>2. columns = Database!ColumnsAt(version) /\ tables' = tables /\ columns' = columns \cup {Added[version]}
        BY <1>7, <2>1, <3>2 DEF Database!Migrate
      <4> QED
        BY <2>1, <3>2, <4>1, <4>2
    <3>3. CASE version > 0 /\ version' = Database!Last
      <4>1. version = Database!Last - 1 /\ columns = Database!Column
        BY <2>1, <3>3
      <4> QED
        BY <1>7, <2>1, <3>3, <4>1 DEF Database!Migrate
    <3> QED
      BY <2>1, <3>1, <3>2, <3>3
  <2> HIDE DEF ColumnsOf
  <2>3. version' # Unversioned /\ version' # 0 /\ version' \in 0..Database!Last
    BY <2>1
  <2> QED
    BY <2>1, <2>2, <2>3
<1>8. CASE Database!Migrated
  BY <1>8 DEF Database!Migrated, Database!Goes, Database!dbVars
<1>9. CASE Database!CountProfiles \/ Database!Seeded \/ Database!SeedProfile
  BY <1>9 DEF Database!CountProfiles, Database!Seeded, Database!SeedProfile, Database!Goes, Database!dbVars
<1>10. CASE Database!Restart
  BY <1>10 DEF Database!Restart, Database!dbVars
<1>11. CASE UNCHANGED Database!vars
  BY <1>11 DEF Database!vars, Database!dbVars
<1> HIDE DEF SchemaInv
<1> QED
  BY <1>1, <1>2, <1>3, <1>4, <1>5, <1>6, <1>7, <1>8, <1>9, <1>10, <1>11 DEF Database!Next

\* For every set of old columns and every number of migrations, the program
\* serves with a complete schema only, wherever earlier starts have died
\* (adoptLegacyDB, migrate).
THEOREM SchemasAreComplete == Spec => []SchemaIsComplete
<1>1. Init => SchemaInv
  <2> SUFFICES ASSUME Init PROVE SchemaInv
    OBVIOUS
  <2> USE StartAssumption, MigrationAdds DEF SchemaInv, ColumnsOf
  <2>1. Database!Init
    BY DEF Init
  <2>2. CASE tables = FALSE /\ columns = {} /\ versioned = FALSE /\ version = Unversioned
    <3>1. startPhase = "open"
      BY <2>1 DEF Database!Init
    <3>2. tables \in BOOLEAN /\ versioned \in BOOLEAN
      BY <2>2
    <3>3. version \notin 0..Database!Last /\ version \notin 1..Database!Last /\ version # Database!Last /\ version # 0
      BY <2>2
    <3>4. ~versioned
      BY <2>2
    <3> QED
      BY <2>2, <3>1, <3>2, <3>3, <3>4
  <2>3. CASE tables = TRUE /\ columns \in SUBSET Legacy /\ versioned = FALSE /\ version = Unversioned
    <3>1. startPhase = "open"
      BY <2>1 DEF Database!Init
    <3>2. tables \in BOOLEAN /\ versioned \in BOOLEAN
      BY <2>3
    <3>3. version \notin 0..Database!Last /\ version \notin 1..Database!Last /\ version # Database!Last /\ version # 0
      BY <2>3
    <3>4. ~versioned
      BY <2>3
    <3> QED
      BY <2>3, <3>1, <3>2, <3>3, <3>4
  <2>4. CASE /\ tables = TRUE /\ versioned = TRUE
             /\ version \in 1..(Database!Last - 1) /\ columns = Database!ColumnsAt(version)
    <3>1. startPhase = "open"
      BY <2>1 DEF Database!Init
    <3>2. version # 0 /\ version # Unversioned /\ version # Database!Last /\ version \in 1..Database!Last
      BY <2>4
    <3> QED
      BY <2>4, <3>1, <3>2
  <2> QED
    BY <2>1, <2>2, <2>3, <2>4 DEF Database!Init
<1>2. ASSUME SchemaInv, [Next]_vars PROVE SchemaInv'
  BY <1>2, SchemaInvInductive
     DEF Next, vars, startVars, Database!vars, Database!dbVars,
         Alone, BesideGates, BesideLibrary, BesideLogin, BesideHealth, BesideProgress, BesideStart
<1>3. SchemaInv => SchemaIsComplete
  BY MigrationAdds DEF SchemaInv, SchemaIsComplete, Database!SchemaIsComplete, ColumnsOf
<1> QED
  BY <1>1, <1>2, <1>3, PTL DEF Spec

-----------------------------------------------------------------------------
(* Types *)

\* The rows, where the tick is and what is outside stay in their ranges.
LEMMA GateTypes ==
  ASSUME Gate!TypeOK, Gate!Next \/ UNCHANGED Gate!vars
  PROVE  Gate!TypeOK'
<1> USE GatesAssumption DEF Gate!TypeOK, Gate!Waiting, Gate!Works, Gate!Fails, Gate!rowVars, Gate!outside
<1>1. CASE Gate!TickStarts
  <2>1. batch' \subseteq Job
    BY <1>1 DEF Gate!TickStarts, Gate!Listed, Gate!Rows
  <2> QED
    BY <1>1, <2>1 DEF Gate!TickStarts
<1>2. ASSUME NEW j \in Job, NEW s \in Gate!Waiting, Gate!Open(j, s)
      PROVE  /\ status' \in [Job -> Gate!Waiting \cup {"none", "ready", "encoding", "ended", "deleted"}]
             /\ batch' \subseteq Job /\ gateFaults' \in 0..MaxFaults
             /\ UNCHANGED <<download, torrents, links, step, absent>>
  BY <1>2 DEF Gate!Open, Gate!Transition
<1>3. ASSUME NEW j \in Job, Gate!ReleaseUnknown(j) \/ Gate!ReleaseRow(j) PROVE Gate!TypeOK'
  BY <1>2, <1>3 DEF Gate!ReleaseUnknown, Gate!ReleaseRow
<1>4. CASE Gate!AskQbit
  <2>1. \A d \in Gate!Hashes : d.hash \in Hash
    <3>1. \A j \in batch : download[j] \in [hash : Hash, upper : BOOLEAN]
      BY <1>4 DEF Gate!AskQbit, Gate!Download
    <3> QED
      BY <3>1 DEF Gate!Hashes, Gate!Lower
  <2>2. \A answer : {d.hash : d \in Gate!Hashes} \ {d.hash : d \in answer} \subseteq Hash
    BY <2>1
  <2>3. batch' \subseteq batch
    BY <1>4 DEF Gate!AskQbit
  <2>4. absent' \subseteq Hash
    BY <1>4, <2>2 DEF Gate!AskQbit
  <2> QED
    BY <1>4, <2>3, <2>4 DEF Gate!AskQbit
<1>5. CASE Gate!QbitFails
  BY <1>5 DEF Gate!QbitFails
<1>6. CASE Gate!ListLinks
  <2>1. batch' \subseteq Job
    BY <1>6 DEF Gate!ListLinks, Gate!Listed, Gate!Rows
  <2> QED
    BY <1>6, <2>1 DEF Gate!ListLinks
<1>7. ASSUME NEW j \in Job, Gate!CheckLinks(j) PROVE Gate!TypeOK'
  <2>1. CASE Gate!Open(j, "waiting_for_hardlink")
    BY <1>2, <2>1
  <2>2. CASE batch' = batch \ {j} /\ UNCHANGED <<status, download, torrents, links, step, absent, gateFaults>>
    BY <2>2
  <2> QED
    BY <1>7, <2>1, <2>2 DEF Gate!CheckLinks
<1>8. CASE Gate!TickEnds
  BY <1>8 DEF Gate!TickEnds
<1>9. ASSUME NEW j \in Job, Gate!InsertRow(j) PROVE Gate!TypeOK'
  BY <1>9 DEF Gate!InsertRow
<1>10. ASSUME NEW j \in Job, Gate!ClaimRow(j) \/ Gate!GiveUpRow(j) \/ Gate!RetryRow(j) \/ Gate!DeleteRow(j)
       PROVE  Gate!TypeOK'
  BY <1>10 DEF Gate!ClaimRow, Gate!GiveUpRow, Gate!RetryRow, Gate!DeleteRow
<1>11. ASSUME NEW j \in Job, Gate!EndRow(j) PROVE Gate!TypeOK'
  BY <1>11 DEF Gate!EndRow
<1>12. CASE Gate!Restart
  BY <1>12 DEF Gate!Restart
<1>13. CASE Gate!TorrentChanges
  BY <1>13 DEF Gate!TorrentChanges
<1>14. ASSUME NEW j \in Job, Gate!LinksChange(j) PROVE Gate!TypeOK'
  BY <1>14 DEF Gate!LinksChange
<1>15. CASE UNCHANGED Gate!vars
  BY <1>15 DEF Gate!vars
<1> HIDE DEF Gate!TypeOK
<1> QED
  BY <1>1, <1>3, <1>4, <1>5, <1>6, <1>7, <1>8, <1>9, <1>10, <1>11, <1>12, <1>13, <1>14, <1>15
     DEF Gate!Next, Gate!Tick

\* Counts of failures stay below their cap, accounts and tokens in their tables.
LEMMA DoorTypes ==
  ASSUME Door!TypeOK, Door!Next \/ UNCHANGED Door!vars
  PROVE  Door!TypeOK'
<1> USE LoginAssumption
    DEF Door!TypeOK, Door!Account, Door!limiterVars, Door!accountVars, Door!sessionVars, Door!requestVars
<1>1. ASSUME NEW r \in Request, Door!Answered(r)
      PROVE  /\ loginPhase' \in [Request -> {"idle", "verify", "reset", "made", "session"}]
             /\ client' \in [Request -> Client \cup {NoClient}] /\ user' \in [Request -> 0..MaxAccounts]
  BY <1>1 DEF Door!Answered
<1>2. ASSUME NEW r \in Request, NEW c \in Client, Door!StartLogin(r, c) PROVE Door!TypeOK'
  BY <1>2 DEF Door!StartLogin, Door!Goes
<1>3. ASSUME NEW r \in Request, Door!RightPassword(r) PROVE Door!TypeOK'
  BY <1>3 DEF Door!RightPassword, Door!Goes
<1>4. ASSUME NEW r \in Request, Door!WrongPassword(r) PROVE Door!TypeOK'
  <2>1. PICK gone \in Door!Forgotten(client[r]) :
          LET n == IF failures[client[r]] < MaxFailures THEN failures[client[r]] + 1 ELSE MaxFailures IN
            /\ failures' = [d \in Client |-> IF d = client[r] THEN n ELSE IF d \in gone THEN 0 ELSE failures[d]]
            /\ nextOK' = [d \in Client |-> IF d = client[r] THEN loginTime + Backoff(n)
                                           ELSE IF d \in gone THEN 0 ELSE nextOK[d]]
    BY <1>4 DEF Door!WrongPassword, Door!RegisterFailure
  <2> DEFINE n == IF failures[client[r]] < MaxFailures THEN failures[client[r]] + 1 ELSE MaxFailures
  <2>2. client[r] \in Client => n \in 0..MaxFailures
    OBVIOUS
  <2>3. client[r] \in Client => loginTime + Backoff(n) \in Nat
    BY <2>2
  <2> HIDE DEF n
  <2>4. /\ failures' = [d \in Client |-> IF d = client[r] THEN n ELSE IF d \in gone THEN 0 ELSE failures[d]]
        /\ nextOK' = [d \in Client |-> IF d = client[r] THEN loginTime + Backoff(n)
                                       ELSE IF d \in gone THEN 0 ELSE nextOK[d]]
    BY <2>1 DEF n
  <2>5. failures' \in [Client -> 0..MaxFailures] /\ nextOK' \in [Client -> Nat]
    BY <2>2, <2>3, <2>4
  <2> QED
    BY <1>1, <1>4, <2>5 DEF Door!WrongPassword
<1>5. ASSUME NEW r \in Request, Door!ResetClient(r) PROVE Door!TypeOK'
  <2>1. /\ failures' = [failures EXCEPT ![client[r]] = 0] /\ nextOK' = [nextOK EXCEPT ![client[r]] = 0]
        /\ loginPhase' = [loginPhase EXCEPT ![r] = "session"]
        /\ UNCHANGED <<loginTime, accounts, created, sessions, issued, client, user>>
    BY <1>5 DEF Door!ResetClient, Door!Forget, Door!Goes
  <2>2. failures' \in [Client -> 0..MaxFailures] /\ nextOK' \in [Client -> Nat]
    <3>1. ASSUME NEW S, NEW f \in [Client -> S], 0 \in S
          PROVE  [f EXCEPT ![client[r]] = 0] \in [Client -> S]
      BY <3>1
    <3>2. 0 \in 0..MaxFailures /\ 0 \in Nat
      OBVIOUS
    <3> QED
      BY <2>1, <3>1, <3>2
  <2>3. loginPhase' \in [Request -> {"idle", "verify", "reset", "made", "session"}]
    BY <2>1
  <2> QED
    BY <2>1, <2>2, <2>3
<1>6. ASSUME NEW r \in Request, Door!CreateSession(r) PROVE Door!TypeOK'
  <2>1. /\ sessions' \in [Token -> 0..MaxAccounts] /\ issued' \subseteq Token
    BY <1>6 DEF Door!CreateSession
  <2> QED
    BY <1>1, <1>6, <2>1 DEF Door!CreateSession
<1>7. ASSUME NEW r \in Request, Door!Setup(r) PROVE Door!TypeOK'
  BY <1>7 DEF Door!Setup, Door!Goes
<1>8. ASSUME NEW r \in Request, Door!SetupVerifies(r) PROVE Door!TypeOK'
  BY <1>1, <1>8 DEF Door!SetupVerifies
<1>9. ASSUME NEW t \in Token, Door!EndSession(t) PROVE Door!TypeOK'
  BY <1>9 DEF Door!EndSession
<1>10. CASE Door!ResetAdmin
  BY <1>10 DEF Door!ResetAdmin
<1>12. CASE Door!Tick
  <2>1. loginTime' \in 0..LoginTime
    BY <1>12 DEF Door!Tick
  <2> QED
    BY <1>12, <2>1 DEF Door!Tick
<1>13. CASE Door!Restart
  BY <1>13 DEF Door!Restart
<1>11. CASE UNCHANGED Door!vars
  BY <1>11 DEF Door!vars
<1> HIDE DEF Door!TypeOK
<1> QED
  BY <1>2, <1>3, <1>4, <1>5, <1>6, <1>7, <1>8, <1>9, <1>10, <1>11, <1>12, <1>13 DEF Door!Next, Door!Handle

\* Probers and reports only know of issues there are.
LEMMA CheckerTypes ==
  ASSUME Checker!TypeOK, Checker!Next \/ UNCHANGED Checker!vars
  PROVE  Checker!TypeOK'
<1> USE HealthAssumption, GatesAssumption DEF Checker!TypeOK, Checker!probeVars, Checker!reportVars
<1>1. ASSUME NEW p \in Prober, Checker!StartProbe(p) PROVE Checker!TypeOK'
  BY <1>1 DEF Checker!StartProbe
<1>2. ASSUME NEW p \in Prober, NEW i \in Issue, Checker!Look(p, i) PROVE Checker!TypeOK'
  BY <1>2 DEF Checker!Look
<1>3. CASE Checker!StoreTick
  BY <1>3 DEF Checker!StoreTick, Checker!Before
<1>4. ASSUME NEW i \in Issue, Checker!Report(i) PROVE Checker!TypeOK'
  BY <1>4 DEF Checker!Report
<1>5. CASE Checker!EndTick
  BY <1>5 DEF Checker!EndTick
<1>6. ASSUME NEW p \in Prober, Checker!StoreSnapshot(p) PROVE Checker!TypeOK'
  BY <1>6 DEF Checker!StoreSnapshot, Checker!KeepPrev
<1>7. CASE Checker!SnapshotAges
  BY <1>7 DEF Checker!SnapshotAges
<1>10. CASE Checker!Restart
  <2>1. fresh' \in BOOLEAN
    BY <1>10 DEF Checker!Restart
  <2>2. last' = {} /\ prev' = {} /\ opened' = {} /\ resolved' = {} /\ told' = {} /\ down' = down
    BY <1>10 DEF Checker!Restart
  <2>3. /\ probePhase' = [p \in Prober |-> "idle"]
        /\ ahead' = [p \in Prober |-> {}] /\ found' = [p \in Prober |-> {}]
    BY <1>10 DEF Checker!Restart
  <2>4. probeFaults' \in 0..MaxFaults
    BY <1>10 DEF Checker!Restart
  <2> QED
    BY <2>1, <2>2, <2>3, <2>4
<1>8. ASSUME NEW i \in Issue, Checker!ServiceChanges(i) PROVE Checker!TypeOK'
  BY <1>8 DEF Checker!ServiceChanges
<1>9. CASE UNCHANGED Checker!vars
  BY <1>9 DEF Checker!vars
<1> HIDE DEF Checker!TypeOK
<1> QED
  BY <1>1, <1>2, <1>3, <1>4, <1>5, <1>6, <1>7, <1>8, <1>9, <1>10, HealthAssumption DEF Checker!Next,
       Checker!Tick

\* A channel never holds more than it has room for.
LEMMA WatchTypes ==
  ASSUME Watch!TypeOK, Watch!Next \/ UNCHANGED Watch!vars
  PROVE  Watch!TypeOK'
<1>0. \A S \in SUBSET Encode : Watch!Cardinality(S) \in 0..Watch!Cardinality(Encode)
  <2>1. \A S : Watch!Cardinality(S) = Cardinality(S)
    BY DEF Watch!Cardinality, Cardinality
  <2> QED
    BY <2>1, SizeAssumption, FS_Subset, FS_CardinalityType
<1> USE SizeAssumption DEF Watch!TypeOK, Watch!streamVars, Watch!encodeVars
<1>1. ASSUME NEW e \in Encode, Watch!StartEncode(e) \/ Watch!EndEncode(e) PROVE Watch!TypeOK'
  BY <1>1 DEF Watch!StartEncode, Watch!EndEncode
<1>2. ASSUME NEW e \in Encode, Watch!Broadcast(e) PROVE Watch!TypeOK'
  BY <1>2 DEF Watch!Broadcast
<1>3. ASSUME NEW e \in Encode, NEW ch \in Channel, Watch!Send(e, ch) PROVE Watch!TypeOK'
  BY <1>3 DEF Watch!Send, Watch!Offer
<1>4. ASSUME NEW e \in Encode, Watch!Panic(e) PROVE Watch!TypeOK'
  BY <1>4, <1>0 DEF Watch!Panic
<1>5. ASSUME NEW e \in Encode, Watch!EndBroadcast(e) PROVE Watch!TypeOK'
  BY <1>5 DEF Watch!EndBroadcast
<1>6. ASSUME NEW ch \in Channel, Watch!Subscribe(ch) PROVE Watch!TypeOK'
  BY <1>6, <1>0 DEF Watch!Subscribe
<1>7. ASSUME NEW ch \in Channel, Watch!SendSnapshot(ch) PROVE Watch!TypeOK'
  BY <1>7, <1>0 DEF Watch!SendSnapshot, Watch!Offer
<1>8. ASSUME NEW ch \in Channel, Watch!Receive(ch) PROVE Watch!TypeOK'
  BY <1>8 DEF Watch!Receive
<1>9. ASSUME NEW ch \in Channel, Watch!Unsubscribe(ch) PROVE Watch!TypeOK'
  BY <1>9 DEF Watch!Unsubscribe
<1>10. CASE UNCHANGED Watch!vars
  BY <1>10 DEF Watch!vars
<1> HIDE DEF Watch!TypeOK
<1> QED
  BY <1>1, <1>2, <1>3, <1>4, <1>5, <1>6, <1>7, <1>8, <1>9, <1>10 DEF Watch!Next, Watch!Sends

\* The database has columns that some release has, and no version beyond this one's.
LEMMA DatabaseTypes ==
  ASSUME Database!TypeOK, Database!Next \/ UNCHANGED Database!vars
  PROVE  Database!TypeOK'
<1> USE StartAssumption, SizeAssumption DEF Database!TypeOK, Database!dbVars, Database!Goes
<1>0. Legacy \subseteq Database!Column /\ Database!Last \in Nat /\ Database!Last >= 2
  BY DEF Database!Column, Database!Last
<1>1. CASE Database!OpenStore \/ Database!AddColumn \/ Database!ColumnsAdded \/ Database!CreateVersions
  BY <1>0, <1>1 DEF Database!OpenStore, Database!AddColumn, Database!ColumnsAdded, Database!CreateVersions
<1>2. CASE Database!StampVersion
  BY <1>0, <1>2 DEF Database!StampVersion, Database!Stamp
<1>3. CASE Database!StartVersions
  <2>1. CASE version' = 0 /\ versioned' = TRUE /\ UNCHANGED startPhase
    BY <1>0, <1>3, <2>1 DEF Database!StartVersions
  <2>2. CASE startPhase' = "failed" /\ UNCHANGED <<versioned, version>>
    BY <1>3, <2>2 DEF Database!StartVersions
  <2> QED
    BY <1>3, <2>1, <2>2 DEF Database!StartVersions
<1>4. CASE Database!Migrate
  <2>1. version \in 0..(Database!Last - 1) /\ version' = version + 1
    BY <1>0, <1>4 DEF Database!Migrate
  <2>2. version' \in 0..Database!Last
    BY <1>0, <2>1
  <2>3. columns' \subseteq Database!Column
    <3>1. version > 0 /\ version' < Database!Last => Added[version] \in Database!Column
      BY <1>0, <2>1 DEF Database!Column, Database!AddedColumns, Database!Last
    <3> QED
      BY <1>0, <1>4, <2>1, <3>1 DEF Database!Migrate
  <2> QED
    BY <1>4, <2>2, <2>3 DEF Database!Migrate
<1>5. CASE Database!Migrated \/ Database!CountProfiles \/ Database!SeedProfile \/ Database!Seeded
  BY <1>5 DEF Database!Migrated, Database!CountProfiles, Database!SeedProfile, Database!Seeded
<1>6. CASE Database!Restart \/ UNCHANGED Database!vars
  BY <1>6 DEF Database!Restart, Database!vars
<1> HIDE DEF Database!TypeOK
<1> QED
  BY <1>1, <1>2, <1>3, <1>4, <1>5, <1>6 DEF Database!Next

\* Every variable of the six parts stays in its range: batches and channels hold
\* what they may, an account is one of those created, a version one of those there are.
THEOREM ServicesTypes == Spec => []TypeOK
<1>1. Init => TypeOK
  <2> SUFFICES ASSUME Init PROVE TypeOK
    OBVIOUS
  <2>1. Gate!TypeOK
    BY GatesAssumption DEF Init, Gate!Init, Gate!TypeOK
  <2>2. Pages!TypeOK
    BY LibraryAssumption DEF Init, Pages!Init, Pages!TypeOK
  <2>3. Door!TypeOK
    BY LoginAssumption DEF Init, Door!Init, Door!TypeOK, Door!Account
  <2>4. Checker!TypeOK
    <3>1. Checker!Init
      BY DEF Init
    <3>2. fresh \in BOOLEAN
      BY <3>1 DEF Checker!Init
    <3>3. 0 \in 0..MaxFaults
      BY GatesAssumption
    <3> QED
      BY <3>1, <3>2, <3>3 DEF Checker!Init, Checker!TypeOK
  <2>5. Watch!TypeOK
    <3>1. Watch!Cardinality(Encode) \in Nat
      <4>1. Watch!Cardinality(Encode) = Cardinality(Encode)
        BY DEF Watch!Cardinality, Cardinality
      <4> QED
        BY <4>1, SizeAssumption, FS_CardinalityType
    <3> QED
      BY <3>1, SizeAssumption DEF Init, Watch!Init, Watch!TypeOK
  <2>6. Database!TypeOK
    <3>1. Database!Last \in Nat /\ Database!Last >= 2
      BY StartAssumption DEF Database!Last
    <3>2. \A v : Database!ColumnsAt(v) \subseteq Database!Column
      BY DEF Database!ColumnsAt, Database!Column, Database!AddedColumns
    <3>3. Database!Init
      BY DEF Init
    <3>4. columns \subseteq Database!Column
      BY <3>2, <3>3 DEF Database!Init, Database!Column
    <3>5. version \in 0..Database!Last \cup {Unversioned}
      BY <3>1, <3>3 DEF Database!Init
    <3>6. profiles \in 0..Defaults
      BY <3>3, SizeAssumption DEF Database!Init
    <3> QED
      BY <3>3, <3>4, <3>5, <3>6 DEF Database!Init, Database!TypeOK
  <2> QED
    BY <2>1, <2>2, <2>3, <2>4, <2>5, <2>6 DEF Init, TypeOK
<1>2. ASSUME LibraryInv, LibraryInv', TypeOK, [Next]_vars PROVE TypeOK'
  <2>1. part' = part
    BY <1>2 DEF Next, vars, Alone, BesideGates, BesideLibrary, BesideLogin, BesideHealth, BesideProgress,
         BesideStart
  <2>2. Gate!TypeOK'
    <3>1. Gate!Next \/ UNCHANGED Gate!vars
      BY <1>2
         DEF Next, vars, gateVars, Gate!vars, Gate!rowVars, Gate!outside,
             Alone, BesideGates, BesideLibrary, BesideLogin, BesideHealth, BesideProgress, BesideStart
    <3> QED
      BY <1>2, <3>1, GateTypes DEF TypeOK
  <2>3. Pages!TypeOK'
    BY <1>2 DEF LibraryInv
  <2>4. Door!TypeOK'
    <3>1. Door!Next \/ UNCHANGED Door!vars
      BY <1>2
         DEF Next, vars, loginVars, Door!vars, Door!limiterVars, Door!accountVars, Door!sessionVars,
              Door!requestVars,
             Alone, BesideGates, BesideLibrary, BesideLogin, BesideHealth, BesideProgress, BesideStart
    <3> QED
      BY <1>2, <3>1, DoorTypes DEF TypeOK
  <2>5. Checker!TypeOK'
    <3>1. Checker!Next \/ UNCHANGED Checker!vars
      BY <1>2
         DEF Next, vars, healthVars, Checker!vars, Checker!probeVars, Checker!reportVars,
             Alone, BesideGates, BesideLibrary, BesideLogin, BesideHealth, BesideProgress, BesideStart
    <3> QED
      BY <1>2, <3>1, CheckerTypes DEF TypeOK
  <2>6. Watch!TypeOK'
    <3>1. Watch!Next \/ UNCHANGED Watch!vars
      BY <1>2
         DEF Next, vars, progressVars, Watch!vars, Watch!streamVars, Watch!encodeVars,
             Alone, BesideGates, BesideLibrary, BesideLogin, BesideHealth, BesideProgress, BesideStart
    <3> QED
      BY <1>2, <3>1, WatchTypes DEF TypeOK
  <2>7. Database!TypeOK'
    <3>1. Database!Next \/ UNCHANGED Database!vars
      BY <1>2
         DEF Next, vars, startVars, Database!vars, Database!dbVars,
             Alone, BesideGates, BesideLibrary, BesideLogin, BesideHealth, BesideProgress, BesideStart
    <3> QED
      BY <1>2, <3>1, DatabaseTypes DEF TypeOK
  <2> QED
    BY <1>2, <2>1, <2>2, <2>3, <2>4, <2>5, <2>6, <2>7 DEF TypeOK
<1> QED
  BY <1>1, <1>2, LibraryInvHolds, PTL DEF Spec

=============================================================================
