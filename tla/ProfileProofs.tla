---------------------------- MODULE ProfileProofs ----------------------------
(***************************************************************************)
(* Theorems of ProfileChoice, for every set of instances, tags, files and  *)
(* profiles, and with or without failing statements.                       *)
(***************************************************************************)
EXTENDS ProfileChoice, WellFoundedInduction, TLAPS

\* What a row of tag_mappings is.
Mapping ==
    [id : 1..MaxMappings, kind : {"sonarr", "radarr", "both"}, tag : Tag, label : Label, profile : Profile]

\* A set of numbers has a least element.
LEMMA LeastExists ==
    ASSUME NEW S \in SUBSET Nat, S # {}
    PROVE  \E n \in S : \A k \in S : n <= k
<1>1. IsWellFoundedOn(OpToRel(<, Nat), Nat)
  BY NatLessThanWellFounded
<1>2. PICK n \in S : \A k \in S : ~ (<<k, n>> \in OpToRel(<, Nat))
  BY <1>1, WFMin
<1>3. \A k \in S : ~ (k < n)
  BY <1>2 DEF OpToRel
<1> QED
  BY <1>3

\* Some mappings have a first one ...
LEMMA FirstExists ==
    ASSUME NEW ms \in SUBSET Mapping, ms # {}
    PROVE  FirstOf(ms) \in ms
<1> DEFINE ids == {m.id : m \in ms}
<1>1. ids \in SUBSET Nat /\ ids # {}
  BY ProfileAssumption DEF Mapping
<1>2. PICK n \in ids : \A k \in ids : n <= k
  BY <1>1, LeastExists
<1>3. \E m \in ms : \A n_1 \in ms : m.id <= n_1.id
  BY <1>2
<1> QED
  BY <1>3 DEF FirstOf

\* ... and a last one.
LEMMA LastExists ==
    ASSUME NEW ms \in SUBSET Mapping, ms # {}
    PROVE  LastOf(ms) \in ms
<1> DEFINE ids == {MaxMappings - m.id : m \in ms}
<1>1. \A m \in ms : m.id \in Nat /\ MaxMappings - m.id \in Nat
  BY ProfileAssumption DEF Mapping
<1>2. ids \in SUBSET Nat /\ ids # {}
  BY <1>1
<1>3. PICK n \in ids : \A k \in ids : n <= k
  BY <1>2, LeastExists
<1>4. PICK m \in ms : n = MaxMappings - m.id
  BY <1>3
<1>5. ASSUME NEW k \in ms PROVE k.id <= m.id
  <2>1. MaxMappings - m.id <= MaxMappings - k.id
    BY <1>3, <1>4
  <2>2. m.id \in Nat /\ k.id \in Nat /\ MaxMappings \in Nat
    BY <1>1, ProfileAssumption
  <2> QED
    BY <2>1, <2>2
<1>6. \E x \in ms : \A k \in ms : k.id <= x.id
  BY <1>5
<1> QED
  BY <1>6 DEF LastOf

\* mapByTagID has what a mapping gives, or nothing.
LEMMA ByTagIDType ==
    ASSUME TypeOK, NEW kind, NEW t
    PROVE  ByTagID(kind, t) \in Choice \cup {NoMapping}
<1> DEFINE ms == {m \in MappingsOf(kind) : m.tag = t}
<1>1. ms \in SUBSET Mapping
  BY DEF TypeOK, Mapping, MappingsOf
<1>2. CASE ms = {}
  BY <1>2 DEF ByTagID
<1>3. CASE ms # {}
  <2>1. FirstOf(ms) \in Mapping
    BY <1>1, <1>3, FirstExists
  <2>2. ByTagID(kind, t) = [label |-> FirstOf(ms).label, profile |-> FirstOf(ms).profile]
    BY <1>3 DEF ByTagID
  <2> HIDE DEF ms
  <2> QED
    BY <2>1, <2>2 DEF Choice, Mapping
<1> QED
  BY <1>2, <1>3

\* The profile that reresolveProfile finds is one of a mapping.
LEMMA ByLabelMapped ==
    ASSUME TypeOK, NEW kind, NEW label
    PROVE  ByLabel(kind, label) \in {m.profile : m \in mappings} \cup {NoProfile}
<1> DEFINE ms == {m \in MappingsOf(kind) : m.label = label}
<1>1. ms \in SUBSET Mapping /\ ms \subseteq mappings
  BY DEF TypeOK, Mapping, MappingsOf
<1>2. CASE ms = {}
  BY <1>2 DEF ByLabel
<1>3. CASE ms # {}
  <2>1. LastOf(ms) \in mappings
    BY <1>1, <1>3, LastExists
  <2>2. ByLabel(kind, label) = LastOf(ms).profile
    BY <1>3 DEF ByLabel
  <2> HIDE DEF ms
  <2> QED
    BY <2>1, <2>2
<1> QED
  BY <1>2, <1>3

-----------------------------------------------------------------------------
(* The inductive invariant *)

\* A run has a row to work on: it waits for the claim or is encoding.
RunsHaveRows ==
    \A i \in Item :
        /\ run[i] = "listed" => job[i].status = "queued"
        /\ run[i] \in {"resolve", "update", "lookup", "encode"} => job[i].status = "encoding"

\* The run's copy of the row names the same profile as the row.
CopyIsRow ==
    \A i \in Item : (run[i] # "idle" /\ i \notin stale) => job[i].profile = given[i]

\* Only a profile that was mapped again has mappings though it is deleted.
MappedAreAlive ==
    \A m \in mappings : m.profile \notin deleted \ revived

\* From the look at the mappings to the end of the encode, the run is not
\* about to use a profile that was deleted when it claimed the row.
ChoiceIsAlive ==
    \A i \in Item :
        /\ gone[i] \subseteq deleted
        /\ run[i] = "update" => resolved[i] \notin gone[i] \ revived
        /\ (run[i] \in {"lookup", "encode"} /\ i \notin failed) => given[i] \notin gone[i] \ revived

Inv == TypeOK /\ RunsHaveRows /\ CopyIsRow /\ MappedAreAlive /\ ChoiceIsAlive

-----------------------------------------------------------------------------
(* Types *)

\* What a row of jobs is.
Row == [status : {"queued", "encoding", "over"}, profile : Profile \cup {NoProfile}, label : Label]

\* What a poll does keeps the types.
LEMMA PollTypeOK ==
    ASSUME TypeOK, Poll \/ PollFails
    PROVE  TypeOK'
<1> USE DEF TypeOK, arrVars
<1>1. CASE StartPoll
  BY <1>1 DEF StartPoll, configVars, runVars, historyVars
<1>2. ASSUME NEW s \in Instance, ReadMappings(s) PROVE TypeOK'
  <2>1. current' \in Instance \cup {NoInstance} /\ todo' \subseteq Instance
    BY <1>2 DEF ReadMappings
  <2>2. seen' \in [Tag -> Choice \cup {NoMapping}]
    BY <1>2, ByTagIDType DEF ReadMappings
  <2>3. UNCHANGED <<arrVars, configVars, job, found, runVars, historyVars>>
    BY <1>2 DEF ReadMappings
  <2> QED
    BY <2>1, <2>2, <2>3 DEF configVars, runVars, historyVars
<1>3. ASSUME NEW s \in Instance, FetchLibrary(s) PROVE TypeOK'
  <2>1. found' \in [Item -> Choice \cup {NoMapping}]
    BY <1>3 DEF FetchLibrary
  <2>2. seen' \in [Tag -> Choice \cup {NoMapping}] /\ current' \in Instance \cup {NoInstance}
    BY <1>3 DEF FetchLibrary
  <2>3. UNCHANGED <<arrVars, configVars, job, todo, runVars, historyVars>>
    BY <1>3 DEF FetchLibrary
  <2> QED
    BY <2>1, <2>2, <2>3 DEF configVars, runVars, historyVars
<1>4. ASSUME NEW i \in Item, QueueItem(i) PROVE TypeOK'
  <2>1. found' \in [Item -> Choice \cup {NoMapping}]
    BY <1>4 DEF QueueItem
  <2>2. found[i] \in Choice
    BY <1>4 DEF QueueItem
  <2>3. [status |-> "queued", profile |-> found[i].profile, label |-> found[i].label]
            \in [status : {"queued", "encoding", "over"}, profile : Profile \cup {NoProfile}, label : Label]
    BY <2>2 DEF Choice
  <2>4. job' \in [Item -> [status : {"queued", "encoding", "over"}, profile : Profile \cup {NoProfile}, label : Label]
                        \cup {NoJob}]
    BY <1>4, <2>3 DEF QueueItem
  <2>5. UNCHANGED <<arrVars, configVars, todo, current, seen, runVars, historyVars>>
    BY <1>4 DEF QueueItem
  <2> QED
    BY <2>1, <2>4, <2>5 DEF configVars, runVars, historyVars
<1>5. CASE PollFails
  BY <1>5 DEF PollFails, configVars, runVars, historyVars
<1> HIDE DEF TypeOK, arrVars
<1> QED
  BY <1>1, <1>2, <1>3, <1>4, <1>5 DEF Poll

\* The steps of an encode keep the types.
LEMMA EncodeTypeOK ==
    ASSUME TypeOK, RunsHaveRows, NEW i \in Item, Encode(i)
    PROVE  TypeOK'
<1>0. run[i] \in {"resolve", "update", "lookup", "encode"} => job[i] \in Row
  BY DEF TypeOK, RunsHaveRows, NoJob, Row
<1> USE DEF TypeOK, arrVars, Run, Goes, Forget
<1>1. CASE ListReady(i)
  BY <1>1 DEF ListReady, NoJob, configVars, pollVars, historyVars
<1>2. CASE Claim(i)
  BY <1>2 DEF Claim, NoJob, configVars, pollVars
<1>3. CASE ClaimFails(i)
  BY <1>3 DEF ClaimFails, configVars, pollVars
<1>4. CASE Resolve(i)
  <2>1. Reresolved(i) \in Profile \cup {NoProfile}
    BY ByLabelMapped DEF Reresolved
  <2> QED
    BY <1>4, <2>1 DEF Resolve, configVars, pollVars
<1>5. CASE UpdateJobProfile(i)
  <2>1. [job[i] EXCEPT !.profile = resolved[i]] \in Row
    BY <1>5, <1>0 DEF UpdateJobProfile, Row
  <2>2. job' \in [Item -> Row \cup {NoJob}]
    <3>1. job \in [Item -> Row \cup {NoJob}]
      BY DEF Row
    <3>2. job' = job \/ job' = [job EXCEPT ![i] = [job[i] EXCEPT !.profile = resolved[i]]]
      BY <1>5 DEF UpdateJobProfile
    <3> HIDE DEF TypeOK
    <3> QED
      BY <2>1, <3>1, <3>2
  <2>3. given' \in [Item -> Profile \cup {NoProfile}] /\ resolved' \in [Item -> Profile \cup {NoProfile}]
    BY <1>5 DEF UpdateJobProfile
  <2>4. run' \in [Item -> Run] /\ failed' \subseteq Item
    BY <1>5 DEF UpdateJobProfile
  <2>5. UNCHANGED <<arrVars, configVars, pollVars, stale, gone>>
    BY <1>5 DEF UpdateJobProfile
  <2> QED
    BY <2>2, <2>3, <2>4, <2>5 DEF Row, configVars, pollVars
<1>6. CASE BeginEncode(i)
  BY <1>6 DEF BeginEncode, configVars, pollVars, historyVars
<1>7. CASE EndRun(i)
  <2>1. [job[i] EXCEPT !.status = "over"] \in Row /\ [job[i] EXCEPT !.status = "queued"] \in Row
    BY <1>7, <1>0 DEF EndRun, Row
  <2>2. job' \in [Item -> Row \cup {NoJob}]
    BY <1>7, <2>1 DEF EndRun, Row
  <2>3. UNCHANGED <<itemTags, configVars, pollVars>> /\ barred' \subseteq Item /\ Forget(i)
    BY <1>7 DEF EndRun
  <2> QED
    BY <2>2, <2>3 DEF Row, configVars, pollVars
<1> HIDE DEF TypeOK, arrVars, Run, Goes, Forget
<1> QED
  BY <1>1, <1>2, <1>3, <1>4, <1>5, <1>6, <1>7 DEF Encode

\* What the user does keeps the types.
LEMMA UserTypeOK ==
    ASSUME TypeOK, User
    PROVE  TypeOK'
<1> USE DEF TypeOK, arrVars
<1>1. ASSUME NEW i \in Item, NEW t \in Tag, TagItem(i, t) \/ UntagItem(i, t) PROVE TypeOK'
  BY <1>1 DEF TagItem, UntagItem, configVars, pollVars, runVars, historyVars
<1>2. ASSUME NEW s \in Instance, NEW t \in Tag, NEW kind, NEW p \in Profile, CreateTagMapping(s, t, kind, p)
      PROVE  TypeOK'
  <2>1. created' \in 1..MaxMappings /\ created' = created + 1
    BY <1>2, ProfileAssumption DEF CreateTagMapping
  <2>2. kind \in {"sonarr", "radarr", "both"} /\ LabelOf[s][t] \in Label
    BY <1>2, ProfileAssumption DEF CreateTagMapping, Label
  <2>3. mappings' \subseteq Mapping
    BY <1>2, <2>1, <2>2 DEF CreateTagMapping, Mapping
  <2>4. revived' \subseteq deleted
    BY <1>2 DEF CreateTagMapping
  <2>5. UNCHANGED <<arrVars, enabled, deleted, job, pollVars, runVars, historyVars>>
    BY <1>2 DEF CreateTagMapping
  <2> QED
    BY <2>1, <2>3, <2>4, <2>5 DEF Mapping, pollVars, runVars, historyVars
<1>3. ASSUME NEW m \in mappings, DeleteTagMapping(m) PROVE TypeOK'
  BY <1>3 DEF DeleteTagMapping, pollVars, runVars, historyVars
<1>4. ASSUME NEW p \in Profile, DeleteProfile(p) PROVE TypeOK'
  BY <1>4 DEF DeleteProfile, MappingsWithout, pollVars, runVars, historyVars
<1>5. ASSUME NEW s \in Instance, SwitchOff(s) \/ SwitchOn(s) PROVE TypeOK'
  BY <1>5 DEF SwitchOff, SwitchOn, pollVars, runVars, historyVars
<1>6. ASSUME NEW i \in Item, NEW p \in Profile \cup {NoProfile}, SetJobProfile(i, p) PROVE TypeOK'
  <2>1. [job[i] EXCEPT !.profile = p] \in Row
    BY <1>6 DEF SetJobProfile, Editable, NoJob, Row
  <2>2. job' \in [Item -> Row \cup {NoJob}] /\ stale' \subseteq Item
    BY <1>6, <2>1 DEF SetJobProfile, Row
  <2>3. UNCHANGED <<arrVars, configVars, pollVars, runVars, failed, gone>>
    BY <1>6 DEF SetJobProfile
  <2> QED
    BY <2>2, <2>3 DEF Row, configVars, pollVars, runVars
<1>7. ASSUME NEW i \in Item, RetryJob(i) PROVE TypeOK'
  <2>1. [job[i] EXCEPT !.status = "queued"] \in Row
    BY <1>7 DEF RetryJob, NoJob, Row
  <2>2. job' \in [Item -> Row \cup {NoJob}]
    BY <1>7, <2>1 DEF RetryJob, Row
  <2>3. UNCHANGED <<arrVars, configVars, pollVars, runVars, historyVars>>
    BY <1>7 DEF RetryJob
  <2> QED
    BY <2>2, <2>3 DEF Row, configVars, pollVars, runVars, historyVars
<1>8. ASSUME NEW i \in Item, DeleteJob(i) PROVE TypeOK'
  BY <1>8 DEF DeleteJob, Forget, Run, configVars, pollVars, runVars
<1>9. ASSUME NEW i \in Item, RenameFile(i) PROVE TypeOK'
  BY <1>9 DEF RenameFile, configVars, pollVars, runVars, historyVars
<1> HIDE DEF TypeOK, arrVars
<1> QED
  BY <1>1, <1>2, <1>3, <1>4, <1>5, <1>6, <1>7, <1>8, <1>9 DEF User

\* A restart keeps the types.
LEMMA RestartTypeOK ==
    ASSUME TypeOK, Restart
    PROVE  TypeOK'
<1>1. job' \in [Item -> Row \cup {NoJob}]
  BY DEF TypeOK, Restart, NoJob, Row
<1>2. /\ todo' \subseteq Instance /\ current' \in Instance \cup {NoInstance}
      /\ seen' \in [Tag -> Choice \cup {NoMapping}] /\ found' \in [Item -> Choice \cup {NoMapping}]
      /\ run' \in [Item -> Run]
      /\ given' \in [Item -> Profile \cup {NoProfile}] /\ resolved' \in [Item -> Profile \cup {NoProfile}]
      /\ stale' \subseteq Item /\ failed' \subseteq Item
      /\ gone' \in [Item -> SUBSET Profile]
  BY DEF Restart, Run
<1>3. UNCHANGED <<arrVars, configVars>>
  BY DEF Restart
<1> QED
  BY <1>1, <1>2, <1>3 DEF TypeOK, Row, arrVars, configVars

-----------------------------------------------------------------------------
(* Runs, rows and profiles *)

\* A poll touches no row that exists, no run and no mapping.
LEMMA PollKeepsInv ==
    ASSUME Inv, Poll \/ PollFails
    PROVE  RunsHaveRows' /\ CopyIsRow' /\ MappedAreAlive' /\ ChoiceIsAlive'
<1>1. UNCHANGED <<configVars, runVars, historyVars>>
  BY DEF Poll, PollFails, StartPoll, ReadMappings, FetchLibrary, QueueItem
<1>2. \A i \in Item : run[i] # "idle" => job[i].status # "none"
  BY DEF Inv, TypeOK, Run, RunsHaveRows
<1>3. \A i \in Item : run[i] # "idle" => job'[i] = job[i]
  BY <1>2 DEF Inv, TypeOK, Poll, PollFails, StartPoll, ReadMappings, FetchLibrary, QueueItem
<1>4. RunsHaveRows' /\ CopyIsRow'
  BY <1>1, <1>3 DEF Inv, RunsHaveRows, CopyIsRow, runVars, historyVars
<1>5. MappedAreAlive' /\ ChoiceIsAlive'
  BY <1>1 DEF Inv, MappedAreAlive, ChoiceIsAlive, configVars, runVars, historyVars
<1> QED
  BY <1>4, <1>5

\* What the mappings give to a run is no profile that was deleted when the run
\* claimed its row.
LEMMA ReresolvedAlive ==
    ASSUME Inv, NEW i \in Item
    PROVE  Reresolved(i) \notin gone[i] \ revived
<1>1. Reresolved(i) \in {m.profile : m \in mappings} \cup {NoProfile}
  BY ByLabelMapped DEF Inv, Reresolved
<1>2. gone[i] \subseteq Profile /\ gone[i] \subseteq deleted
  BY DEF Inv, TypeOK, ChoiceIsAlive
<1>3. \A m \in mappings : m.profile \notin deleted \ revived
  BY DEF Inv, MappedAreAlive
<1> QED
  BY <1>1, <1>2, <1>3, ProfileAssumption

\* A step of an encode changes the row, the copy and the choice together.
LEMMA EncodeKeepsInv ==
    ASSUME Inv, NEW i \in Item, Encode(i)
    PROVE  RunsHaveRows' /\ CopyIsRow' /\ MappedAreAlive' /\ ChoiceIsAlive'
<1>1. MappedAreAlive' /\ UNCHANGED configVars
  BY DEF Inv, MappedAreAlive, configVars, Encode, ListReady, Claim, ClaimFails, Resolve, UpdateJobProfile,
         BeginEncode, EndRun
<1> USE DEF Inv, TypeOK, Goes, Forget
<1>2. CASE ListReady(i)
  BY <1>1, <1>2 DEF ListReady, RunsHaveRows, CopyIsRow, ChoiceIsAlive, historyVars, configVars
<1>3. CASE Claim(i)
  <2>1. gone' = [gone EXCEPT ![i] = deleted] /\ UNCHANGED <<given, resolved, failed, deleted, revived>>
    BY <1>3 DEF Claim, configVars
  <2>2. ChoiceIsAlive'
    BY <1>3, <2>1 DEF Claim, ChoiceIsAlive
  <2> QED
    BY <1>1, <1>3, <2>2 DEF Claim, RunsHaveRows, CopyIsRow
<1>4. CASE ClaimFails(i)
  BY <1>1, <1>4 DEF ClaimFails, RunsHaveRows, CopyIsRow, ChoiceIsAlive, configVars
<1>5. CASE Resolve(i)
  <2>1. RunsHaveRows' /\ CopyIsRow'
    BY <1>5 DEF Resolve, RunsHaveRows, CopyIsRow
  <2>2. ChoiceIsAlive'
    BY <1>1, <1>5, ReresolvedAlive DEF Resolve, ChoiceIsAlive, configVars
  <2> QED
    BY <1>1, <2>1, <2>2
<1>6. CASE UpdateJobProfile(i)
  <2>1. RunsHaveRows' /\ CopyIsRow'
    <3>1. run[i] = "update" /\ job[i] \in Row /\ job[i].status = "encoding"
      BY <1>6 DEF UpdateJobProfile, RunsHaveRows, NoJob, Row
    <3>2. run' = [run EXCEPT ![i] = "lookup"] /\ UNCHANGED stale
      BY <1>6 DEF UpdateJobProfile
    <3>3. \A k \in Item \ {i} : job'[k] = job[k] /\ given'[k] = given[k]
      BY <1>6 DEF UpdateJobProfile
    <3>4. \/ job'[i] = [job[i] EXCEPT !.profile = resolved[i]] /\ given'[i] = resolved[i]
          \/ job'[i] = job[i] /\ given'[i] = given[i]
      BY <1>6 DEF UpdateJobProfile
    <3>5. job'[i].status = "encoding" /\ (i \notin stale => job'[i].profile = given'[i])
      BY <3>1, <3>4 DEF CopyIsRow, Row
    <3> QED
      BY <3>1, <3>2, <3>3, <3>5 DEF RunsHaveRows, CopyIsRow
  <2>2. ChoiceIsAlive'
    BY <1>1, <1>6 DEF UpdateJobProfile, ChoiceIsAlive, configVars
  <2> QED
    BY <1>1, <2>1, <2>2
<1>7. CASE BeginEncode(i)
  BY <1>1, <1>7 DEF BeginEncode, RunsHaveRows, CopyIsRow, ChoiceIsAlive, historyVars, configVars
<1>8. CASE EndRun(i)
  <2>1. RunsHaveRows' /\ CopyIsRow'
    BY <1>8 DEF EndRun, RunsHaveRows, CopyIsRow
  <2>2. ChoiceIsAlive'
    BY <1>1, <1>8 DEF EndRun, ChoiceIsAlive, configVars
  <2> QED
    BY <1>1, <2>1, <2>2
<1> HIDE DEF Inv, TypeOK, Goes, Forget
<1> QED
  BY <1>2, <1>3, <1>4, <1>5, <1>6, <1>7, <1>8 DEF Encode

\* The user edits, retries and deletes rows that no run holds, or makes the
\* row's copy stale; a deleted profile leaves no mapping behind.
LEMMA UserKeepsInv ==
    ASSUME Inv, User
    PROVE  RunsHaveRows' /\ CopyIsRow' /\ MappedAreAlive' /\ ChoiceIsAlive'
<1> USE DEF Inv, TypeOK
<1>1. ASSUME NEW i \in Item, NEW t \in Tag, TagItem(i, t) \/ UntagItem(i, t)
      PROVE  RunsHaveRows' /\ CopyIsRow' /\ MappedAreAlive' /\ ChoiceIsAlive'
  BY <1>1 DEF TagItem, UntagItem, RunsHaveRows, CopyIsRow, MappedAreAlive, ChoiceIsAlive, configVars, runVars,
              historyVars
<1>2. ASSUME NEW s \in Instance, NEW t \in Tag, NEW kind, NEW p \in Profile, CreateTagMapping(s, t, kind, p)
      PROVE  RunsHaveRows' /\ CopyIsRow' /\ MappedAreAlive' /\ ChoiceIsAlive'
  BY <1>2 DEF CreateTagMapping, RunsHaveRows, CopyIsRow, MappedAreAlive, ChoiceIsAlive, runVars, historyVars
<1>3. ASSUME NEW m \in mappings, DeleteTagMapping(m)
      PROVE  RunsHaveRows' /\ CopyIsRow' /\ MappedAreAlive' /\ ChoiceIsAlive'
  BY <1>3 DEF DeleteTagMapping, RunsHaveRows, CopyIsRow, MappedAreAlive, ChoiceIsAlive, runVars, historyVars
<1>4. ASSUME NEW p \in Profile, DeleteProfile(p)
      PROVE  RunsHaveRows' /\ CopyIsRow' /\ MappedAreAlive' /\ ChoiceIsAlive'
  BY <1>4 DEF DeleteProfile, MappingsWithout, RunsHaveRows, CopyIsRow, MappedAreAlive, ChoiceIsAlive, runVars,
              historyVars
<1>5. ASSUME NEW s \in Instance, SwitchOff(s) \/ SwitchOn(s)
      PROVE  RunsHaveRows' /\ CopyIsRow' /\ MappedAreAlive' /\ ChoiceIsAlive'
  BY <1>5 DEF SwitchOff, SwitchOn, RunsHaveRows, CopyIsRow, MappedAreAlive, ChoiceIsAlive, runVars, historyVars
<1>6. ASSUME NEW i \in Item, NEW p \in Profile \cup {NoProfile}, SetJobProfile(i, p)
      PROVE  RunsHaveRows' /\ CopyIsRow' /\ MappedAreAlive' /\ ChoiceIsAlive'
  <2>1. RunsHaveRows'
    BY <1>6 DEF SetJobProfile, RunsHaveRows, runVars
  <2>2. run[i] \in {"idle", "listed"}
    BY <1>6 DEF SetJobProfile, Editable, RunsHaveRows, Run
  <2>3. CopyIsRow'
    BY <1>6, <2>2 DEF SetJobProfile, CopyIsRow, runVars
  <2>4. MappedAreAlive' /\ ChoiceIsAlive'
    BY <1>6 DEF SetJobProfile, MappedAreAlive, ChoiceIsAlive, configVars, runVars
  <2> QED
    BY <2>1, <2>3, <2>4
<1>7. ASSUME NEW i \in Item, RetryJob(i)
      PROVE  RunsHaveRows' /\ CopyIsRow' /\ MappedAreAlive' /\ ChoiceIsAlive'
  <2>1. RunsHaveRows' /\ CopyIsRow'
    BY <1>7 DEF RetryJob, RunsHaveRows, CopyIsRow, Run, runVars, historyVars
  <2>2. MappedAreAlive' /\ ChoiceIsAlive'
    BY <1>7 DEF RetryJob, MappedAreAlive, ChoiceIsAlive, configVars, runVars, historyVars
  <2> QED
    BY <2>1, <2>2
<1>8. ASSUME NEW i \in Item, DeleteJob(i)
      PROVE  RunsHaveRows' /\ CopyIsRow' /\ MappedAreAlive' /\ ChoiceIsAlive'
  <2>1. run[i] \in {"idle", "listed"}
    BY <1>8 DEF DeleteJob, Deletable, RunsHaveRows, Run
  <2>2. /\ run' = [run EXCEPT ![i] = "idle"]
        /\ \A k \in Item \ {i} : job'[k] = job[k] /\ given'[k] = given[k] /\ (k \in stale' <=> k \in stale)
    BY <1>8, <2>1 DEF DeleteJob, Forget, runVars
  <2>3. MappedAreAlive' /\ ChoiceIsAlive'
    BY <1>8, <2>1 DEF DeleteJob, Forget, MappedAreAlive, ChoiceIsAlive, configVars, runVars
  <2>4. RunsHaveRows' /\ CopyIsRow'
    BY <2>2 DEF RunsHaveRows, CopyIsRow
  <2> QED
    BY <2>3, <2>4
<1>9. ASSUME NEW i \in Item, RenameFile(i)
      PROVE  RunsHaveRows' /\ CopyIsRow' /\ MappedAreAlive' /\ ChoiceIsAlive'
  BY <1>9 DEF RenameFile, RunsHaveRows, CopyIsRow, MappedAreAlive, ChoiceIsAlive, configVars, runVars,
              historyVars
<1> HIDE DEF Inv, TypeOK
<1> QED
  BY <1>1, <1>2, <1>3, <1>4, <1>5, <1>6, <1>7, <1>8, <1>9 DEF User

\* Inv is inductive.
LEMMA InvInductive ==
    ASSUME Inv, [Next]_vars
    PROVE  Inv'
<1>1. CASE Poll \/ PollFails
  BY <1>1, PollTypeOK, PollKeepsInv DEF Inv
<1>2. ASSUME NEW i \in Item, Encode(i) PROVE Inv'
  BY <1>2, EncodeTypeOK, EncodeKeepsInv DEF Inv
<1>3. CASE User
  BY <1>3, UserTypeOK, UserKeepsInv DEF Inv
<1>4. CASE Restart
  <2>1. TypeOK'
    BY <1>4, RestartTypeOK DEF Inv
  <2>2. \A i \in Item : run'[i] = "idle" /\ gone'[i] = {}
    BY <1>4 DEF Restart
  <2>3. MappedAreAlive'
    BY <1>4 DEF Restart, Inv, MappedAreAlive, configVars
  <2> QED
    BY <2>1, <2>2, <2>3 DEF Inv, RunsHaveRows, CopyIsRow, ChoiceIsAlive
<1>5. CASE UNCHANGED vars
  BY <1>5 DEF Inv, TypeOK, RunsHaveRows, CopyIsRow, MappedAreAlive, ChoiceIsAlive, vars, arrVars, configVars, pollVars,
              runVars, historyVars
<1> QED
  BY <1>1, <1>2, <1>3, <1>4, <1>5 DEF Next

\* Inv holds in every state.
THEOREM InvHolds == Spec => []Inv
<1>1. Init => Inv
  BY ProfileAssumption DEF Init, Inv, TypeOK, Run, RunsHaveRows, CopyIsRow, MappedAreAlive, ChoiceIsAlive
<1> QED
  BY <1>1, InvInductive, PTL DEF Spec

\* Every variable stays in its range, and a job that was queued has the label
\* of a tag.
THEOREM ProfileTypes == Spec => []TypeOK
BY InvHolds, PTL DEF Inv

\* A profile that was deleted when a run claimed its job is not used by that
\* run (encodeOne asks the mappings again, DeleteProfile has deleted them).
THEOREM DeletedStayUnused == Spec => []DeletedProfileUnused
<1>1. Inv => DeletedProfileUnused
  BY DEF Inv, ChoiceIsAlive, DeletedProfileUnused
<1> QED
  BY <1>1, InvHolds, PTL

\* The row of a job that is encoding names the profile it is encoded with
\* (encodeOne, SetJobsProfile).
THEOREM RowsTellProfiles == Spec => []RowTellsProfile
<1>1. Inv => RowTellsProfile
  BY DEF Inv, CopyIsRow, RowTellsProfile
<1> QED
  BY <1>1, InvHolds, PTL

-----------------------------------------------------------------------------
(* The jobs in stages *)

\* The job of one item gets a status, and what else it may get.
LEMMA JobGoes ==
    ASSUME TypeOK, NEW i \in Item, NEW here, NEW there,
           job[i].status = here, job'[i].status = there,
           \A k \in Item \ {i} : job'[k] = job[k]
    PROVE  Stages!Go({i}, here, there)
BY DEF Stages!Go

\* A run claims the row of its job, and ends or hands back the row it has
\* claimed; its other steps leave the status alone.
LEMMA EncodeMovesStages ==
    ASSUME Inv, NEW i \in Item, Encode(i)
    PROVE  (\A k \in Item : job'[k].status = job[k].status) \/ Stages!Next
<1> USE DEF Inv, TypeOK
<1>1. CASE Claim(i)
  <2>1. job[i].status = "queued" /\ job[i] \in Row
    BY <1>1 DEF Claim, NoJob, Row
  <2>2. job'[i].status = "encoding" /\ \A k \in Item \ {i} : job'[k] = job[k]
    BY <1>1, <2>1 DEF Claim, Row
  <2>3. Stages!Claim(i)
    BY <2>1, <2>2, JobGoes DEF Stages!Claim
  <2> QED
    BY <2>3 DEF Stages!Next
<1>2. CASE EndRun(i)
  <2>1. job[i].status = "encoding" /\ job[i] \in Row
    BY <1>2 DEF EndRun, RunsHaveRows, NoJob, Row
  <2>2. CASE job' = [job EXCEPT ![i].status = "over"]
    <3>1. job'[i].status = "over" /\ \A k \in Item \ {i} : job'[k] = job[k]
      BY <2>1, <2>2 DEF Row
    <3>2. Stages!End(i)
      BY <2>1, <3>1, JobGoes DEF Stages!End
    <3> QED
      BY <3>2 DEF Stages!Next
  <2>3. CASE job' = [job EXCEPT ![i].status = "queued"]
    <3>1. job'[i].status = "queued" /\ \A k \in Item \ {i} : job'[k] = job[k]
      BY <2>1, <2>3 DEF Row
    <3>2. Stages!HandBack({i}) /\ {i} \in SUBSET Item
      BY <2>1, <3>1, JobGoes DEF Stages!HandBack
    <3> QED
      BY <3>2 DEF Stages!Next
  <2> QED
    BY <1>2, <2>2, <2>3 DEF EndRun
<1>3. CASE UpdateJobProfile(i)
  <2>1. job[i] \in Row
    BY <1>3 DEF UpdateJobProfile, Goes, RunsHaveRows, NoJob, Row
  <2>2. job'[i].status = job[i].status /\ \A k \in Item \ {i} : job'[k] = job[k]
    BY <1>3, <2>1 DEF UpdateJobProfile, Row
  <2> QED
    BY <2>2
<1>4. CASE ListReady(i) \/ ClaimFails(i) \/ Resolve(i) \/ BeginEncode(i)
  BY <1>4 DEF ListReady, ClaimFails, Resolve, BeginEncode
<1> QED
  BY <1>1, <1>2, <1>3, <1>4 DEF Encode

\* However copies of rows go stale, the jobs move as the rest of the program
\* relies on: a run ends no row but the one it has claimed, and users delete and
\* retry none that is encoding (encodeOne, DeleteJob, RetryJob).
THEOREM ProfilesMoveStages == Spec => ImplementsStages
<1> DEFINE stage == [i \in Item |-> job[i].status]
<1>1. Init => Stages!Init
  BY DEF Init, NoJob, Stages!Init
<1>2. ASSUME Inv, [Next]_vars PROVE [Stages!Next]_stage
  <2> USE DEF Inv, TypeOK
  <2>1. CASE \A k \in Item : job'[k].status = job[k].status
    BY <2>1
  <2>2. ASSUME NEW i \in Item, QueueItem(i) PROVE [Stages!Next]_stage
    <3>1. CASE job[i].status = "none" /\ ~PassedOver(i)
      <4>1. job'[i].status = "queued" /\ \A k \in Item \ {i} : job'[k] = job[k]
        BY <1>2, <2>2, <3>1 DEF QueueItem
      <4>2. Stages!Queue(i)
        BY <1>2, <3>1, <4>1, JobGoes DEF Stages!Queue
      <4> QED
        BY <4>2 DEF Stages!Next
    <3>2. CASE job[i].status # "none" \/ PassedOver(i)
      BY <2>1, <2>2, <3>2 DEF QueueItem
    <3> QED
      BY <3>1, <3>2
  <2>3. ASSUME NEW i \in Item, NEW p \in Profile \cup {NoProfile}, SetJobProfile(i, p)
        PROVE  \A k \in Item : job'[k].status = job[k].status
    <3>1. job[i] \in Row
      BY <1>2, <2>3 DEF SetJobProfile, Editable, NoJob, Row
    <3> QED
      BY <1>2, <2>3, <3>1 DEF SetJobProfile, Row
  <2>4. ASSUME NEW i \in Item, RetryJob(i) PROVE Stages!Next
    <3>1. job[i] \in Row /\ job[i].status = "over"
      BY <1>2, <2>4 DEF RetryJob, NoJob, Row
    <3>2. job'[i].status = "queued" /\ \A k \in Item \ {i} : job'[k] = job[k]
      BY <1>2, <2>4, <3>1 DEF RetryJob, Row
    <3>3. Stages!Retry({i}) /\ {i} \in SUBSET Item
      BY <1>2, <3>1, <3>2, JobGoes DEF Stages!Retry
    <3> QED
      BY <3>3 DEF Stages!Next
  <2>5. ASSUME NEW i \in Item, DeleteJob(i) PROVE Stages!Next
    <3>1. job'[i].status = "none" /\ \A k \in Item \ {i} : job'[k] = job[k]
      BY <1>2, <2>5 DEF DeleteJob, NoJob
    <3>2. Stages!Delete({i}) /\ {i} \in SUBSET Item
      BY <2>5, <3>1 DEF DeleteJob, Deletable, Stages!Delete
    <3> QED
      BY <3>2 DEF Stages!Next
  <2>6. CASE Restart
    <3> DEFINE S == {i \in Item : job[i].status = "encoding"}
    <3>1. ASSUME NEW i \in Item PROVE job'[i].status = IF i \in S THEN "queued" ELSE job[i].status
      BY <1>2, <2>6 DEF Restart, NoJob
    <3>2. Stages!HandBack(S)
      BY <3>1 DEF Stages!HandBack, Stages!Go
    <3>3. S \in SUBSET Item
      OBVIOUS
    <3>4. \E T \in SUBSET Item : Stages!HandBack(T)
      BY <3>2, <3>3 DEF Stages!HandBack, Stages!Go
    <3> HIDE DEF Inv, TypeOK
    <3> QED
      BY <3>4 DEF Stages!Next
  <2>7. ASSUME NEW i \in Item, Encode(i) PROVE [Stages!Next]_stage
    BY <1>2, <2>1, <2>7, EncodeMovesStages
  <2>8. CASE PollFails \/ StartPoll \/ (\E s \in Instance : ReadMappings(s) \/ FetchLibrary(s)) \/ UNCHANGED vars
    BY <2>8 DEF PollFails, StartPoll, ReadMappings, FetchLibrary, vars
  <2>9. CASE User
    <3>1. ASSUME NEW i \in Item, NEW t \in Tag, TagItem(i, t) \/ UntagItem(i, t) PROVE UNCHANGED job
      BY <3>1 DEF TagItem, UntagItem
    <3>2. ASSUME NEW s \in Instance, NEW t \in Tag, NEW kind, NEW p \in Profile, CreateTagMapping(s, t, kind, p)
          PROVE  UNCHANGED job
      BY <3>2 DEF CreateTagMapping
    <3>3. ASSUME NEW m \in mappings, DeleteTagMapping(m) PROVE UNCHANGED job
      BY <3>3 DEF DeleteTagMapping
    <3>4. ASSUME NEW p \in Profile, DeleteProfile(p) PROVE UNCHANGED job
      BY <3>4 DEF DeleteProfile
    <3>5. ASSUME NEW s \in Instance, SwitchOff(s) \/ SwitchOn(s) PROVE UNCHANGED job
      BY <3>5 DEF SwitchOff, SwitchOn
    <3>8. ASSUME NEW i \in Item, RenameFile(i) PROVE UNCHANGED job
      BY <3>8 DEF RenameFile
    <3>6. UNCHANGED job => UNCHANGED stage
      OBVIOUS
    <3>7. (\A k \in Item : job'[k].status = job[k].status) => UNCHANGED stage
      OBVIOUS
    <3> HIDE DEF stage, Inv, TypeOK
    <3> QED
      BY <2>3, <2>4, <2>5, <2>9, <3>1, <3>2, <3>3, <3>4, <3>5, <3>6, <3>7, <3>8 DEF User
  <2> HIDE DEF Inv, TypeOK
  <2> QED
    BY <1>2, <2>2, <2>6, <2>7, <2>8, <2>9 DEF Next, Poll
<1> QED
  BY <1>1, <1>2, InvHolds, PTL DEF Spec, ImplementsStages, Stages!Spec

=============================================================================
