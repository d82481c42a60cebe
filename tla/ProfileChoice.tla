---------------------------- MODULE ProfileChoice ----------------------------
(***************************************************************************)
(* Which files are queued, and which profile each of them is encoded with. *)
(* The reconciler (internal/job/reconcile.go) takes the profile from the   *)
(* tag mappings by the id of a tag when it queues a file; encodeOne        *)
(* (internal/job/job.go) takes it again, by the label it has stored with   *)
(* the job, when it encodes the file.  Meanwhile mappings, profiles and    *)
(* *arr instances come and go (internal/store/queries.go behind the        *)
(* handlers of internal/api/admin.go), the user gives jobs other profiles, *)
(* and tags change in the *arr.  A marker beside a file keeps it out of the *)
(* queue, and so does a path the reconciler does not take.                 *)
(*                                                                         *)
(* An item stands for one media file; a job is "queued" from its INSERT to *)
(* its claim (Worker has the gates), and "over" in every terminal status.  *)
(***************************************************************************)
EXTENDS Naturals, FiniteSets

CONSTANTS
    Instance,     \* the rows of arr_instances
    KindOf,       \* KindOf[s]: "sonarr" or "radarr"
    Tag,          \* tag ids; every instance counts its own from 1
    LabelOf,      \* LabelOf[s][t]: what instance s calls its tag t
    Item,         \* media files
    InstanceOf,   \* InstanceOf[i]: the instance whose library has i
    Profile,      \* the rows of profiles
    NoProfile,    \* profile_id is NULL
    MarkersOn,    \* OutputSuffixEnabled: an encode leaves a marker beside its file
    MaxMappings,  \* bound: how many mappings are ever created
    StoreCanFail  \* TRUE: a statement, or a request to an *arr, may fail

ASSUME ProfileAssumption ==
    /\ \A s \in Instance : KindOf[s] \in {"sonarr", "radarr"}
    /\ InstanceOf \in [Item -> Instance]
    /\ NoProfile \notin Profile
    /\ MaxMappings \in Nat /\ StoreCanFail \in BOOLEAN /\ MarkersOn \in BOOLEAN

VARIABLES
    \* --- the *arr instances and the media library
    itemTags,   \* itemTags[i]: the ids of the tags of i
    barred,     \* the items with a marker beside their file, or a path that is not clean
                \* and absolute or is that of a temp file
    \* --- the configuration
    enabled,    \* the instances that are enabled and not (softly) deleted
    mappings,   \* the rows of tag_mappings
    created,    \* the last id given to a mapping
    deleted,    \* the profiles with deleted_at set
    \* --- the jobs table
    job,        \* job[i]: status, profile_id and the label in tags
    \* --- the reconciler
    todo,       \* the instances it still has to look at in this poll
    current,    \* the instance whose library it is about to fetch
    seen,       \* seen[t]: what mapByTagID has for t
    found,      \* found[i]: what it is going to queue i with
    \* --- encodes
    run,        \* run[i]: where the run of i's job is
    given,      \* given[i]: j.ProfileID in the run's copy of the row
    resolved,   \* resolved[i]: newPID
    \* --- history
    stale,      \* the row was given a profile between its listing and its claim
    failed,     \* a statement of the run has failed
    gone,       \* gone[i]: the profiles that were deleted when the run claimed i
    revived     \* the profiles that were mapped again after they were deleted

arrVars     == <<itemTags, barred>>
configVars  == <<enabled, mappings, created, deleted, revived>>
pollVars    == <<todo, current, seen, found>>
runVars     == <<run, given, resolved>>
historyVars == <<stale, failed, gone>>
vars == <<arrVars, configVars, job, pollVars, runVars, historyVars>>

-----------------------------------------------------------------------------
Label == {LabelOf[s][t] : s \in Instance, t \in Tag}

\* What a mapping gives to a job.
Choice     == [label : Label, profile : Profile]
NoMapping  == [label |-> "none", profile |-> NoProfile]
NoInstance == "none"

NoJob == [status |-> "none", profile |-> NoProfile, label |-> "none"]

Run == {"idle", "listed", "resolve", "update", "lookup", "encode"}

Init ==
    /\ itemTags = [i \in Item |-> {}] /\ barred = {}
    /\ enabled = Instance
    /\ mappings = {} /\ created = 0 /\ deleted = {} /\ revived = {}
    /\ job = [i \in Item |-> NoJob]
    /\ todo = {} /\ current = NoInstance
    /\ seen = [t \in Tag |-> NoMapping]
    /\ found = [i \in Item |-> NoMapping]
    /\ run = [i \in Item |-> "idle"]
    /\ given = [i \in Item |-> NoProfile]
    /\ resolved = [i \in Item |-> NoProfile]
    /\ stale = {} /\ failed = {}
    /\ gone = [i \in Item |-> {}]

-----------------------------------------------------------------------------
(* The tag mappings *)

\* Mutant: the mappings for both kinds are forgotten.
SameKind(m, kind) == m.kind = kind

AppliesTo(m, kind) == m.kind \in {kind, "both"}

\* ListTagMappingsByKind
MappingsOf(kind) == {m \in mappings : AppliesTo(m, kind)}

FirstOf(ms) == CHOOSE m \in ms : \A n \in ms : m.id <= n.id
LastOf(ms)  == CHOOSE m \in ms : \A n \in ms : n.id <= m.id

\* mapByTagID of reconcileInstance: the first mapping of a tag id counts.
ByTagID(kind, t) ==
    LET ms == {m \in MappingsOf(kind) : m.tag = t}
    IN  IF ms = {} THEN NoMapping ELSE [label |-> FirstOf(ms).label, profile |-> FirstOf(ms).profile]

\* idx of reresolveProfile: the last mapping of a label counts.
ByLabel(kind, label) ==
    LET ms == {m \in MappingsOf(kind) : m.label = label}
    IN  IF ms = {} THEN NoProfile ELSE LastOf(ms).profile

-----------------------------------------------------------------------------
(* The reconciler *)

PollIdle == todo = {} /\ current = NoInstance /\ \A i \in Item : found[i] = NoMapping

\* reconcile lists the instances that are enabled and not deleted.
StartPoll ==
    /\ PollIdle
    /\ enabled # {}
    /\ todo' = enabled
    /\ UNCHANGED <<arrVars, configVars, job, current, seen, found, runVars, historyVars>>

\* reconcileInstance reads the mappings; without any it returns.
ReadMappings(s) ==
    /\ current = NoInstance /\ \A i \in Item : found[i] = NoMapping
    /\ s \in todo
    /\ todo' = todo \ {s}
    /\ IF MappingsOf(KindOf[s]) = {}
       THEN UNCHANGED <<current, seen>>
       ELSE /\ current' = s
            /\ seen' = [t \in Tag |-> ByTagID(KindOf[s], t)]
    /\ UNCHANGED <<arrVars, configVars, job, found, runVars, historyVars>>

\* The tags of i that are mapped.
Matches(i) == {seen[t] : t \in itemTags[i]} \ {NoMapping}

\* matchMapping: the first of the item's tags that is mapped, in the order in
\* which the *arr lists them.
MatchMapping(i) == IF Matches(i) = {} THEN {NoMapping} ELSE Matches(i)

\* The library of the instance is fetched and its items are matched.
FetchLibrary(s) ==
    /\ current = s
    /\ found' \in {f \in [Item -> Choice \cup {NoMapping}] :
           \A i \in Item : f[i] \in (IF InstanceOf[i] = s THEN MatchMapping(i) ELSE {NoMapping})}
    /\ current' = NoInstance
    /\ seen' = [t \in Tag |-> NoMapping]
    /\ UNCHANGED <<arrVars, configVars, job, todo, runVars, historyVars>>

\* reconcileParent passes over a file with a path it does not take or with a
\* marker ...
PassedOver(i) == i \in barred

\* ... and queues any other, unless the item has a job.
QueueItem(i) ==
    /\ found[i] # NoMapping
    /\ found' = [found EXCEPT ![i] = NoMapping]
    /\ job' = IF job[i].status = "none" /\ ~PassedOver(i)
              THEN [job EXCEPT ![i] = [status |-> "queued", profile |-> found[i].profile, label |-> found[i].label]]
              ELSE job
    /\ UNCHANGED <<arrVars, configVars, todo, current, seen, runVars, historyVars>>

\* A list, a library, the files of an item or an INSERT fails: the poll goes
\* on without.
PollFails ==
    /\ StoreCanFail
    /\ \/ current = NoInstance /\ \E s \in todo : todo' = todo \ {s} /\ UNCHANGED <<current, found>>
       \/ current # NoInstance /\ current' = NoInstance /\ UNCHANGED <<todo, found>>
       \/ \E i \in Item : found[i] # NoMapping /\ found' = [found EXCEPT ![i] = NoMapping] /\ UNCHANGED <<todo, current>>
    /\ seen' = [t \in Tag |-> NoMapping]
    /\ UNCHANGED <<arrVars, configVars, job, runVars, historyVars>>

Poll ==
    \/ StartPoll
    \/ \E s \in Instance : ReadMappings(s) \/ FetchLibrary(s)
    \/ \E i \in Item : QueueItem(i)

-----------------------------------------------------------------------------
(* runEncodes and encodeOne *)

\* The run of i goes from one place to another.
Goes(i, here, there) == run[i] = here /\ run' = [run EXCEPT ![i] = there]

\* The run is over, its copy of the row is gone.
Forget(i) ==
    /\ run' = [run EXCEPT ![i] = "idle"]
    /\ given' = [given EXCEPT ![i] = NoProfile]
    /\ resolved' = [resolved EXCEPT ![i] = NoProfile]
    /\ stale' = stale \ {i}
    /\ failed' = failed \ {i}
    /\ gone' = [gone EXCEPT ![i] = {}]

\* JobsByStatus copies the row; the rest of the encode uses the copy.
ListReady(i) ==
    /\ Goes(i, "idle", "listed")
    /\ job[i].status = "queued"
    /\ given' = [given EXCEPT ![i] = job[i].profile]
    /\ UNCHANGED <<arrVars, configVars, job, pollVars, resolved, historyVars>>

\* MarkJobEncoding
Claim(i) ==
    /\ Goes(i, "listed", "resolve")
    /\ job[i].status = "queued"
    /\ job' = [job EXCEPT ![i].status = "encoding"]
    /\ gone' = [gone EXCEPT ![i] = deleted]
    /\ UNCHANGED <<arrVars, configVars, pollVars, given, resolved, stale, failed>>

\* MarkJobEncoding fails: the row waits for the next tick.
ClaimFails(i) ==
    /\ StoreCanFail
    /\ run[i] = "listed"
    /\ Forget(i)
    /\ UNCHANGED <<arrVars, configVars, job, pollVars>>

\* The profile the mappings give to the job's label now.
Reresolved(i) == ByLabel(KindOf[InstanceOf[i]], job[i].label)

\* reresolveProfile, compared with the copy; if the mappings cannot be listed
\* the copy's profile stays.
Resolve(i) ==
    /\ \/ /\ Reresolved(i) = given[i]
          /\ Goes(i, "resolve", "lookup")
          /\ UNCHANGED <<resolved, failed>>
       \/ /\ Reresolved(i) # given[i]
          /\ Goes(i, "resolve", "update")
          /\ resolved' = [resolved EXCEPT ![i] = Reresolved(i)]
          /\ UNCHANGED failed
       \/ /\ StoreCanFail
          /\ Goes(i, "resolve", "lookup")
          /\ failed' = failed \cup {i}
          /\ UNCHANGED resolved
    /\ UNCHANGED <<arrVars, configVars, job, pollVars, given, stale, gone>>

\* UpdateJobProfile; only if it succeeds the copy is given the new profile.
UpdateJobProfile(i) ==
    /\ Goes(i, "update", "lookup")
    /\ resolved' = [resolved EXCEPT ![i] = NoProfile]
    /\ \/ /\ job' = [job EXCEPT ![i].profile = resolved[i]]
          /\ given' = [given EXCEPT ![i] = resolved[i]]
          /\ UNCHANGED failed
       \/ /\ StoreCanFail
          /\ failed' = failed \cup {i}
          /\ UNCHANGED <<job, given>>
    /\ UNCHANGED <<arrVars, configVars, pollVars, stale, gone>>

\* GetProfile finds the profile, a deleted one too, and the encode begins.
BeginEncode(i) ==
    /\ Goes(i, "lookup", "encode")
    /\ given[i] # NoProfile
    /\ UNCHANGED <<arrVars, configVars, job, pollVars, given, resolved, historyVars>>

\* The run ends: without a profile, in an error, or with its outcome, and
\* perhaps a marker; its last statement may fail, and a skip leaves its marker
\* all the same.  A pause hands the row back.
EndRun(i) ==
    /\ run[i] \in {"lookup", "encode"}
    /\ \/ /\ \/ job' = [job EXCEPT ![i].status = "over"]
             \/ StoreCanFail /\ UNCHANGED job
          /\ \/ UNCHANGED barred
             \/ run[i] = "encode" /\ MarkersOn /\ barred' = barred \cup {i}
       \/ run[i] = "encode" /\ job' = [job EXCEPT ![i].status = "queued"] /\ UNCHANGED barred
    /\ Forget(i)
    /\ UNCHANGED <<itemTags, configVars, pollVars>>

Encode(i) ==
    \/ ListReady(i) \/ Claim(i) \/ ClaimFails(i) \/ Resolve(i) \/ UpdateJobProfile(i)
    \/ BeginEncode(i) \/ EndRun(i)

\* The process dies and is started again: rows that were encoding are queued.
Restart ==
    /\ job' = [i \in Item |-> IF job[i].status = "encoding" THEN [job[i] EXCEPT !.status = "queued"] ELSE job[i]]
    /\ todo' = {} /\ current' = NoInstance
    /\ seen' = [t \in Tag |-> NoMapping]
    /\ found' = [i \in Item |-> NoMapping]
    /\ run' = [i \in Item |-> "idle"]
    /\ given' = [i \in Item |-> NoProfile]
    /\ resolved' = [i \in Item |-> NoProfile]
    /\ stale' = {} /\ failed' = {} /\ gone' = [i \in Item |-> {}]
    /\ UNCHANGED <<arrVars, configVars>>

-----------------------------------------------------------------------------
(* The user: in the *arr and in the library *)

TagItem(i, t) ==
    /\ t \notin itemTags[i]
    /\ itemTags' = [itemTags EXCEPT ![i] = @ \cup {t}]
    /\ UNCHANGED <<barred, configVars, job, pollVars, runVars, historyVars>>

UntagItem(i, t) ==
    /\ t \in itemTags[i]
    /\ itemTags' = [itemTags EXCEPT ![i] = @ \ {t}]
    /\ UNCHANGED <<barred, configVars, job, pollVars, runVars, historyVars>>

\* The file is renamed to a path the reconciler does not take, or to one it takes
\* and that has no marker beside it; or the marker is deleted.
RenameFile(i) ==
    /\ barred' \in {barred \cup {i}, barred \ {i}}
    /\ UNCHANGED <<itemTags, configVars, job, pollVars, runVars, historyVars>>

-----------------------------------------------------------------------------
(* The user: on the settings and jobs pages *)

\* The page offers the tags of all instances, for the kind of their instance
\* or for both; UNIQUE(arr_kind, tag_id) refuses a second mapping.  Whether
\* the profile still exists is not looked at.
CreateTagMapping(s, t, kind, p) ==
    /\ created < MaxMappings
    /\ kind \in {KindOf[s], "both"}
    /\ ~ \E m \in mappings : m.kind = kind /\ m.tag = t
    /\ created' = created + 1
    /\ mappings' = mappings \cup
           {[id |-> created + 1, kind |-> kind, tag |-> t, label |-> LabelOf[s][t], profile |-> p]}
    /\ revived' = revived \cup ({p} \cap deleted)
    /\ UNCHANGED <<arrVars, enabled, deleted, job, pollVars, runVars, historyVars>>

DeleteTagMapping(m) ==
    /\ m \in mappings
    /\ mappings' = mappings \ {m}
    /\ UNCHANGED <<arrVars, enabled, created, deleted, revived, job, pollVars, runVars, historyVars>>

\* Mutant: only the profile is deleted.
MappingsKept(p) == mappings

MappingsWithout(p) == {m \in mappings : m.profile # p}

\* One transaction: the mappings of the profile go, the profile is marked.
DeleteProfile(p) ==
    /\ p \notin deleted
    /\ mappings' = MappingsWithout(p)
    /\ deleted' = deleted \cup {p}
    /\ UNCHANGED <<arrVars, enabled, created, revived, job, pollVars, runVars, historyVars>>

\* UpdateArrInstance switches an instance off and on; DeleteArrInstance is a
\* switching off for good.
SwitchOff(s) ==
    /\ s \in enabled
    /\ enabled' = enabled \ {s}
    /\ UNCHANGED <<arrVars, mappings, created, deleted, revived, job, pollVars, runVars, historyVars>>

SwitchOn(s) ==
    /\ s \notin enabled
    /\ enabled' = enabled \cup {s}
    /\ UNCHANGED <<arrVars, mappings, created, deleted, revived, job, pollVars, runVars, historyVars>>

\* Mutant: jobs that are encoding are not spared.
AnyJob(i) == job[i].status # "none"

\* The guards of SetJobsProfile and of DeleteJob.
Editable(i) == job[i].status \notin {"none", "encoding"}
Deletable(i) == job[i].status \in {"queued", "over"}

\* SetJobsProfile
SetJobProfile(i, p) ==
    /\ Editable(i)
    /\ job' = [job EXCEPT ![i].profile = p]
    /\ stale' = IF run[i] = "listed" THEN stale \cup {i} ELSE stale
    /\ UNCHANGED <<arrVars, configVars, pollVars, runVars, failed, gone>>

RetryJob(i) ==
    /\ job[i].status = "over"
    /\ job' = [job EXCEPT ![i].status = "queued"]
    /\ UNCHANGED <<arrVars, configVars, pollVars, runVars, historyVars>>

\* A run that has listed the row will not be able to claim it.
DeleteJob(i) ==
    /\ Deletable(i)
    /\ job' = [job EXCEPT ![i] = NoJob]
    /\ IF run[i] = "listed" THEN Forget(i) ELSE UNCHANGED <<runVars, stale, failed, gone>>
    /\ UNCHANGED <<arrVars, configVars, pollVars>>

User ==
    \/ \E i \in Item, t \in Tag : TagItem(i, t) \/ UntagItem(i, t)
    \/ \E i \in Item : RenameFile(i)
    \/ \E s \in Instance, t \in Tag, p \in Profile :
          CreateTagMapping(s, t, KindOf[s], p) \/ CreateTagMapping(s, t, "both", p)
    \/ \E m \in mappings : DeleteTagMapping(m)
    \/ \E p \in Profile : DeleteProfile(p)
    \/ \E s \in Instance : SwitchOff(s) \/ SwitchOn(s)
    \/ \E i \in Item : RetryJob(i) \/ DeleteJob(i) \/ \E p \in Profile \cup {NoProfile} : SetJobProfile(i, p)

Next == Poll \/ PollFails \/ (\E i \in Item : Encode(i)) \/ User \/ Restart

Spec == Init /\ [][Next]_vars

\* The reconciler polls again and again, and what it asks for is not refused
\* every time it asks.
PollFairness ==
    /\ WF_vars(StartPoll)
    /\ \A s \in Instance : SF_vars(ReadMappings(s)) /\ SF_vars(FetchLibrary(s))
    /\ \A i \in Item : SF_vars(QueueItem(i))

FairSpec == Spec /\ PollFairness

-----------------------------------------------------------------------------
(* Properties *)

\* Every variable stays in its range; a job that was queued has the label of a tag.
TypeOK ==
    /\ itemTags \in [Item -> SUBSET Tag] /\ barred \subseteq Item
    /\ enabled \subseteq Instance
    /\ mappings \subseteq [id : 1..MaxMappings, kind : {"sonarr", "radarr", "both"}, tag : Tag, label : Label,
                           profile : Profile]
    /\ created \in 0..MaxMappings
    /\ deleted \subseteq Profile /\ revived \subseteq deleted
    /\ job \in [Item -> [status : {"queued", "encoding", "over"}, profile : Profile \cup {NoProfile}, label : Label]
                        \cup {NoJob}]
    /\ todo \subseteq Instance /\ current \in Instance \cup {NoInstance}
    /\ seen \in [Tag -> Choice \cup {NoMapping}] /\ found \in [Item -> Choice \cup {NoMapping}]
    /\ run \in [Item -> Run]
    /\ given \in [Item -> Profile \cup {NoProfile}] /\ resolved \in [Item -> Profile \cup {NoProfile}]
    /\ stale \subseteq Item /\ failed \subseteq Item
    /\ gone \in [Item -> SUBSET Profile]

\* A profile that was deleted before a run claimed its job is not used by that
\* run, though jobs keep its id and GetProfile would still find it: deleting it
\* has deleted its mappings, and the run asks the mappings once more.  Unless
\* that fails, or a mapping to the deleted profile was made (DeleteProfile,
\* encodeOne).
DeletedProfileUnused ==
    \A i \in Item : (run[i] = "encode" /\ i \notin failed) => given[i] \notin gone[i] \ revived

\* While a job is encoded its row names the profile it is encoded with, unless
\* that was set by hand between the listing and the claim of the row (encodeOne
\* compares with its copy, SetJobsProfile spares jobs that are encoding).
RowTellsProfile ==
    \A i \in Item : (run[i] = "encode" /\ i \notin stale) => job[i].profile = given[i]

Stages == INSTANCE JobStages WITH Job <- Item, stage <- [i \in Item |-> job[i].status]

\* Whatever the reconciler, runs with their copies of rows, and users do to the job
\* of an item is one of the moves every part of the program may rely on
\* (queries.go): a run ends the row it has claimed, and no other.
ImplementsStages == Stages!Spec

\* The item has a tag that is mapped for the kind of its instance, and nothing
\* that keeps its file out.
Wanted(i) ==
    LET s == InstanceOf[i] IN
    /\ s \in enabled
    /\ ~PassedOver(i)
    /\ \E m \in mappings : m.tag \in itemTags[i] /\ m.kind \in {KindOf[s], "both"}

\* README.md: "Any item carrying a tag you've mapped to a profile gets a job
\* queued", if tag, mapping and instance stay, its path is one the reconciler
\* takes and no marker stays beside it: however polls fail, restarts interrupt
\* them and jobs are deleted.
MappedIsQueued == \A i \in Item : <>[]Wanted(i) => []<>(job[i].status # "none")

=============================================================================
