----------------------------- MODULE MediaFile -----------------------------
(***************************************************************************)
(* What happens to one media file: the reconciler that queues it           *)
(* (internal/job/reconcile.go), the part of encodeOne (internal/job/       *)
(* job.go) and of handbrake.Run (internal/handbrake/handbrake.go) that     *)
(* reads, writes and renames files, the marker files, and the start-up     *)
(* recovery (cmd/recodarr/main.go).                                        *)
(*                                                                         *)
(* The *arr gives every import of the file an item id of its own and       *)
(* replaces the file under the same path, as an upgrade does that keeps    *)
(* the name.  The name of the temp file depends on that path only, so the  *)
(* encodes of two of its rows write, rename and remove one temp file.      *)
(* Worker has the gates, the slots and the claim; here a row is ready at   *)
(* once, and as many encodes may be in progress as there are runs.  A size *)
(* is a small number.                                                      *)
(***************************************************************************)
EXTENDS Naturals, FiniteSets

CONSTANTS
    Run,            \* the goroutines of encodeOne there may be at once, one per slot
    MaxImports,     \* bound: how often the file is imported
    Sizes,          \* the sizes an import or an encode may have
    MaxRetries,     \* profile.BloatRetryMax
    Policies,       \* the values of profile.BloatPolicy
    SavingsPercent, \* the values of profile.BloatMinSavingsPercent
    MarkersOn,      \* AppSettings.OutputSuffixEnabled
    FaultsOn,       \* TRUE: a statement, a marker or a removal may fail
    MaxUpsets       \* bound: how often the process is killed (but for its start, which may die as often
                    \* as it likes), or a user retries or deletes a row

ASSUME FileAssumption ==
    /\ MaxImports \in Nat /\ Sizes \subseteq Nat /\ IsFiniteSet(Sizes) /\ MaxRetries \in Nat
    /\ Policies \subseteq {"off", "keep_original", "retry_higher_crf"}
    /\ SavingsPercent \subseteq 0..100
    /\ MarkersOn \in BOOLEAN /\ FaultsOn \in BOOLEAN /\ MaxUpsets \in Nat

Item == 1..MaxImports

VARIABLES
    \* --- on disk
    source,      \* the content under the media path
    temp,        \* the content of the temp file beside it, or NoFile
    marker,      \* the marker file exists
    at,          \* at[e]: where the file lies that e's HandBrake has open
    spoiled,     \* the runs whose HandBrake shares its file with another, or reads a part
    \* --- the *arr
    imports,     \* the items imported so far are 1..imports; the last one is what the *arr lists
    importSize,  \* its size when it was imported
    \* --- the jobs table
    row,         \* row[i]: the status of the job of item i, "none" without one
    rowSize,     \* row[i]'s file_size
    \* --- the process
    boot,        \* how far the start has come: "rows", "temps", then "up"
    polled,      \* the item the reconciler has read and found no marker for, 0 for none
    polledSize,  \* its size, as the *arr gave it
    encoder,     \* encoder[e]: where encodeOne is
    job,         \* job[e]: the item it encodes
    policy,      \* policy[e]: the profile's size guard
    savings,
    tries,       \* tries[e]: attempt, the number of encodes started
    final,       \* final[e]: RunResult.FinalSize
    \* --- history
    upsets,      \* how often the process was killed once it was up, or a user has acted
    shared,      \* an encode has started while another had use of the temp file
    missed       \* a temp file was left: its removal failed, or the start died before it

diskVars    == <<source, temp, marker>>
openVars    == <<at, spoiled, shared>>
fileVars    == <<diskVars, openVars, missed>>
rowVars     == <<row, rowSize>>
pollVars    == <<polled, polledSize>>
profileVars == <<job, policy, savings>>
encodeVars  == <<encoder, profileVars, tries, final>>
arrVars     == <<imports, importSize>>
userVars    == <<upsets, boot>>
vars == <<fileVars, arrVars, rowVars, pollVars, encodeVars, userVars>>

-----------------------------------------------------------------------------
\* A file's content: the import it comes from, how many encodes it has been
\* through (0, 1, or 2 for more), its size, and whether it is complete.
Content == [item : Item, encodes : 0..2, size : Sizes \cup {0}, whole : BOOLEAN]
NoFile  == [item |-> 0, encodes |-> 0, size |-> 0, whole |-> TRUE]

Terminal == {"done", "failed", "skipped"}
Encoder  == {"idle", "start", "handbrake", "decide", "commit", "discard", "markDone", "markSkipped", "error", "marker"}

\* The places of encodeOne at which the temp file is its own to write, rename
\* or remove.
UsesTemp == {"handbrake", "decide", "commit", "discard"}

Init ==
    /\ source = NoFile /\ temp = NoFile /\ marker = FALSE
    /\ at = [e \in Run |-> "none"] /\ spoiled = {}
    /\ imports = 0 /\ importSize = 0
    /\ row = [i \in Item |-> "none"]
    /\ rowSize = [i \in Item |-> 0]
    /\ boot = "up" /\ polled = 0 /\ polledSize = 0
    /\ encoder = [e \in Run |-> "idle"] /\ job = [e \in Run |-> 0] /\ policy = [e \in Run |-> "off"]
    /\ savings = [e \in Run |-> 0] /\ tries = [e \in Run |-> 0] /\ final = [e \in Run |-> 0]
    /\ upsets = 0 /\ shared = FALSE /\ missed = FALSE

-----------------------------------------------------------------------------
(* The *arr *)

\* A file under the media path goes: who has it open writes on, for nobody.
SourceGoes(e) == IF at[e] = "source" THEN "gone" ELSE at[e]

\* The *arr imports the file, or an upgrade of it, and replaces what is there.
Import ==
    /\ imports < MaxImports
    /\ imports' = imports + 1
    /\ importSize' \in Sizes
    /\ source' = [item |-> imports + 1, encodes |-> 0, size |-> importSize', whole |-> TRUE]
    /\ at' = [e \in Run |-> SourceGoes(e)]
    /\ UNCHANGED <<temp, marker, spoiled, shared, missed, rowVars, pollVars, encodeVars, userVars>>

-----------------------------------------------------------------------------
(* reconcileParent *)

\* The *arr lists its last import with the size it had then, or has since a
\* refresh; a file with a marker beside it is passed over.
PollFile ==
    /\ boot = "up" /\ polled = 0 /\ imports > 0
    /\ ~(MarkersOn /\ marker)
    /\ polled' = imports
    /\ polledSize' \in {importSize, source.size}
    /\ UNCHANGED <<fileVars, arrVars, rowVars, encodeVars, userVars>>

\* Mutant: only the jobs that are not over keep their item from being queued.
NoActiveJob(i) == row[i] \in {"none"} \cup Terminal

\* HasJobForItem finds no job, of whatever status.
NoJobForItem(i) == row[i] = "none"

\* The item is queued unless it has a job already.
QueueFile ==
    /\ polled # 0
    /\ polled' = 0 /\ polledSize' = 0
    /\ IF NoJobForItem(polled)
       THEN /\ row' = [row EXCEPT ![polled] = "ready"]
            /\ rowSize' = [rowSize EXCEPT ![polled] = polledSize]
       ELSE UNCHANGED rowVars
    /\ UNCHANGED <<fileVars, arrVars, encodeVars, userVars>>

-----------------------------------------------------------------------------
(* encodeOne *)

\* A step of encodeOne from one place to another.
Step(e, here, there) == encoder[e] = here /\ encoder' = [encoder EXCEPT ![e] = there]

\* encodeOne is over.
Return(e) ==
    /\ encoder' = [encoder EXCEPT ![e] = "idle"]
    /\ job' = [job EXCEPT ![e] = 0]
    /\ policy' = [policy EXCEPT ![e] = "off"]
    /\ savings' = [savings EXCEPT ![e] = 0]
    /\ tries' = [tries EXCEPT ![e] = 0]
    /\ final' = [final EXCEPT ![e] = 0]

\* UPDATE jobs SET status = s for the job's row.
SetRow(e, s) == row' = [row EXCEPT ![job[e]] = s]

\* A free slot: the row is claimed and its profile read.
Claim(e, i) ==
    /\ boot = "up"
    /\ Step(e, "idle", "start")
    /\ row[i] = "ready"
    /\ row' = [row EXCEPT ![i] = "encoding"]
    /\ job' = [job EXCEPT ![e] = i]
    /\ \E p \in Policies : policy' = [policy EXCEPT ![e] = p]
    /\ \E s \in SavingsPercent : savings' = [savings EXCEPT ![e] = s]
    /\ UNCHANGED <<fileVars, arrVars, rowSize, pollVars, tries, final, userVars>>

\* Before the first encode: no profile, or too little space on the disk.
Reject(e) ==
    /\ encoder[e] = "start" /\ tries[e] = 0
    /\ SetRow(e, "failed")
    /\ Return(e)
    /\ UNCHANGED <<fileVars, arrVars, rowSize, pollVars, userVars>>

\* Or a filter of the profile skips the file.
Filter(e) ==
    /\ Step(e, "start", "markSkipped") /\ tries[e] = 0
    /\ UNCHANGED <<fileVars, arrVars, rowVars, pollVars, profileVars, tries, final, userVars>>

\* handbrake.Run returns before HandBrake runs.
CannotStart(e) ==
    /\ Step(e, "start", "error")
    /\ UNCHANGED <<fileVars, arrVars, rowVars, pollVars, profileVars, tries, final, userVars>>

\* Mutant: the attempt is started anew with each encode.
FirstTry(e) == 1

NextTry(e) == tries[e] + 1

\* HandBrake opens the source and starts to write the temp file, over an old
\* one if there is one: one that another HandBrake writes is from now on
\* written by both.  (An agent's output is downloaded the same way.)
StartHandBrake(e) ==
    LET others == {g \in Run \ {e} : at[g] = "temp"}
    IN  /\ Step(e, "start", "handbrake")
        /\ tries' = [tries EXCEPT ![e] = NextTry(e)]
        /\ temp' = [source EXCEPT !.encodes = IF @ = 2 THEN 2 ELSE @ + 1, !.size = 0, !.whole = FALSE]
        /\ at' = [at EXCEPT ![e] = "temp"]
        /\ spoiled' = spoiled \cup others \cup (IF others = {} /\ source.whole THEN {} ELSE {e})
        /\ shared' = (shared \/ \E g \in Run \ {e} : encoder[g] \in UsesTemp)
        /\ UNCHANGED <<source, marker, missed, arrVars, rowVars, pollVars, profileVars, final, userVars>>

\* Mutant: the exit status is enough, the work result is not looked at.
ExitStatusOnly == {TRUE, FALSE}

\* A run that reports a work result of 0 has written the whole file.
Successful == {TRUE}

\* HandBrake has ended well, exit status 0 and a work result of 0, and what
\* lies at the temp path is measured; if nothing does, the encode has failed.
EndHandBrake(e) ==
    /\ encoder[e] = "handbrake"
    /\ \E s \in Sizes, w \in Successful :
         LET written(file) == [file EXCEPT !.size = s, !.whole = w /\ e \notin spoiled]
         IN  /\ temp' = IF at[e] = "temp" THEN written(temp) ELSE temp
             /\ source' = IF at[e] = "source" THEN written(source) ELSE source
    /\ at' = [at EXCEPT ![e] = "none"]
    /\ spoiled' = spoiled \ {e}
    /\ encoder' = [encoder EXCEPT ![e] = IF temp = NoFile THEN "error" ELSE "decide"]
    /\ final' = [final EXCEPT ![e] = temp'.size]
    /\ UNCHANGED <<marker, shared, missed, arrVars, rowVars, pollVars, profileVars, tries, userVars>>

\* The temp file is removed, whoever writes it; an error is not looked at.
RemoveTemp(e) ==
    \/ /\ temp' = NoFile
       /\ at' = [g \in Run |-> CASE g = e -> "none" [] g # e /\ at[g] = "temp" -> "gone" [] OTHER -> at[g]]
       /\ UNCHANGED missed
    \/ /\ FaultsOn
       /\ missed' = TRUE
       /\ at' = [at EXCEPT ![e] = "none"]
       /\ UNCHANGED temp

\* HandBrake fails or is cancelled: the temp file is removed.
FailHandBrake(e) ==
    /\ Step(e, "handbrake", "error")
    /\ RemoveTemp(e)
    /\ spoiled' = spoiled \ {e}
    /\ UNCHANGED <<source, marker, shared, arrVars, rowVars, pollVars, profileVars, tries, final, userVars>>

\* Mutant: the savings asked for are not taken off.
ThresholdOfSize(e) == rowSize[job[e]]

\* The size the encode may have: file_size, less the savings asked for.
Threshold(e) == rowSize[job[e]] - (rowSize[job[e]] * savings[e]) \div 100

Fits(e) == policy[e] = "off" \/ final[e] <= Threshold(e)

\* The size guard lets the encode be committed,
Accept(e) ==
    /\ Step(e, "decide", "commit")
    /\ Fits(e)
    /\ UNCHANGED <<fileVars, arrVars, rowVars, pollVars, profileVars, tries, final, userVars>>

Retries(e) == policy[e] = "retry_higher_crf" /\ tries[e] <= MaxRetries

\* or discards it and tries with a higher CRF, or keeps the original.
Discard(e) ==
    /\ Step(e, "decide", IF Retries(e) THEN "start" ELSE "markSkipped")
    /\ ~Fits(e)
    /\ RemoveTemp(e)
    /\ UNCHANGED <<source, marker, spoiled, shared, arrVars, rowVars, pollVars, profileVars, tries, final, userVars>>

\* Commit renames what is at the temp path over the source, whatever is there by now.
Commit(e) ==
    /\ Step(e, "commit", "markDone")
    /\ temp # NoFile
    /\ source' = temp
    /\ temp' = NoFile
    /\ at' = [g \in Run |-> IF at[g] = "temp" THEN "source" ELSE SourceGoes(g)]
    /\ UNCHANGED <<marker, spoiled, shared, missed, arrVars, rowVars, pollVars, profileVars, tries, final, userVars>>

\* The rename fails: the temp file is removed.
FailCommit(e) ==
    /\ Step(e, "commit", "discard")
    /\ RemoveTemp(e)
    /\ UNCHANGED <<source, marker, spoiled, shared, arrVars, rowVars, pollVars, profileVars, tries, final, userVars>>

\* And removed once more, unless the rename was handbrake.Run's own or the
\* encode is to be done again after a pause.
DiscardAgain(e) ==
    /\ Step(e, "discard", "error")
    /\ RemoveTemp(e) \/ UNCHANGED <<temp, at, missed>>
    /\ UNCHANGED <<source, marker, spoiled, shared, arrVars, rowVars, pollVars, profileVars, tries, final, userVars>>

\* The row fails, or after a pause is ready again.
EndInError(e) ==
    /\ encoder[e] = "error"
    /\ \/ SetRow(e, "failed") \/ SetRow(e, "ready")
       \/ FaultsOn /\ UNCHANGED row
    /\ Return(e)
    /\ UNCHANGED <<fileVars, arrVars, rowSize, pollVars, userVars>>

\* MarkJobDone; if it fails encodeOne is over.
MarkDone(e) ==
    /\ encoder[e] = "markDone"
    /\ \/ /\ SetRow(e, "done")
          /\ encoder' = [encoder EXCEPT ![e] = "marker"]
          /\ UNCHANGED <<profileVars, tries, final>>
       \/ /\ FaultsOn
          /\ Return(e)
          /\ UNCHANGED row
    /\ UNCHANGED <<fileVars, arrVars, rowSize, pollVars, userVars>>

\* MarkJobSkipped; if it fails encodeOne goes on all the same.
MarkSkipped(e) ==
    /\ Step(e, "markSkipped", "marker")
    /\ SetRow(e, "skipped") \/ (FaultsOn /\ UNCHANGED row)
    /\ UNCHANGED <<fileVars, arrVars, rowSize, pollVars, profileVars, tries, final, userVars>>

\* The marker is written, if it can be.
WriteMarker(e) ==
    /\ encoder[e] = "marker"
    /\ \/ marker' = (marker \/ MarkersOn)
       \/ FaultsOn /\ UNCHANGED marker
    /\ Return(e)
    /\ UNCHANGED <<source, temp, openVars, missed, arrVars, rowVars, pollVars, userVars>>

-----------------------------------------------------------------------------
(* The user *)

RetryRow(i) ==
    /\ upsets < MaxUpsets /\ boot = "up"
    /\ row[i] \in Terminal
    /\ row' = [row EXCEPT ![i] = "ready"]
    /\ upsets' = upsets + 1
    /\ UNCHANGED <<fileVars, arrVars, rowSize, pollVars, encodeVars, boot>>

DeleteRow(i) ==
    /\ upsets < MaxUpsets /\ boot = "up"
    /\ row[i] \in Terminal \cup {"ready"}
    /\ row' = [row EXCEPT ![i] = "none"]
    /\ upsets' = upsets + 1
    /\ UNCHANGED <<fileVars, arrVars, rowSize, pollVars, encodeVars, boot>>

-----------------------------------------------------------------------------
(* A crash, and the start after it *)

\* The process is killed, in the middle of a start or later, and with it every
\* HandBrake it runs.
Crash ==
    /\ \/ boot # "up" /\ UNCHANGED upsets
       \/ boot = "up" /\ upsets < MaxUpsets /\ upsets' = upsets + 1
    /\ boot' = "rows"
    /\ missed' = (missed \/ boot = "temps")
    /\ polled' = 0 /\ polledSize' = 0
    /\ at' = [e \in Run |-> "none"] /\ spoiled' = {}
    /\ encoder' = [e \in Run |-> "idle"] /\ job' = [e \in Run |-> 0] /\ policy' = [e \in Run |-> "off"]
    /\ savings' = [e \in Run |-> 0] /\ tries' = [e \in Run |-> 0] /\ final' = [e \in Run |-> 0]
    /\ UNCHANGED <<diskVars, arrVars, rowVars, shared>>

Orphans == {i \in Item : row[i] = "encoding"}

\* RecoverOrphanEncoding: the rows that were encoding are ready, and their
\* temp files are still to be removed; if the statement fails, that is all.
RecoverRows ==
    /\ boot = "rows"
    /\ \/ /\ row' = [i \in Item |-> IF i \in Orphans THEN "ready" ELSE row[i]]
          /\ boot' = (IF Orphans = {} THEN "up" ELSE "temps")
       \/ /\ FaultsOn
          /\ boot' = "up"
          /\ UNCHANGED row
    /\ UNCHANGED <<fileVars, arrVars, rowSize, pollVars, encodeVars, upsets>>

\* Mutant: the rows are put back, and their temp files forgotten.
TempsForgotten == UNCHANGED <<temp, missed>>

\* The directory is read and the temp file removed; an error is not looked at.
RemoveStale ==
    \/ temp' = NoFile /\ UNCHANGED missed
    \/ FaultsOn /\ missed' = TRUE /\ UNCHANGED temp

RemoveTemps ==
    /\ boot = "temps"
    /\ boot' = "up"
    /\ RemoveStale
    /\ UNCHANGED <<source, marker, openVars, arrVars, rowVars, pollVars, encodeVars, upsets>>

-----------------------------------------------------------------------------
Poll == PollFile \/ QueueFile

Encode(e) ==
    \/ \E i \in Item : Claim(e, i)
    \/ Reject(e) \/ Filter(e) \/ CannotStart(e) \/ StartHandBrake(e) \/ EndHandBrake(e) \/ FailHandBrake(e)
    \/ Accept(e) \/ Discard(e) \/ Commit(e) \/ FailCommit(e) \/ DiscardAgain(e) \/ EndInError(e) \/ MarkDone(e)
    \/ MarkSkipped(e) \/ WriteMarker(e)

Next ==
    \/ Import \/ Poll \/ Crash \/ RecoverRows \/ RemoveTemps
    \/ \E e \in Run : Encode(e)
    \/ \E i \in Item : RetryRow(i) \/ DeleteRow(i)

Spec == Init /\ [][Next]_vars

-----------------------------------------------------------------------------
(* Properties *)

\* Every variable stays in its range.
TypeOK ==
    /\ source \in Content \cup {NoFile} /\ temp \in Content \cup {NoFile}
    /\ at \in [Run -> {"none", "temp", "source", "gone"}] /\ spoiled \subseteq Run
    /\ marker \in BOOLEAN /\ shared \in BOOLEAN /\ missed \in BOOLEAN
    /\ imports \in 0..MaxImports /\ importSize \in Sizes \cup {0}
    /\ row \in [Item -> Terminal \cup {"none", "ready", "encoding"}]
    /\ rowSize \in [Item -> Sizes \cup {0}]
    /\ boot \in {"rows", "temps", "up"}
    /\ polled \in Item \cup {0} /\ polledSize \in Sizes \cup {0}
    /\ encoder \in [Run -> Encoder] /\ job \in [Run -> Item \cup {0}]
    /\ policy \in [Run -> Policies \cup {"off"}] /\ savings \in [Run -> SavingsPercent \cup {0}]
    /\ tries \in [Run -> 0..(MaxRetries + 1)] /\ final \in [Run -> Sizes \cup {0}]
    /\ upsets \in 0..MaxUpsets

\* As long as no encode of the file starts while another has use of the temp
\* file, what lies under the media path is at no moment, and after no crash, a
\* part of an encode (handbrake.Run, Commit).
SourceIsWhole == ~shared => source.whole

\* The temp file does not outlive the encodes that use it, whichever way they
\* end and whatever they do to each other's file, nor a crash: the start is about
\* to remove it, or its row is still encoding and leads the next start to it.
\* What is lost is a temp file whose removal fails, or that of a start which
\* dies between the rows and the removal (Run, Commit, recoverOrphanEncodes).
TempRemoved ==
    temp # NoFile => \/ \E e \in Run : encoder[e] \in {"handbrake", "decide", "commit"}
                     \/ Orphans # {} \/ boot = "temps" \/ missed

\* With a size guard an encode replaces the file only if it saves what the
\* profile asks for against the job's file_size, up to a byte of rounding.
GuardHolds ==
    [][\A e \in Run : Commit(e) /\ ~shared /\ policy[e] # "off" /\ source'.size > 0
        => (source'.size - 1) * 100 < rowSize[job[e]] * (100 - savings[e])]_vars

\* A file that was imported once is not encoded twice when no one retries or
\* deletes its row and no process dies, however often the reconciler polls and
\* whatever statements fail, with and without markers (HasJobForItem).
EncodedOnce == imports <= 1 /\ upsets = 0 => source.encodes <= 1

\* Whether a row waits, is encoded, or is over.
StageOf(s) ==
    CASE s = "ready"       -> "queued"
      [] s \in Terminal    -> "over"
      [] OTHER             -> s

Stages == INSTANCE JobStages WITH Job <- Item, stage <- [i \in Item |-> StageOf(row[i])]

\* What the reconciler, encodeOne, users and the recovery do to the row of an item
\* is one of the moves every part of the program may rely on: encodeOne sets the
\* outcome of a row that is encoding, though its statements do not ask for that
\* (MarkJobDone, MarkJobSkipped, MarkJobFailed).
ImplementsStages == Stages!Spec

\* How far each place is from the end, leaving aside the encodes that follow
\* when the size guard tries again.
PlacesLeft(p) ==
    CASE p = "handbrake"                         -> 8
      [] p = "decide"                            -> 7
      [] p = "commit"                            -> 6
      [] p = "discard"                           -> 5
      [] p = "start"                             -> 4
      [] p \in {"markDone", "markSkipped", "error"} -> 3
      [] p = "marker"                            -> 1
      [] OTHER                                   -> 0

\* How many steps encodeOne has left at most: those of the encodes the size guard
\* may still ask for, and those of this one.
StepsLeft(e) == IF encoder[e] = "idle" THEN 0 ELSE 8 * (MaxRetries + 1 - tries[e]) + PlacesLeft(encoder[e])

\* Every step of an encode brings it nearer to its end, over all encodes the size
\* guard asks for and whatever fails, and no step of anything else, another encode
\* of the file included, takes it further away (encodeOne).
EncodeDescends ==
    [][\A e \in Run : encoder[e] # "idle" => /\ Encode(e) => StepsLeft(e)' < StepsLeft(e)
                                           /\ StepsLeft(e)' <= StepsLeft(e)]_vars

-----------------------------------------------------------------------------
(* What the documentation says *)

\* The server commits with an "atomic rename over the original" (docs/
\* remote-agent.md:81): what lies under the media path is the original and then
\* the whole encode, never a part of one.
CommitIsAtomic == source.whole

=============================================================================
