--------------------------- MODULE MediaFileProofs ---------------------------
(***************************************************************************)
(* Theorems of MediaFile, for every number of runs, imports, retries and   *)
(* crashes, all sizes and size guards, and with or without users and       *)
(* faults.                                                                 *)
(***************************************************************************)
EXTENDS MediaFile, Integers, TLAPS

-----------------------------------------------------------------------------
(* The inductive invariant *)

\* The places of encodeOne up to the statement that settles the row.
Unsettled == UsesTemp \cup {"start", "markDone", "markSkipped", "error"}

\* The places at which there is a temp file, if no other encode has taken it.
WithTemp == {"handbrake", "decide", "commit"}

\* encodeOne works on a row of its own that is encoding, and not while the
\* process starts.
RowIsHeld ==
    /\ \A e \in Run :
        /\ encoder[e] = "idle" => job[e] = 0 /\ tries[e] = 0
        /\ encoder[e] # "idle" => job[e] \in Item /\ boot = "up"
        /\ encoder[e] \in Unsettled => row[job[e]] = "encoding"
    /\ \A e, g \in Run : encoder[e] \in Unsettled /\ encoder[g] \in Unsettled /\ job[e] = job[g] => e = g

\* Without an import there is nothing to work on.
ImportedFirst ==
    /\ imports > 0 => source \in Content
    /\ (polled # 0 \/ (\E e \in Run : encoder[e] # "idle") \/ (\E i \in Item : row[i] # "none")) => imports > 0

\* Only a HandBrake that runs has a file open, and the file it has open at the
\* temp path is there.
FilesAreOpen ==
    /\ \A e \in Run : at[e] # "none" => encoder[e] = "handbrake"
    /\ \A e \in Run : at[e] = "temp" => temp \in Content
    /\ \A e \in spoiled : encoder[e] = "handbrake"

\* As long as no encode of the file has started while another had use of the
\* temp file, it is one encode's at a time: what that one writes, and what it
\* commits, is its own and whole.
TempIsOwn ==
    ~shared =>
        /\ source.whole
        /\ \A e, g \in Run : encoder[e] \in UsesTemp /\ encoder[g] \in UsesTemp => e = g
        /\ \A e \in Run : encoder[e] = "handbrake" => at[e] = "temp" /\ e \notin spoiled
        /\ \A e \in Run : encoder[e] \in {"decide", "commit"} =>
                           temp \in Content /\ temp.whole /\ temp.size = final[e]

\* What is about to be committed satisfies the guard.
CommitIsChecked == \A e \in Run : encoder[e] = "commit" => Fits(e)

\* A row that a restart could not put back.
Orphan(i) == row[i] = "encoding" /\ \A e \in Run : encoder[e] \in Unsettled => job[e] # i

\* A temp file that no encode uses belongs to such a row, or is about to be
\* removed, or was missed.
StaleTempIsFound ==
    temp # NoFile => \/ \E e \in Run : encoder[e] \in WithTemp
                     \/ \E i \in Item : Orphan(i)
                     \/ boot = "temps" \/ missed

\* The size guard never asks for one encode more than it may.
TriesAreLeft == \A e \in Run : encoder[e] = "start" => tries[e] <= MaxRetries

Inv ==
    /\ TypeOK /\ RowIsHeld /\ ImportedFirst /\ FilesAreOpen /\ TempIsOwn
    /\ CommitIsChecked /\ StaleTempIsFound /\ TriesAreLeft

-----------------------------------------------------------------------------
(* Files *)

\* What HandBrake starts to write is an encode of the source.
LEMMA StartedContent ==
    ASSUME Inv, NEW e \in Run, StartHandBrake(e)
    PROVE  /\ source \in Content /\ temp' \in Content
           /\ source.encodes = 0 => temp'.encodes = 1
<1> DEFINE n == IF source.encodes = 2 THEN 2 ELSE source.encodes + 1
<1>1. source \in Content
  BY DEF StartHandBrake, Step, Inv, ImportedFirst
<1>2. n \in 0..2 /\ source.item \in Item
  BY <1>1 DEF Content
<1>3. temp' = [item |-> source.item, encodes |-> n, size |-> 0, whole |-> FALSE]
  BY <1>1 DEF StartHandBrake, Content
<1> QED
  BY <1>1, <1>2, <1>3 DEF Content

\* What a HandBrake that ends well has written.
Written(file, s, w) == [file EXCEPT !.size = s, !.whole = w]

LEMMA WrittenContent ==
    ASSUME NEW file \in Content, NEW s \in Sizes, NEW w \in BOOLEAN
    PROVE  /\ Written(file, s, w) \in Content
           /\ Written(file, s, w).whole = w /\ Written(file, s, w).size = s
           /\ Written(file, s, w).encodes = file.encodes
<1>1. ASSUME NEW A, NEW B, NEW C, NEW D, NEW f \in [item : A, encodes : B, size : C, whole : D], NEW v
      PROVE  LET x == [f EXCEPT !.size = s, !.whole = v]
             IN  /\ x \in [item : A, encodes : B, size : {s}, whole : {v}]
                 /\ x.whole = v /\ x.size = s /\ x.encodes = f.encodes
  OBVIOUS
<1>2. /\ Written(file, s, w) \in [item : Item, encodes : 0..2, size : {s}, whole : {w}]
      /\ Written(file, s, w).whole = w /\ Written(file, s, w).size = s
      /\ Written(file, s, w).encodes = file.encodes
  BY <1>1, Zenon DEF Written, Content
<1>3. {s} \subseteq Sizes \cup {0} /\ {w} \subseteq BOOLEAN
  BY Zenon
<1>4. ASSUME NEW A, NEW B, NEW C, NEW D, NEW x, x \in [item : Item, encodes : 0..2, size : A, whole : B],
             A \subseteq C, B \subseteq D
      PROVE  x \in [item : Item, encodes : 0..2, size : C, whole : D]
  BY <1>4
<1> QED
  BY <1>2, <1>3, <1>4, Zenon DEF Content

\* Where the files are when HandBrake has ended well, and what is in them.
LEMMA EndedContent ==
    ASSUME Inv, NEW e \in Run, EndHandBrake(e)
    PROVE  \E s \in Sizes, w \in BOOLEAN :
             /\ e \notin spoiled => w
             /\ at[e] = "temp" => temp \in Content /\ temp' = Written(temp, s, w)
             /\ at[e] # "temp" => temp' = temp
             /\ at[e] = "source" => source \in Content /\ source' = Written(source, s, w)
             /\ at[e] # "source" => source' = source
<1>1. PICK s \in Sizes :
        /\ temp' = IF at[e] = "temp" THEN Written(temp, s, e \notin spoiled) ELSE temp
        /\ source' = IF at[e] = "source" THEN Written(source, s, e \notin spoiled) ELSE source
  <2>1. PICK s \in Sizes, w \in Successful :
          /\ temp' = IF at[e] = "temp" THEN [temp EXCEPT !.size = s, !.whole = w /\ e \notin spoiled] ELSE temp
          /\ source' = IF at[e] = "source" THEN [source EXCEPT !.size = s, !.whole = w /\ e \notin spoiled] ELSE source
    BY DEF EndHandBrake
  <2>2. w = TRUE
    BY DEF Successful
  <2>3. (w /\ e \notin spoiled) = (e \notin spoiled)
    BY <2>2, Zenon
  <2> QED
    BY <2>1, <2>3, Zenon DEF Written
<1>2. (e \notin spoiled) \in BOOLEAN
  BY Zenon
<1>3. at[e] = "temp" => temp \in Content
  BY DEF Inv, FilesAreOpen
<1>4. at[e] = "source" => source \in Content
  BY DEF EndHandBrake, Inv, ImportedFirst
<1> QED
  BY <1>1, <1>2, <1>3, <1>4, Zenon

LEMMA EndedTypes ==
    ASSUME Inv, NEW e \in Run, EndHandBrake(e)
    PROVE  /\ temp \in Content => temp' \in Content
           /\ source \in Content => source' \in Content
           /\ temp = NoFile => temp' = NoFile \/ temp' \in Content
           /\ source = NoFile => source' = NoFile \/ source' \in Content
<1>1. PICK s \in Sizes, w \in BOOLEAN :
        /\ at[e] = "temp" => temp \in Content /\ temp' = Written(temp, s, w)
        /\ at[e] # "temp" => temp' = temp
        /\ at[e] = "source" => source \in Content /\ source' = Written(source, s, w)
        /\ at[e] # "source" => source' = source
  BY EndedContent, Zenon
<1>2. temp \in Content => Written(temp, s, w) \in Content
  BY WrittenContent
<1>3. source \in Content => Written(source, s, w) \in Content
  BY WrittenContent
<1> QED
  BY <1>1, <1>2, <1>3, Zenon

-----------------------------------------------------------------------------
(* What a step of encodeOne leaves alone *)

\* The steps of encodeOne that neither open, write, rename nor remove a file.
Quiet(e) ==
    \/ \E i \in Item : Claim(e, i)
    \/ Reject(e) \/ Filter(e) \/ CannotStart(e) \/ Accept(e)
    \/ EndInError(e) \/ MarkDone(e) \/ MarkSkipped(e) \/ WriteMarker(e)

\* The steps that remove the temp file.
Removing(e) == FailHandBrake(e) \/ Discard(e) \/ FailCommit(e) \/ DiscardAgain(e)

LEMMA EncodeSplit ==
    ASSUME NEW e \in Run, Encode(e)
    PROVE  Quiet(e) \/ StartHandBrake(e) \/ EndHandBrake(e) \/ Removing(e) \/ Commit(e)
BY DEF Encode, Quiet, Removing

LEMMA QuietFrame ==
    ASSUME NEW e \in Run, Quiet(e)
    PROVE  UNCHANGED <<source, temp, at, spoiled, shared, missed>>
BY DEF Quiet, Claim, Reject, Filter, CannotStart, Accept, EndInError, MarkDone, MarkSkipped, WriteMarker,
       fileVars, diskVars, openVars

\* A step of one encode leaves the others where they are.
LEMMA OthersStay ==
    ASSUME Inv, NEW e \in Run, Encode(e)
    PROVE  /\ UNCHANGED <<imports, importSize, polled, polledSize, rowSize, boot, upsets>>
           /\ \A g \in Run \ {e} : /\ encoder'[g] = encoder[g] /\ job'[g] = job[g] /\ tries'[g] = tries[g]
                                   /\ policy'[g] = policy[g] /\ savings'[g] = savings[g] /\ final'[g] = final[g]
           /\ encoder' = [encoder EXCEPT ![e] = encoder'[e]]
<1> USE DEF Inv, TypeOK, Step, Return
<1>1. CASE \E i \in Item : Claim(e, i)
  BY <1>1 DEF Claim, arrVars, pollVars, userVars
<1>2. CASE Reject(e) \/ EndInError(e) \/ WriteMarker(e) \/ MarkDone(e)
  BY <1>2 DEF Reject, EndInError, WriteMarker, MarkDone, arrVars, rowVars, pollVars, userVars, profileVars
<1>3. CASE Filter(e) \/ CannotStart(e) \/ Accept(e) \/ MarkSkipped(e)
  BY <1>3 DEF Filter, CannotStart, Accept, MarkSkipped, arrVars, rowVars, pollVars, userVars, profileVars
<1>4. CASE StartHandBrake(e) \/ EndHandBrake(e)
  BY <1>4 DEF StartHandBrake, EndHandBrake, arrVars, rowVars, pollVars, userVars, profileVars
<1>5. CASE Removing(e) \/ Commit(e)
  BY <1>5 DEF Removing, FailHandBrake, Discard, FailCommit, DiscardAgain, Commit, arrVars, rowVars, pollVars,
              userVars, profileVars
<1> HIDE DEF Inv, TypeOK, Step, Return
<1> QED
  BY <1>1, <1>2, <1>3, <1>4, <1>5, EncodeSplit DEF Quiet

\* The row of an encode is encoding until the encode settles it, and no other row is
\* touched.
LEMMA RowsMove ==
    ASSUME Inv, NEW e \in Run, Encode(e)
    PROVE  \/ /\ row' = row
              /\ encoder[e] # "idle" /\ (encoder'[e] \in Unsettled => encoder[e] \in Unsettled)
              /\ encoder'[e] # "idle" => job' = job
              /\ encoder'[e] = "idle" => job'[e] = 0 /\ tries'[e] = 0
           \/ /\ encoder[e] = "idle" /\ encoder'[e] = "start" /\ job'[e] \in Item
              /\ row[job'[e]] = "ready" /\ row' = [row EXCEPT ![job'[e]] = "encoding"] /\ boot = "up"
           \/ /\ encoder[e] \in Unsettled
              /\ \E t \in Terminal \cup {"ready"} : row' = [row EXCEPT ![job[e]] = t]
              /\ \/ encoder'[e] = "idle" /\ job'[e] = 0 /\ tries'[e] = 0
                 \/ encoder'[e] = "marker" /\ job' = job
<1> USE DEF Inv, TypeOK, Step, Return, Unsettled, UsesTemp, SetRow, Terminal
<1>1. CASE \E i \in Item : Claim(e, i)
  BY <1>1 DEF Claim
<1>2. CASE Reject(e) \/ EndInError(e)
  BY <1>2 DEF Reject, EndInError
<1>3. CASE MarkDone(e) \/ MarkSkipped(e)
  BY <1>3 DEF MarkDone, MarkSkipped, profileVars
<1>4. CASE WriteMarker(e) \/ Filter(e) \/ CannotStart(e) \/ Accept(e)
  BY <1>4 DEF WriteMarker, Filter, CannotStart, Accept, rowVars, profileVars
<1>5. CASE StartHandBrake(e) \/ EndHandBrake(e)
  BY <1>5 DEF StartHandBrake, EndHandBrake, rowVars, profileVars
<1>6. CASE Removing(e) \/ Commit(e)
  BY <1>6 DEF Removing, FailHandBrake, Discard, FailCommit, DiscardAgain, Commit, rowVars, profileVars
<1> HIDE DEF Inv, TypeOK, Step, Return, Unsettled, UsesTemp, SetRow, Terminal
<1> QED
  BY <1>1, <1>2, <1>3, <1>4, <1>5, <1>6, EncodeSplit DEF Quiet

-----------------------------------------------------------------------------
(* Types *)

LEMMA Flags ==
    ASSUME Inv, [Next]_vars
    PROVE  marker' \in BOOLEAN /\ shared' \in BOOLEAN /\ missed' \in BOOLEAN
<1>0. marker \in BOOLEAN /\ shared \in BOOLEAN /\ missed \in BOOLEAN
  BY Zenon DEF Inv, TypeOK
<1>1. marker' = marker \/ (marker' = (marker \/ MarkersOn))
  BY DEF Next, Poll, Encode, Import, PollFile, QueueFile, Crash, RecoverRows, RemoveTemps, Claim, Reject, Filter,
         CannotStart, StartHandBrake, EndHandBrake, FailHandBrake, Accept, Discard, Commit, FailCommit,
         DiscardAgain, EndInError, MarkDone, MarkSkipped, WriteMarker, RetryRow, DeleteRow,
         vars, fileVars, diskVars
<1>2. shared' = shared \/ \E e \in Run : shared' = (shared \/ \E g \in Run \ {e} : encoder[g] \in UsesTemp)
  BY DEF Next, Poll, Encode, Import, PollFile, QueueFile, Crash, RecoverRows, RemoveTemps, Claim, Reject, Filter,
         CannotStart, StartHandBrake, EndHandBrake, FailHandBrake, Accept, Discard, Commit, FailCommit,
         DiscardAgain, EndInError, MarkDone, MarkSkipped, WriteMarker, RetryRow, DeleteRow,
         vars, fileVars, openVars
<1>3. missed' = missed \/ missed' = TRUE \/ missed' = (missed \/ boot = "temps")
  BY DEF Next, Poll, Encode, Import, PollFile, QueueFile, Crash, RecoverRows, RemoveTemps, RemoveStale, RemoveTemp,
         Claim, Reject, Filter, CannotStart, StartHandBrake, EndHandBrake, FailHandBrake, Accept, Discard, Commit,
         FailCommit, DiscardAgain, EndInError, MarkDone, MarkSkipped, WriteMarker, RetryRow, DeleteRow,
         vars, fileVars
<1> QED
  BY <1>0, <1>1, <1>2, <1>3, FileAssumption, Zenon

\* What the *arr, the reconciler, the user and the operating system do keeps the types.
LEMMA OutsideTypeOK ==
    ASSUME Inv, Import \/ Poll \/ Crash \/ RecoverRows \/ RemoveTemps \/ (\E i \in Item : RetryRow(i) \/ DeleteRow(i))
    PROVE  TypeOK'
<1>0. marker' \in BOOLEAN /\ shared' \in BOOLEAN /\ missed' \in BOOLEAN
  BY Flags DEF Next
<1> USE <1>0, FileAssumption DEF Inv, TypeOK, Item
<1>1. CASE Import
  <2>1. imports' \in Item /\ imports' = imports + 1 /\ importSize' \in Sizes
    BY <1>1 DEF Import
  <2>2. source' = [item |-> imports', encodes |-> 0, size |-> importSize', whole |-> TRUE]
    BY <1>1, <2>1 DEF Import
  <2>3. source' \in Content
    BY <2>1, <2>2 DEF Content
  <2>4. UNCHANGED <<temp, spoiled, rowVars, pollVars, encodeVars, userVars>>
    BY <1>1 DEF Import
  <2>5. at' \in [Run -> {"none", "temp", "source", "gone"}]
    BY <1>1 DEF Import, SourceGoes
  <2> QED
    BY <2>1, <2>3, <2>4, <2>5 DEF rowVars, pollVars, encodeVars, profileVars, userVars
<1>2. CASE PollFile
  <2>1. source.size \in Sizes \cup {0}
    BY DEF Content, NoFile
  <2> QED
    BY <1>2, <2>1 DEF PollFile, fileVars, diskVars, openVars, arrVars, rowVars, encodeVars, profileVars, userVars
<1>3. CASE QueueFile
  <2>1. row' \in [Item -> Terminal \cup {"none", "ready", "encoding"}] /\ rowSize' \in [Item -> Sizes \cup {0}]
    <3> HIDE DEF TypeOK, Inv
    <3>1. /\ row \in [Item -> Terminal \cup {"none", "ready", "encoding"}] /\ rowSize \in [Item -> Sizes \cup {0}]
          /\ polledSize \in Sizes \cup {0}
      BY DEF Inv, TypeOK
    <3> QED
      BY <1>3, <3>1 DEF QueueFile, rowVars
  <2>2. UNCHANGED <<fileVars, arrVars, encodeVars, userVars>> /\ polled' = 0 /\ polledSize' = 0
    BY <1>3 DEF QueueFile
  <2> QED
    BY <2>1, <2>2 DEF fileVars, diskVars, openVars, arrVars, encodeVars, profileVars, userVars
<1>4. CASE \E i \in Item : RetryRow(i) \/ DeleteRow(i)
  <2>1. row' \in [Item -> Terminal \cup {"none", "ready", "encoding"}]
    BY <1>4 DEF RetryRow, DeleteRow
  <2>2. UNCHANGED <<fileVars, arrVars, rowSize, pollVars, encodeVars, boot>>
    BY <1>4 DEF RetryRow, DeleteRow
  <2>3. upsets' \in 0..MaxUpsets
    BY <1>4 DEF RetryRow, DeleteRow
  <2> QED
    BY <2>1, <2>2, <2>3 DEF fileVars, diskVars, openVars, arrVars, pollVars, encodeVars, profileVars
<1>5. CASE Crash
  BY <1>5 DEF Crash, diskVars, arrVars, rowVars, Encoder
<1>6. CASE RecoverRows
  BY <1>6 DEF RecoverRows, fileVars, diskVars, openVars, arrVars, pollVars, encodeVars, profileVars
<1>7. CASE RemoveTemps
  BY <1>7 DEF RemoveTemps, RemoveStale, openVars, arrVars, rowVars, pollVars, encodeVars, profileVars
<1> HIDE DEF Inv, TypeOK
<1> QED
  BY <1>1, <1>2, <1>3, <1>4, <1>5, <1>6, <1>7 DEF Poll

\* The steps of encodeOne keep the types.
LEMMA EncodeTypeOK ==
    ASSUME Inv, NEW e \in Run, Encode(e)
    PROVE  TypeOK'
<1>0. marker' \in BOOLEAN /\ shared' \in BOOLEAN /\ missed' \in BOOLEAN
  BY Flags DEF Next
<1>1. UNCHANGED <<imports, importSize, polled, polledSize, rowSize, boot, upsets>>
  BY OthersStay
<1> USE <1>0, <1>1, FileAssumption DEF Inv, TypeOK, Step, Return, SetRow, Encoder, Terminal
<1>2. CASE Quiet(e)
  <2>1. UNCHANGED <<source, temp, at, spoiled>>
    BY <1>2, QuietFrame
  <2>2. CASE \E i \in Item : Claim(e, i)
    BY <2>1, <2>2 DEF Claim
  <2>3. CASE Reject(e) \/ EndInError(e) \/ MarkDone(e) \/ MarkSkipped(e)
    BY <2>1, <2>3 DEF Reject, EndInError, MarkDone, MarkSkipped, profileVars
  <2>4. CASE Filter(e) \/ CannotStart(e) \/ Accept(e) \/ WriteMarker(e)
    BY <2>1, <2>4 DEF Filter, CannotStart, Accept, WriteMarker, rowVars, profileVars
  <2> QED
    BY <1>2, <2>2, <2>3, <2>4 DEF Quiet
<1>3. CASE StartHandBrake(e)
  <2>1. tries' \in [Run -> 0..(MaxRetries + 1)]
    BY <1>3 DEF StartHandBrake, NextTry, TriesAreLeft
  <2>2. spoiled' \subseteq Run
    BY <1>3 DEF StartHandBrake
  <2> QED
    BY <1>3, <2>1, <2>2, StartedContent DEF StartHandBrake, rowVars, profileVars
<1>4. CASE EndHandBrake(e)
  <2>1. temp' \in Content \cup {NoFile} /\ source' \in Content \cup {NoFile}
    BY <1>4, EndedTypes
  <2>2. temp'.size \in Sizes \cup {0}
    BY <2>1 DEF Content, NoFile
  <2> QED
    BY <1>4, <2>1, <2>2 DEF EndHandBrake, rowVars, profileVars
<1>5. CASE Removing(e)
  <2>1. at' \in [Run -> {"none", "temp", "source", "gone"}] /\ temp' \in Content \cup {NoFile}
    BY <1>5 DEF Removing, FailHandBrake, Discard, FailCommit, DiscardAgain, RemoveTemp
  <2>2. encoder' \in [Run -> Encoder]
    BY <1>5 DEF Removing, FailHandBrake, Discard, FailCommit, DiscardAgain
  <2> QED
    BY <1>5, <2>1, <2>2 DEF Removing, FailHandBrake, Discard, FailCommit, DiscardAgain, rowVars, profileVars
<1>6. CASE Commit(e)
  BY <1>6 DEF Commit, SourceGoes, rowVars, profileVars
<1> HIDE DEF Inv, TypeOK, Step, Return, SetRow, Encoder, Terminal
<1> QED
  BY <1>2, <1>3, <1>4, <1>5, <1>6, EncodeSplit

-----------------------------------------------------------------------------
(* The other conjuncts, when encodeOne takes a step *)

\* An encode holds a row of its own.
LEMMA EncodeHoldsRow ==
    ASSUME Inv, NEW e \in Run, Encode(e)
    PROVE  RowIsHeld'
<1> USE DEF Inv, TypeOK, RowIsHeld
<1>1. /\ UNCHANGED boot /\ encoder' = [encoder EXCEPT ![e] = encoder'[e]]
      /\ \A g \in Run \ {e} : encoder'[g] = encoder[g] /\ job'[g] = job[g] /\ tries'[g] = tries[g]
  BY OthersStay
<1>2. TypeOK'
  BY EncodeTypeOK
<1>3. \A g \in Run : encoder[g] = "idle" => encoder[g] \notin Unsettled
  BY DEF Unsettled, UsesTemp
<1>4. CASE /\ row' = row
           /\ encoder[e] # "idle" /\ (encoder'[e] \in Unsettled => encoder[e] \in Unsettled)
           /\ encoder'[e] # "idle" => job' = job
           /\ encoder'[e] = "idle" => job'[e] = 0 /\ tries'[e] = 0
  <2>1. \A g \in Run : encoder'[g] \in Unsettled => encoder[g] \in Unsettled /\ job'[g] = job[g]
    BY <1>1, <1>3, <1>4 DEF Unsettled, UsesTemp
  <2> QED
    BY <1>1, <1>4, <2>1
<1>5. CASE /\ encoder[e] = "idle" /\ encoder'[e] = "start" /\ job'[e] \in Item
           /\ row[job'[e]] = "ready" /\ row' = [row EXCEPT ![job'[e]] = "encoding"] /\ boot = "up"
  <2>1. \A g \in Run \ {e} : encoder[g] \in Unsettled => job[g] # job'[e] /\ row'[job[g]] = "encoding"
    BY <1>3, <1>5
  <2>2. row'[job'[e]] = "encoding"
    BY <1>5
  <2> QED
    BY <1>1, <1>2, <1>5, <2>1, <2>2
<1>6. CASE /\ encoder[e] \in Unsettled
           /\ \E t \in Terminal \cup {"ready"} : row' = [row EXCEPT ![job[e]] = t]
           /\ \/ encoder'[e] = "idle" /\ job'[e] = 0 /\ tries'[e] = 0
              \/ encoder'[e] = "marker" /\ job' = job
  <2>1. encoder'[e] \notin Unsettled /\ encoder[e] # "idle"
    BY <1>6 DEF Unsettled, UsesTemp
  <2>2. \A g \in Run \ {e} : encoder[g] \in Unsettled => row'[job[g]] = "encoding"
    BY <1>3, <1>6
  <2> QED
    BY <1>1, <1>2, <1>6, <2>1, <2>2
<1> HIDE DEF Inv, TypeOK, RowIsHeld
<1> QED
  BY <1>4, <1>5, <1>6, RowsMove

\* What encodeOne leaves under the media path is a file.
LEMMA EncodeImportedFirst ==
    ASSUME Inv, NEW e \in Run, Encode(e)
    PROVE  ImportedFirst'
<1>1. UNCHANGED <<imports, polled>> /\ \A g \in Run \ {e} : encoder'[g] = encoder[g]
  BY OthersStay
<1>2. imports > 0
  <2>1. encoder[e] # "idle" \/ \E i \in Item : row[i] = "ready"
    BY RowsMove DEF Unsettled, UsesTemp
  <2> QED
    BY <2>1 DEF Inv, ImportedFirst
<1>3. source \in Content
  BY <1>2 DEF Inv, ImportedFirst
<1>4. source' \in Content
  <2>1. CASE Quiet(e) \/ StartHandBrake(e) \/ Removing(e)
    BY <1>3, <2>1, QuietFrame DEF StartHandBrake, Removing, FailHandBrake, Discard, FailCommit, DiscardAgain
  <2>2. CASE EndHandBrake(e)
    BY <1>3, <2>2, EndedTypes
  <2>3. CASE Commit(e)
    BY <2>3 DEF Commit, Inv, TypeOK
  <2> QED
    BY <2>1, <2>2, <2>3, EncodeSplit
<1> QED
  BY <1>1, <1>2, <1>4 DEF ImportedFirst

\* A quiet step is not one of a HandBrake, and comes to the rename only past the
\* size guard.
LEMMA QuietPlaces ==
    ASSUME Inv, NEW e \in Run, Quiet(e)
    PROVE  /\ encoder[e] # "handbrake" /\ encoder'[e] # "handbrake"
           /\ \/ encoder'[e] \notin UsesTemp
              \/ encoder[e] = "decide" /\ encoder'[e] = "commit" /\ final' = final
           /\ encoder[e] \notin UsesTemp \/ (encoder[e] = "decide" /\ encoder'[e] = "commit")
<1> USE DEF Inv, TypeOK, Step, Return, UsesTemp
<1>1. CASE \E i \in Item : Claim(e, i)
  BY <1>1 DEF Claim
<1>2. CASE Reject(e) \/ EndInError(e) \/ MarkDone(e) \/ MarkSkipped(e)
  BY <1>2 DEF Reject, EndInError, MarkDone, MarkSkipped
<1>3. CASE WriteMarker(e) \/ Filter(e) \/ CannotStart(e) \/ Accept(e)
  BY <1>3 DEF WriteMarker, Filter, CannotStart, Accept
<1> HIDE DEF Inv, TypeOK, Step, Return, UsesTemp
<1> QED
  BY <1>1, <1>2, <1>3 DEF Quiet

\* Where a step that removes the temp file comes from and leads to.
LEMMA RemovingPlaces ==
    ASSUME Inv, NEW e \in Run, Removing(e)
    PROVE  /\ encoder[e] \in UsesTemp
           /\ encoder'[e] \in {"error", "start", "markSkipped", "discard"}
           /\ encoder'[e] = "start" => tries[e] <= MaxRetries /\ tries' = tries
           /\ spoiled' = (IF encoder[e] = "handbrake" THEN spoiled \ {e} ELSE spoiled)
           /\ RemoveTemp(e) \/ (encoder[e] = "discard" /\ UNCHANGED <<temp, at, missed>>)
           /\ UNCHANGED <<source, shared>>
BY DEF Removing, FailHandBrake, Discard, FailCommit, DiscardAgain, Step, Retries, UsesTemp, Inv, TypeOK

\* A HandBrake that runs has its file open.
LEMMA EncodeFilesAreOpen ==
    ASSUME Inv, NEW e \in Run, Encode(e)
    PROVE  FilesAreOpen'
<1>1. \A g \in Run \ {e} : encoder'[g] = encoder[g]
  BY OthersStay
<1>2. /\ at \in [Run -> {"none", "temp", "source", "gone"}] /\ spoiled \subseteq Run
      /\ encoder \in [Run -> Encoder]
  BY DEF Inv, TypeOK
<1>3. FilesAreOpen
  BY DEF Inv
<1>4. CASE Quiet(e)
  BY <1>1, <1>2, <1>3, <1>4, QuietPlaces, QuietFrame DEF FilesAreOpen
<1>5. CASE StartHandBrake(e)
  <2>1. encoder'[e] = "handbrake"
    BY <1>2, <1>5 DEF StartHandBrake, Step
  <2>2. \A g \in spoiled' : g = e \/ g \in spoiled \/ at[g] = "temp"
    BY <1>5 DEF StartHandBrake
  <2>3. \A g \in Run : at'[g] # "none" => g = e \/ at[g] # "none"
    BY <1>2, <1>5 DEF StartHandBrake
  <2>4. spoiled' \subseteq Run
    BY <1>2, <1>5 DEF StartHandBrake
  <2> QED
    BY <1>1, <1>3, <1>5, <2>1, <2>2, <2>3, <2>4, StartedContent DEF FilesAreOpen
<1>6. CASE EndHandBrake(e)
  <2>1. at' = [at EXCEPT ![e] = "none"] /\ spoiled' = spoiled \ {e}
    BY <1>6 DEF EndHandBrake
  <2>2. temp \in Content => temp' \in Content
    BY <1>6, EndedTypes
  <2> QED
    BY <1>1, <1>2, <1>3, <2>1, <2>2 DEF FilesAreOpen
<1>7. CASE Removing(e)
  <2>1. CASE RemoveTemp(e)
    <3>1. /\ at'[e] = "none"
          /\ \A g \in Run \ {e} : at'[g] # "none" => at[g] # "none"
          /\ \A g \in Run : at'[g] = "temp" => at[g] = "temp" /\ temp' = temp
      BY <1>2, <2>1 DEF RemoveTemp
    <3>2. \A g \in spoiled' : g \in spoiled /\ (g # e \/ encoder[e] # "handbrake")
      BY <1>7, RemovingPlaces
    <3> QED
      BY <1>1, <1>2, <1>3, <3>1, <3>2 DEF FilesAreOpen
  <2>2. CASE encoder[e] = "discard" /\ UNCHANGED <<temp, at, missed>>
    BY <1>1, <1>2, <1>3, <1>7, <2>2, RemovingPlaces DEF FilesAreOpen
  <2> QED
    BY <1>7, <2>1, <2>2, RemovingPlaces
<1>8. CASE Commit(e)
  <2>1. /\ encoder[e] = "commit" /\ spoiled' = spoiled
        /\ \A g \in Run : at'[g] # "temp" /\ (at'[g] # "none" => at[g] # "none")
    BY <1>2, <1>8 DEF Commit, Step, SourceGoes
  <2> QED
    BY <1>1, <1>2, <1>3, <2>1 DEF FilesAreOpen
<1> QED
  BY <1>4, <1>5, <1>6, <1>7, <1>8, EncodeSplit

\* One encode's temp file stays its own as long as none starts beside it.
LEMMA EncodeTempIsOwn ==
    ASSUME Inv, NEW e \in Run, Encode(e), ~shared'
    PROVE  /\ ~shared
           /\ source'.whole
           /\ \A g, h \in Run : encoder'[g] \in UsesTemp /\ encoder'[h] \in UsesTemp => g = h
           /\ \A g \in Run : encoder'[g] = "handbrake" => at'[g] = "temp" /\ g \notin spoiled'
           /\ \A g \in Run : encoder'[g] \in {"decide", "commit"} =>
                              temp' \in Content /\ temp'.whole /\ temp'.size = final'[g]
<1>1. \A g \in Run \ {e} : encoder'[g] = encoder[g] /\ final'[g] = final[g]
  BY OthersStay
<1>2. /\ at \in [Run -> {"none", "temp", "source", "gone"}] /\ spoiled \subseteq Run
      /\ encoder \in [Run -> Encoder] /\ final \in [Run -> Sizes \cup {0}]
  BY DEF Inv, TypeOK
<1>3. CASE Quiet(e)
  <2>1. ~shared /\ UNCHANGED <<source, temp, at, spoiled>>
    BY <1>3, QuietFrame
  <2> QED
    BY <1>1, <1>3, <2>1, QuietPlaces DEF Inv, TempIsOwn, UsesTemp
<1>4. CASE StartHandBrake(e)
  <2>1. shared' = (shared \/ \E g \in Run \ {e} : encoder[g] \in UsesTemp)
    BY <1>4 DEF StartHandBrake
  <2>2. ~shared /\ \A g \in Run \ {e} : encoder[g] \notin UsesTemp
    BY <2>1
  <2>3. source.whole /\ source' = source
    BY <1>4, <2>2 DEF StartHandBrake, Inv, TempIsOwn
  <2>4. \A g \in Run \ {e} : at[g] # "temp"
    BY <2>2 DEF Inv, FilesAreOpen, UsesTemp
  <2>5. encoder[e] = "start" /\ encoder'[e] = "handbrake" /\ at'[e] = "temp"
    BY <1>2, <1>4 DEF StartHandBrake, Step
  <2>6. e \notin spoiled
    BY <2>5 DEF Inv, FilesAreOpen
  <2>7. {g \in Run \ {e} : at[g] = "temp"} = {}
    BY <2>4
  <2>8. spoiled' = spoiled \cup {} \cup {}
    BY <1>4, <2>3, <2>7 DEF StartHandBrake
  <2> QED
    BY <1>1, <2>2, <2>3, <2>5, <2>6, <2>8 DEF UsesTemp
<1>5. CASE EndHandBrake(e)
  <2>1. ~shared /\ encoder[e] = "handbrake"
    BY <1>5 DEF EndHandBrake
  <2>2. /\ at[e] = "temp" /\ e \notin spoiled /\ source.whole
        /\ \A g \in Run \ {e} : encoder[g] \notin UsesTemp
    BY <2>1 DEF Inv, TempIsOwn, UsesTemp
  <2>3. PICK s \in Sizes, w \in BOOLEAN : w /\ temp \in Content /\ temp' = Written(temp, s, w) /\ source' = source
    BY <1>5, <2>2, EndedContent, Zenon
  <2>4. temp' \in Content /\ temp'.whole
    BY <2>3, WrittenContent
  <2>5. final'[e] = temp'.size /\ encoder'[e] \in {"error", "decide"}
    BY <1>2, <1>5 DEF EndHandBrake
  <2> QED
    BY <1>1, <2>1, <2>2, <2>3, <2>4, <2>5 DEF UsesTemp
<1>6. CASE Removing(e)
  <2>1. ~shared /\ encoder[e] \in UsesTemp /\ source' = source
        /\ encoder'[e] \in {"error", "start", "markSkipped", "discard"}
    BY <1>6, RemovingPlaces
  <2>2. source.whole /\ \A g \in Run \ {e} : encoder[g] \notin UsesTemp
    BY <2>1 DEF Inv, TempIsOwn
  <2> QED
    BY <1>1, <2>1, <2>2 DEF UsesTemp
<1>7. CASE Commit(e)
  <2>1. ~shared /\ encoder[e] = "commit" /\ source' = temp /\ encoder'[e] = "markDone"
    BY <1>2, <1>7 DEF Commit, Step
  <2>2. temp.whole /\ \A g \in Run \ {e} : encoder[g] \notin UsesTemp
    BY <2>1 DEF Inv, TempIsOwn, UsesTemp
  <2> QED
    BY <1>1, <2>1, <2>2 DEF UsesTemp
<1> QED
  BY <1>3, <1>4, <1>5, <1>6, <1>7, EncodeSplit

\* The rename is reached only past the size guard, and the encode after a
\* discarded one only with a try left.
LEMMA EncodeIsChecked ==
    ASSUME Inv, NEW e \in Run, Encode(e)
    PROVE  CommitIsChecked' /\ TriesAreLeft'
<1>1. /\ rowSize' = rowSize
      /\ \A g \in Run \ {e} : /\ encoder'[g] = encoder[g] /\ job'[g] = job[g] /\ tries'[g] = tries[g]
                              /\ policy'[g] = policy[g] /\ savings'[g] = savings[g] /\ final'[g] = final[g]
  BY OthersStay
<1>2. encoder'[e] = "commit" => Fits(e) /\ UNCHANGED <<job, policy, savings, final>>
  <2> USE DEF Inv, TypeOK, Step, Return
  <2>1. CASE (\E i \in Item : Claim(e, i)) \/ Reject(e) \/ EndInError(e) \/ MarkDone(e) \/ MarkSkipped(e) \/ WriteMarker(e)
    BY <2>1 DEF Claim, Reject, EndInError, MarkDone, MarkSkipped, WriteMarker
  <2>2. CASE Accept(e)
    BY <2>2 DEF Accept, profileVars
  <2>3. CASE Filter(e) \/ CannotStart(e) \/ StartHandBrake(e) \/ EndHandBrake(e) \/ Commit(e)
    BY <2>3 DEF Filter, CannotStart, StartHandBrake, EndHandBrake, Commit
  <2>4. CASE Removing(e)
    BY <2>4, RemovingPlaces
  <2> HIDE DEF Inv, TypeOK, Step, Return
  <2> QED
    BY <2>1, <2>2, <2>3, <2>4, EncodeSplit DEF Quiet
<1>3. encoder'[e] = "start" => tries' = tries /\ tries[e] <= MaxRetries
  <2> USE FileAssumption DEF Inv, TypeOK, Step, Return
  <2>1. CASE \E i \in Item : Claim(e, i)
    BY <2>1 DEF Claim, RowIsHeld
  <2>2. CASE Reject(e) \/ EndInError(e) \/ MarkDone(e) \/ MarkSkipped(e) \/ WriteMarker(e) \/ Accept(e)
    BY <2>2 DEF Reject, EndInError, MarkDone, MarkSkipped, WriteMarker, Accept
  <2>3. CASE Filter(e) \/ CannotStart(e) \/ StartHandBrake(e) \/ EndHandBrake(e) \/ Commit(e)
    BY <2>3 DEF Filter, CannotStart, StartHandBrake, EndHandBrake, Commit
  <2>4. CASE Removing(e)
    BY <2>4, RemovingPlaces
  <2> HIDE DEF Inv, TypeOK, Step, Return
  <2> QED
    BY <2>1, <2>2, <2>3, <2>4, EncodeSplit DEF Quiet
<1> QED
  BY <1>1, <1>2, <1>3 DEF Inv, CommitIsChecked, TriesAreLeft, Fits, Threshold

\* A row that no encode holds any more is not encoded again before a restart.
LEMMA OrphansStay ==
    ASSUME Inv, NEW e \in Run, Encode(e), NEW i \in Item, Orphan(i)
    PROVE  Orphan(i)'
<1>1. \A g \in Run \ {e} : encoder'[g] = encoder[g] /\ job'[g] = job[g]
  BY OthersStay
<1>2. row \in [Item -> Terminal \cup {"none", "ready", "encoding"}]
  BY DEF Inv, TypeOK
<1>3. row'[i] = "encoding"
  BY <1>2, RowsMove DEF Orphan
<1>4. encoder'[e] \in Unsettled => job'[e] # i
  BY RowsMove DEF Orphan, Unsettled, UsesTemp
<1> QED
  BY <1>1, <1>3, <1>4 DEF Orphan

\* No temp file is forgotten.
LEMMA EncodeFindsTemp ==
    ASSUME Inv, NEW e \in Run, Encode(e)
    PROVE  StaleTempIsFound'
<1>1. boot' = boot /\ \A g \in Run \ {e} : encoder'[g] = encoder[g]
  BY OthersStay
<1>2. encoder \in [Run -> Encoder]
  BY DEF Inv, TypeOK
<1>3. (\E i \in Item : Orphan(i)) => \E i \in Item : Orphan(i)'
  BY OrphansStay
<1>4. ASSUME temp' # NoFile => temp # NoFile, missed => missed', encoder[e] \in WithTemp => encoder'[e] \in WithTemp
      PROVE  StaleTempIsFound'
  BY <1>1, <1>3, <1>4 DEF Inv, StaleTempIsFound
<1>5. CASE Quiet(e)
  BY <1>4, <1>5, QuietFrame, QuietPlaces DEF WithTemp, UsesTemp
<1>6. CASE StartHandBrake(e)
  <2>1. encoder'[e] \in WithTemp
    BY <1>2, <1>6 DEF StartHandBrake, Step, WithTemp
  <2> QED
    BY <2>1 DEF StaleTempIsFound
<1>7. CASE EndHandBrake(e)
  <2>1. temp # NoFile => encoder'[e] \in WithTemp
    BY <1>2, <1>7 DEF EndHandBrake, WithTemp
  <2>2. at[e] = "temp" => temp \in Content
    BY DEF Inv, FilesAreOpen
  <2>3. temp = NoFile => temp' = NoFile
    <3>1. NoFile \notin Content
      BY DEF NoFile, Content, Item
    <3> QED
      BY <1>7, <2>2, <3>1, EndedContent
  <2> QED
    BY <2>1, <2>3 DEF StaleTempIsFound
<1>8. CASE Removing(e)
  <2>1. CASE RemoveTemp(e)
    BY <2>1 DEF RemoveTemp, StaleTempIsFound
  <2>2. CASE encoder[e] = "discard" /\ UNCHANGED <<temp, at, missed>>
    BY <1>4, <2>2 DEF WithTemp
  <2> QED
    BY <1>8, <2>1, <2>2, RemovingPlaces
<1>9. CASE Commit(e)
  BY <1>9 DEF Commit, StaleTempIsFound
<1> QED
  BY <1>5, <1>6, <1>7, <1>8, <1>9, EncodeSplit

LEMMA EncodeKeepsInv ==
    ASSUME Inv, NEW e \in Run, Encode(e)
    PROVE  Inv'
<1>1. TempIsOwn'
  BY EncodeTempIsOwn DEF TempIsOwn
<1> QED
  BY <1>1, EncodeTypeOK, EncodeHoldsRow, EncodeImportedFirst, EncodeFilesAreOpen, EncodeIsChecked, EncodeFindsTemp
     DEF Inv

-----------------------------------------------------------------------------
(* The other conjuncts, when anything else happens *)

\* The *arr, the reconciler and the user leave the rows in work and the temp
\* file alone; what the *arr imports is whole.
LEMMA OutsideKeepsInv ==
    ASSUME Inv, Import \/ Poll \/ (\E i \in Item : RetryRow(i) \/ DeleteRow(i))
    PROVE  Inv'
<1>0. TypeOK'
  BY OutsideTypeOK
<1>1. CASE Import
  <2>1. imports' \in Item /\ imports' = imports + 1 /\ importSize' \in Sizes /\ imports' > 0
    BY <1>1, FileAssumption DEF Import, Inv, TypeOK, Item
  <2>2. source' = [item |-> imports', encodes |-> 0, size |-> importSize', whole |-> TRUE]
    BY <1>1, <2>1 DEF Import
  <2>3. source' \in Content /\ source'.whole
    BY <2>1, <2>2 DEF Content
  <2>4. UNCHANGED <<temp, spoiled, shared, missed, row, rowSize, polled, boot, encoder, job, policy, savings, tries, final>>
    BY <1>1 DEF Import, rowVars, pollVars, encodeVars, profileVars, userVars
  <2>5. ImportedFirst'
    BY <2>1, <2>3 DEF ImportedFirst
  <2>6. \A e \in Run : /\ at'[e] = "temp" <=> at[e] = "temp"
                       /\ at'[e] # "none" => at[e] # "none"
    BY <1>1 DEF Import, SourceGoes, Inv, TypeOK
  <2>7. FilesAreOpen' /\ TempIsOwn'
    BY <2>3, <2>4, <2>6 DEF Inv, FilesAreOpen, TempIsOwn
  <2>8. RowIsHeld' /\ CommitIsChecked' /\ StaleTempIsFound' /\ TriesAreLeft'
    BY <2>4 DEF Inv, RowIsHeld, CommitIsChecked, StaleTempIsFound, Orphan, TriesAreLeft, Fits, Threshold
  <2> QED
    BY <1>0, <2>5, <2>7, <2>8 DEF Inv
<1>2. CASE Poll \/ \E i \in Item : RetryRow(i) \/ DeleteRow(i)
  <2>1. UNCHANGED <<source, temp, at, spoiled, shared, missed, imports, boot, encoder, job, policy, savings, tries, final>>
    BY <1>2 DEF Poll, PollFile, QueueFile, RetryRow, DeleteRow, fileVars, diskVars, openVars, arrVars, encodeVars,
                profileVars, userVars
  <2>2. \A k \in Item : row[k] = "encoding" => row'[k] = "encoding" /\ rowSize'[k] = rowSize[k]
    BY <1>2 DEF Inv, TypeOK, Poll, PollFile, QueueFile, NoJobForItem, RetryRow, DeleteRow, Terminal, rowVars
  <2>3. RowIsHeld' /\ StaleTempIsFound'
    BY <2>1, <2>2 DEF Inv, RowIsHeld, StaleTempIsFound, Orphan, Unsettled, UsesTemp
  <2>4. CommitIsChecked'
    <3>1. \A e \in Run : encoder[e] = "commit" => rowSize'[job[e]] = rowSize[job[e]]
      BY <2>2 DEF Inv, RowIsHeld, Unsettled, UsesTemp
    <3> QED
      BY <2>1, <3>1 DEF Inv, CommitIsChecked, Fits, Threshold
  <2>5. imports > 0
    BY <1>2 DEF Inv, ImportedFirst, Poll, PollFile, QueueFile, RetryRow, DeleteRow, Terminal
  <2>6. ImportedFirst' /\ FilesAreOpen' /\ TempIsOwn' /\ TriesAreLeft'
    BY <2>1, <2>5 DEF Inv, ImportedFirst, FilesAreOpen, TempIsOwn, TriesAreLeft
  <2> QED
    BY <1>0, <2>3, <2>4, <2>6 DEF Inv
<1> QED
  BY <1>1, <1>2

\* A crash loses the encodes; the temp file waits with a row for the next start,
\* which removes it, or is missed.
LEMMA StartKeepsInv ==
    ASSUME Inv, Crash \/ RecoverRows \/ RemoveTemps
    PROVE  Inv'
<1>0. TypeOK'
  BY OutsideTypeOK
<1>1. CASE Crash
  <2>1. /\ \A e \in Run : encoder'[e] = "idle" /\ job'[e] = 0 /\ tries'[e] = 0 /\ at'[e] = "none"
        /\ spoiled' = {} /\ polled' = 0 /\ boot' = "rows" /\ missed' = (missed \/ boot = "temps")
        /\ UNCHANGED <<source, temp, imports, row, shared>>
    BY <1>1 DEF Crash, diskVars, arrVars, rowVars
  <2>2. temp # NoFile => missed' \/ \E i \in Item : row[i] = "encoding"
    BY <2>1 DEF Inv, StaleTempIsFound, Orphan, RowIsHeld, WithTemp, Unsettled, UsesTemp
  <2>3. StaleTempIsFound'
    BY <2>1, <2>2 DEF StaleTempIsFound, Orphan, Unsettled, UsesTemp
  <2> QED
    BY <1>0, <2>1, <2>3 DEF Inv, RowIsHeld, ImportedFirst, FilesAreOpen, TempIsOwn, CommitIsChecked, TriesAreLeft,
                            Unsettled, UsesTemp
<1>2. CASE RecoverRows \/ RemoveTemps
  <2>1. /\ boot # "up"
        /\ UNCHANGED <<source, at, spoiled, shared, imports, polled, encoder, job, policy, savings, tries, final, rowSize>>
    BY <1>2 DEF RecoverRows, RemoveTemps, fileVars, diskVars, openVars, arrVars, rowVars, pollVars, encodeVars, profileVars
  <2>2. \A e \in Run : encoder[e] = "idle"
    BY <2>1 DEF Inv, RowIsHeld
  <2>3. RowIsHeld' /\ TempIsOwn' /\ CommitIsChecked' /\ TriesAreLeft'
    BY <2>1, <2>2 DEF Inv, RowIsHeld, TempIsOwn, CommitIsChecked, TriesAreLeft, Unsettled, UsesTemp
  <2>4. FilesAreOpen'
    BY <2>1, <2>2 DEF Inv, FilesAreOpen
  <2>5. \A i \in Item : row'[i] # "none" => row[i] # "none"
    BY <1>2 DEF RecoverRows, RemoveTemps, rowVars, Orphans, Inv, TypeOK
  <2>6. ImportedFirst'
    BY <2>1, <2>5 DEF Inv, ImportedFirst
  <2>7. CASE RecoverRows
    <3>1. temp # NoFile => Orphans # {} \/ missed
      BY <2>2, <2>7 DEF RecoverRows, Inv, StaleTempIsFound, Orphan, Orphans, WithTemp
    <3>2. UNCHANGED <<temp, missed>> /\ (boot' = "temps" \/ Orphans = {} \/ row' = row)
      BY <2>7 DEF RecoverRows, fileVars, diskVars
    <3>3. row' = row => \A i \in Orphans : Orphan(i)'
      BY <2>1, <2>2 DEF Orphans, Orphan, Unsettled, UsesTemp
    <3> QED
      BY <1>0, <2>3, <2>4, <2>6, <3>1, <3>2, <3>3 DEF Inv, StaleTempIsFound, Orphans
  <2>8. CASE RemoveTemps
    <3>1. temp' = NoFile \/ missed'
      BY <2>8 DEF RemoveTemps, RemoveStale
    <3> QED
      BY <1>0, <2>3, <2>4, <2>6, <3>1 DEF Inv, StaleTempIsFound
  <2> QED
    BY <1>2, <2>7, <2>8
<1> QED
  BY <1>1, <1>2

\* Inv is inductive.
LEMMA InvInductive ==
    ASSUME Inv, [Next]_vars
    PROVE  Inv'
<1>1. CASE UNCHANGED vars
  <2>1. UNCHANGED <<source, temp, marker, at, spoiled, shared, missed, imports, importSize, row, rowSize, polled, polledSize>>
    BY <1>1 DEF vars, fileVars, diskVars, openVars, arrVars, rowVars, pollVars
  <2>2. UNCHANGED <<encoder, job, policy, savings, tries, final, upsets, boot>>
    BY <1>1 DEF vars, encodeVars, profileVars, userVars
  <2>3. TypeOK'
    <3>1. TypeOK
      BY DEF Inv
    <3> QED
      BY <2>1, <2>2, <3>1, Flags DEF TypeOK
  <2>4. RowIsHeld' /\ ImportedFirst' /\ FilesAreOpen'
    BY <2>1, <2>2 DEF Inv, RowIsHeld, ImportedFirst, FilesAreOpen
  <2>5. TempIsOwn' /\ CommitIsChecked' /\ StaleTempIsFound' /\ TriesAreLeft'
    BY <2>1, <2>2 DEF Inv, TempIsOwn, CommitIsChecked, StaleTempIsFound, Orphan, TriesAreLeft, Fits, Threshold
  <2> QED
    BY <2>3, <2>4, <2>5 DEF Inv
<1>2. ASSUME NEW e \in Run, Encode(e) PROVE Inv'
  BY <1>2, EncodeKeepsInv
<1> QED
  BY <1>1, <1>2, OutsideKeepsInv, StartKeepsInv DEF Next

\* Inv holds in every state.
THEOREM InvHolds == Spec => []Inv
<1>1. ASSUME Init PROVE TypeOK
  <2>1. marker \in BOOLEAN /\ shared \in BOOLEAN /\ missed \in BOOLEAN
    BY <1>1, Zenon DEF Init
  <2>2. /\ imports \in 0..MaxImports /\ tries \in [Run -> 0..(MaxRetries + 1)] /\ upsets \in 0..MaxUpsets
        /\ rowSize \in [Item -> Sizes \cup {0}]
        /\ row \in [Item -> Terminal \cup {"none", "ready", "encoding"}]
    BY <1>1, FileAssumption DEF Init
  <2>3. /\ at \in [Run -> {"none", "temp", "source", "gone"}] /\ spoiled \subseteq Run
        /\ encoder \in [Run -> Encoder] /\ job \in [Run -> Item \cup {0}]
        /\ policy \in [Run -> Policies \cup {"off"}] /\ savings \in [Run -> SavingsPercent \cup {0}]
        /\ final \in [Run -> Sizes \cup {0}]
    BY <1>1 DEF Init, Encoder
  <2> QED
    BY <1>1, <2>1, <2>2, <2>3 DEF Init, TypeOK
<1>2. ASSUME Init PROVE Inv
  <2>1. RowIsHeld /\ FilesAreOpen /\ CommitIsChecked /\ StaleTempIsFound
    BY <1>2 DEF Init, RowIsHeld, FilesAreOpen, StaleTempIsFound, CommitIsChecked, Unsettled, UsesTemp
  <2>2. TempIsOwn
    BY <1>2 DEF Init, TempIsOwn, NoFile, UsesTemp
  <2>3. ImportedFirst
    BY <1>2 DEF Init, ImportedFirst
  <2>4. TriesAreLeft
    BY <1>2, FileAssumption DEF Init, TriesAreLeft
  <2> QED
    BY <1>1, <1>2, <2>1, <2>2, <2>3, <2>4 DEF Inv
<1> QED
  BY <1>2, InvInductive, PTL DEF Spec

-----------------------------------------------------------------------------
(* Theorems *)

\* Every variable stays in its range: the size guard starts one encode and at
\* most MaxRetries more.
THEOREM FileTypes == Spec => []TypeOK
BY InvHolds, PTL DEF Inv

\* What lies under the media path is never a part of an encode as long as no
\* encode of the file starts while another has use of the temp file, however many
\* rows and slots there are and whatever fails (handbrake.Run, Commit).
THEOREM SourceStaysWhole == Spec => []SourceIsWhole
<1>1. Inv => SourceIsWhole
  BY DEF Inv, TempIsOwn, SourceIsWhole
<1> QED
  BY <1>1, InvHolds, PTL

\* With one slot the documented commit is what happens: no two encodes are in
\* progress at once, so what lies under the media path is always whole
\* (runEncodes, handbrake.Run, Commit).
THEOREM OneSlotCommitsAtomically ==
    ASSUME \A e, g \in Run : e = g
    PROVE  Spec => []CommitIsAtomic
<1>1. Init => ~shared
  BY DEF Init
<1>2. ASSUME ~shared, [Next]_vars PROVE ~shared'
  <2>1. shared' = shared \/ \E e \in Run : shared' = (shared \/ \E g \in Run \ {e} : encoder[g] \in UsesTemp)
    BY <1>2 DEF Next, Poll, Encode, Import, PollFile, QueueFile, Crash, RecoverRows, RemoveTemps, Claim, Reject,
         Filter, CannotStart, StartHandBrake, EndHandBrake, FailHandBrake, Accept, Discard, Commit, FailCommit,
         DiscardAgain, EndInError, MarkDone, MarkSkipped, WriteMarker, RetryRow, DeleteRow,
         vars, fileVars, openVars
  <2> QED
    BY <1>2, <2>1
<1>3. Inv /\ ~shared => CommitIsAtomic
  BY DEF Inv, TempIsOwn, CommitIsAtomic
<1> QED
  BY <1>1, <1>2, <1>3, InvHolds, PTL DEF Spec

\* No temp file is lost but by a removal that fails or a start that dies: an encode
\* has use of it, the start is about to remove it, or a row that is encoding leads
\* the next start to it (recoverOrphanEncodes).
THEOREM TempsAreRemoved == Spec => []TempRemoved
<1>1. Inv => TempRemoved
  BY DEF Inv, StaleTempIsFound, TempRemoved, WithTemp, Orphan, Orphans
<1> QED
  BY <1>1, InvHolds, PTL

\* A size times a percentage is a number, and multiplication distributes.
LEMMA PercentOf ==
    ASSUME NEW a \in Nat, NEW b \in 0..100
    PROVE  a * b \in Nat /\ a * (100 - b) = a * 100 - a * b
<1>1. a * b \in Nat
  OBVIOUS
<1>2. a \in Int /\ b \in Int
  OBVIOUS
<1>3. a * (100 - b) = a * 100 - a * b
  BY <1>2
<1> QED
  BY <1>1, <1>3

\* What the size guard lets through saves the percentage asked for, up to a
\* byte of rounding.
LEMMA ThresholdSaves ==
    ASSUME NEW size \in Nat, NEW old \in Nat, NEW percent \in 0..100, size > 0,
           size <= old - (old * percent) \div 100
    PROVE  (size - 1) * 100 < old * (100 - percent)
<1> DEFINE saved == old * percent
<1>1. saved \in Nat
  BY PercentOf
<1>2. old * (100 - percent) = old * 100 - saved
  BY PercentOf
<1>3. 100 * (saved \div 100) > saved - 100
  <2> HIDE DEF saved
  <2> QED
    BY <1>1
<1>4. saved \div 100 \in Nat
  <2> HIDE DEF saved
  <2> QED
    BY <1>1
<1>5. size <= old - saved \div 100
  OBVIOUS
<1> HIDE DEF saved
<1> QED
  BY <1>1, <1>2, <1>3, <1>4, <1>5

\* An encode whose temp file is its own replaces the file only if the size guard
\* allows it, against the file_size of the row as it is at the commit (encodeOne).
THEOREM GuardIsKept == Spec => GuardHolds
<1>1. ASSUME Inv, NEW e \in Run, Commit(e), ~shared, policy[e] # "off", source'.size > 0
      PROVE  (source'.size - 1) * 100 < rowSize[job[e]] * (100 - savings[e])
  <2>1. encoder[e] = "commit" /\ source' = temp
    BY <1>1 DEF Commit, Step
  <2>2. temp \in Content /\ temp.size = final[e]
    BY <1>1, <2>1 DEF Inv, TempIsOwn
  <2>3. temp.size <= rowSize[job[e]] - (rowSize[job[e]] * savings[e]) \div 100
    BY <1>1, <2>1, <2>2 DEF Inv, CommitIsChecked, Fits, Threshold
  <2>4. Inv /\ job[e] \in Item
    BY <1>1, <2>1 DEF Inv, RowIsHeld
  <2>5. temp.size \in Sizes \cup {0} /\ rowSize[job[e]] \in Sizes \cup {0} /\ savings[e] \in SavingsPercent \cup {0}
    BY <2>2, <2>4 DEF Inv, TypeOK, Content
  <2>6. temp.size \in Nat /\ rowSize[job[e]] \in Nat /\ savings[e] \in 0..100
    <3>1. \A n \in Sizes \cup {0} : n \in Nat
      BY FileAssumption
    <3>2. \A n \in SavingsPercent \cup {0} : n \in 0..100
      BY FileAssumption
    <3> QED
      BY <2>5, <3>1, <3>2
  <2> QED
    BY <1>1, <2>1, <2>3, <2>6, ThresholdSaves
<1>2. Inv => [\A e \in Run : Commit(e) /\ ~shared /\ policy[e] # "off" /\ source'.size > 0
                => (source'.size - 1) * 100 < rowSize[job[e]] * (100 - savings[e])]_vars
  BY <1>1
<1> QED
  BY <1>2, InvHolds, PTL DEF GuardHolds

-----------------------------------------------------------------------------
(* One encode per import *)

\* One import, and nobody has retried, deleted or killed anything.
Undisturbed == imports <= 1 /\ upsets = 0

\* The places of encodeOne up to the rename, or past it if it has failed.
Uncommitted == {"start", "handbrake", "decide", "commit", "discard", "markSkipped", "error"}

\* Items that were not imported are not worked on.
ItemsAreImported == polled <= imports /\ \A i \in Item : row[i] # "none" => i <= imports

\* An encode that is not committed yet works on the import itself, and once it
\* is committed the row is never queued again.
EncodesOnce ==
    Undisturbed =>
        /\ \A e \in Run : encoder[e] \in WithTemp => temp.encodes = 1
        /\ \A e \in Run : encoder[e] \in Uncommitted => source.encodes = 0
        /\ source.encodes # 0 => source.encodes = 1 /\ imports = 1 /\ row[1] \in {"encoding", "done"}

\* encodeOne queues nothing.
LEMMA EncodeQueuesNothing ==
    ASSUME Inv, NEW e \in Run, Encode(e)
    PROVE  \A i \in Item : row'[i] # "none" => row[i] # "none"
<1>1. row \in [Item -> Terminal \cup {"none", "ready", "encoding"}]
  BY DEF Inv, TypeOK
<1>2. encoder[e] \in Unsettled => row[job[e]] = "encoding"
  BY DEF Inv, RowIsHeld
<1> QED
  BY <1>1, <1>2, RowsMove

\* What is imported is queued and encoded, nothing else is.
LEMMA ItemsStayImported ==
    ASSUME Inv, ItemsAreImported, [Next]_vars
    PROVE  ItemsAreImported'
<1> USE FileAssumption DEF ItemsAreImported, Inv, TypeOK, Item
<1>1. CASE Import
  BY <1>1 DEF Import, rowVars, pollVars
<1>2. CASE PollFile
  BY <1>2 DEF PollFile, rowVars, arrVars
<1>3. CASE QueueFile
  BY <1>3 DEF QueueFile, rowVars, arrVars
<1>4. ASSUME NEW i \in Item, RetryRow(i) \/ DeleteRow(i) PROVE ItemsAreImported'
  BY <1>4 DEF RetryRow, DeleteRow, Terminal, pollVars, arrVars
<1>6. CASE Crash \/ RecoverRows \/ RemoveTemps
  BY <1>6 DEF Crash, RecoverRows, RemoveTemps, Orphans, arrVars, rowVars, pollVars
<1>7. CASE UNCHANGED vars
  BY <1>7 DEF vars, arrVars, rowVars, pollVars
<1> HIDE DEF ItemsAreImported, Inv, TypeOK, Item
<1>5. ASSUME NEW e \in Run, Encode(e) PROVE ItemsAreImported'
  BY <1>5, OthersStay, EncodeQueuesNothing DEF ItemsAreImported
<1> QED
  BY <1>1, <1>2, <1>3, <1>4, <1>5, <1>6, <1>7 DEF Next, Poll

\* The process starts anew only when it has died.
StartsFollowCrashes == boot # "up" => upsets > 0

LEMMA StartsStayAfterCrashes ==
    ASSUME Inv, StartsFollowCrashes, [Next]_vars
    PROVE  StartsFollowCrashes'
<1> USE FileAssumption DEF StartsFollowCrashes, Inv, TypeOK
<1>1. CASE Import \/ Poll \/ \E i \in Item : RetryRow(i) \/ DeleteRow(i)
  BY <1>1 DEF Import, Poll, PollFile, QueueFile, RetryRow, DeleteRow, userVars
<1>2. CASE Crash \/ RecoverRows \/ RemoveTemps
  BY <1>2 DEF Crash, RecoverRows, RemoveTemps
<1>3. CASE UNCHANGED vars
  BY <1>3 DEF vars, userVars
<1> HIDE DEF StartsFollowCrashes, Inv, TypeOK
<1>4. ASSUME NEW e \in Run, Encode(e) PROVE StartsFollowCrashes'
  BY <1>4, OthersStay DEF StartsFollowCrashes
<1> QED
  BY <1>1, <1>2, <1>3, <1>4 DEF Next

\* One import has one row, and one encode at a time holds it.
LEMMA OneIsUnsettled ==
    ASSUME Inv, ItemsAreImported, Undisturbed, NEW e \in Run, encoder[e] \in Unsettled
    PROVE  job[e] = 1 /\ imports = 1 /\ \A g \in Run : encoder[g] \in Unsettled => g = e
<1>1. ASSUME NEW g \in Run, encoder[g] \in Unsettled PROVE job[g] = 1 /\ imports = 1
  <2>1. job[g] \in Item /\ row[job[g]] = "encoding"
    BY <1>1 DEF Inv, RowIsHeld, Unsettled, UsesTemp
  <2>2. job[g] <= imports /\ imports \in Nat /\ imports <= 1
    BY <2>1, FileAssumption DEF ItemsAreImported, Undisturbed, Inv, TypeOK
  <2> QED
    BY <2>1, <2>2, FileAssumption DEF Item
<1> QED
  BY <1>1 DEF Inv, RowIsHeld

\* The steps of encodeOne keep to one encode per import.
LEMMA EncodeOnce ==
    ASSUME Inv, ItemsAreImported, EncodesOnce, NEW e \in Run, Encode(e)
    PROVE  EncodesOnce'
<1> SUFFICES ASSUME Undisturbed'
             PROVE  /\ \A g \in Run : encoder'[g] \in WithTemp => temp'.encodes = 1
                    /\ \A g \in Run : encoder'[g] \in Uncommitted => source'.encodes = 0
                    /\ source'.encodes # 0 => source'.encodes = 1 /\ imports' = 1 /\ row'[1] \in {"encoding", "done"}
  BY DEF EncodesOnce
<1>1. /\ UNCHANGED <<imports, upsets>>
      /\ \A g \in Run \ {e} : encoder'[g] = encoder[g]
      /\ Undisturbed
  BY OthersStay DEF Undisturbed
<1>2. encoder \in [Run -> Encoder] /\ row \in [Item -> Terminal \cup {"none", "ready", "encoding"}]
  BY DEF Inv, TypeOK
<1>3. encoder[e] \in Unsettled => /\ job[e] = 1 /\ imports = 1 /\ row[1] = "encoding" /\ 1 \in Item
                                 /\ \A g \in Run : encoder[g] \in Unsettled => g = e
  BY <1>1, OneIsUnsettled DEF Inv, RowIsHeld, Unsettled, UsesTemp
<1> USE DEF WithTemp, Uncommitted, Unsettled, UsesTemp
<1>4. CASE Quiet(e)
  <2>1. UNCHANGED <<source, temp>> /\ (encoder'[e] \in WithTemp => encoder[e] \in WithTemp)
    BY <1>4, QuietFrame, QuietPlaces
  <2>2. CASE \E i \in Item : Claim(e, i)
    <3>1. PICK i \in Item : row[i] = "ready" /\ row' = [row EXCEPT ![i] = "encoding"] /\ encoder[e] = "idle" /\ encoder'[e] = "start"
      BY <1>2, <2>2 DEF Claim, Step
    <3>2. i = 1 /\ imports = 1
      <4>1. i <= imports /\ imports <= 1 /\ i \in Nat /\ i > 0 /\ imports \in Nat
        BY <1>1, <3>1, FileAssumption DEF ItemsAreImported, Undisturbed, Inv, TypeOK, Item
      <4> QED
        BY <4>1
    <3>3. source.encodes = 0
      BY <1>1, <3>1, <3>2 DEF EncodesOnce
    <3> QED
      BY <1>1, <2>1, <3>1, <3>3 DEF EncodesOnce
  <2>3. CASE Reject(e) \/ EndInError(e) \/ MarkSkipped(e) \/ Filter(e) \/ CannotStart(e) \/ Accept(e)
    <3>1. encoder[e] \in Uncommitted
      BY <2>3 DEF Reject, EndInError, MarkSkipped, Filter, CannotStart, Accept, Step
    <3> QED
      BY <1>1, <2>1, <3>1 DEF EncodesOnce
  <2>4. CASE MarkDone(e)
    <3>1. /\ encoder[e] = "markDone" /\ encoder'[e] \in {"marker", "idle"}
          /\ row' = row \/ row' = [row EXCEPT ![job[e]] = "done"]
      BY <1>2, <2>4 DEF MarkDone, SetRow, Return
    <3>2. row'[1] \in {"encoding", "done"}
      BY <1>2, <1>3, <3>1
    <3> QED
      BY <1>1, <2>1, <3>1, <3>2 DEF EncodesOnce
  <2>5. CASE WriteMarker(e)
    <3>1. encoder'[e] = "idle" /\ row' = row
      BY <1>2, <2>5 DEF WriteMarker, Return, rowVars
    <3> QED
      BY <1>1, <2>1, <3>1 DEF EncodesOnce
  <2> QED
    BY <1>4, <2>2, <2>3, <2>4, <2>5 DEF Quiet
<1>5. CASE StartHandBrake(e)
  <2>1. encoder[e] = "start" /\ source' = source /\ row' = row
    BY <1>5 DEF StartHandBrake, Step, rowVars
  <2>2. source.encodes = 0 /\ temp'.encodes = 1
    BY <1>1, <1>5, <2>1, StartedContent DEF EncodesOnce
  <2> QED
    BY <2>1, <2>2
<1>6. CASE EndHandBrake(e)
  <2>1. encoder[e] = "handbrake" /\ row' = row
    BY <1>6 DEF EndHandBrake, rowVars
  <2>2. source.encodes = 0 /\ temp.encodes = 1
    BY <1>1, <2>1 DEF EncodesOnce
  <2>3. temp'.encodes = temp.encodes /\ source'.encodes = source.encodes
    BY <1>6, EndedContent, WrittenContent
  <2> QED
    BY <2>1, <2>2, <2>3
<1>7. CASE Removing(e)
  <2>1. /\ encoder[e] \in Uncommitted /\ source' = source
        /\ encoder'[e] \in {"error", "start", "markSkipped", "discard"}
    BY <1>7, RemovingPlaces
  <2>2. source.encodes = 0
    BY <1>1, <2>1 DEF EncodesOnce
  <2>3. \A g \in Run : encoder'[g] \notin WithTemp
    BY <1>1, <1>3, <2>1
  <2> QED
    BY <2>1, <2>2, <2>3
<1>8. CASE Commit(e)
  <2>1. encoder[e] = "commit" /\ encoder'[e] = "markDone" /\ source' = temp /\ row' = row
    BY <1>2, <1>8 DEF Commit, Step, rowVars
  <2>2. temp.encodes = 1
    BY <1>1, <2>1 DEF EncodesOnce
  <2> QED
    BY <1>1, <1>3, <2>1, <2>2
<1> QED
  BY <1>4, <1>5, <1>6, <1>7, <1>8, EncodeSplit

\* A file imported once, whose row nobody touches, is encoded at most once as
\* long as the process lives (HasJobForItem).
THEOREM ImportsAreEncodedOnce == Spec => []EncodedOnce
<1>1. Init => ItemsAreImported /\ StartsFollowCrashes /\ EncodesOnce
  BY FileAssumption DEF Init, ItemsAreImported, StartsFollowCrashes, EncodesOnce, NoFile, WithTemp, Uncommitted
<1>2. ASSUME Inv, ItemsAreImported, StartsFollowCrashes, EncodesOnce, [Next]_vars PROVE EncodesOnce'
  <2> USE DEF EncodesOnce, Undisturbed, Uncommitted, WithTemp
  <2>1. CASE Import
    <3>1. imports' = imports + 1 /\ source'.encodes = 0 /\ UNCHANGED <<encoder, temp, upsets>>
      BY <1>2, <2>1 DEF Import, Inv, TypeOK, encodeVars, userVars
    <3>2. \A e \in Run : encoder[e] \in Uncommitted => imports > 0
      BY <1>2 DEF Inv, ImportedFirst
    <3>3. imports \in Nat
      BY <1>2, FileAssumption DEF Inv, TypeOK
    <3> QED
      BY <3>1, <3>2, <3>3
  <2>2. CASE PollFile
    BY <1>2, <2>2 DEF PollFile, fileVars, diskVars, arrVars, rowVars, encodeVars, userVars
  <2>3. CASE QueueFile
    <3>1. /\ UNCHANGED <<source, temp, imports, encoder, upsets>>
          /\ \A i \in Item : row[i] \in {"encoding", "done"} => row'[i] = row[i]
      BY <1>2, <2>3 DEF QueueFile, NoJobForItem, Inv, TypeOK, fileVars, diskVars, arrVars, rowVars, encodeVars, userVars
    <3>2. imports = 1 => 1 \in Item
      BY <1>2, FileAssumption DEF Inv, TypeOK, Item
    <3> QED
      BY <1>2, <3>1, <3>2
  <2>4. CASE \E i \in Item : RetryRow(i) \/ DeleteRow(i)
    <3>1. upsets' # 0
      BY <1>2, <2>4, FileAssumption DEF RetryRow, DeleteRow, Inv, TypeOK
    <3> QED
      BY <3>1
  <2>5. CASE Crash
    <3>1. upsets' # 0
      BY <1>2, <2>5, FileAssumption DEF Crash, Inv, TypeOK, StartsFollowCrashes
    <3> QED
      BY <3>1
  <2>6. CASE UNCHANGED vars
    BY <1>2, <2>6 DEF vars, fileVars, diskVars, arrVars, rowVars, encodeVars, userVars
  <2>7. ASSUME NEW e \in Run, Encode(e) PROVE EncodesOnce'
    BY <1>2, <2>7, EncodeOnce
  <2>8. CASE RecoverRows \/ RemoveTemps
    <3>1. boot # "up" /\ UNCHANGED <<source, imports, encoder, upsets>>
      BY <2>8 DEF RecoverRows, RemoveTemps, fileVars, diskVars, arrVars, encodeVars
    <3>2. upsets # 0
      BY <1>2, <3>1, FileAssumption DEF StartsFollowCrashes, Inv, TypeOK
    <3> QED
      BY <3>1, <3>2
  <2> HIDE DEF EncodesOnce
  <2> QED
    BY <1>2, <2>1, <2>2, <2>3, <2>4, <2>5, <2>6, <2>7, <2>8 DEF Next, Poll
<1>3. EncodesOnce => EncodedOnce
  BY DEF EncodesOnce, EncodedOnce, Undisturbed
<1> QED
  BY <1>1, <1>2, <1>3, ItemsStayImported, StartsStayAfterCrashes, InvHolds, PTL DEF Spec

-----------------------------------------------------------------------------
(* The rows in stages *)

\* The stages of the statuses.
LEMMA StageTable ==
    /\ StageOf("none") = "none"
    /\ StageOf("ready") = "queued"
    /\ StageOf("encoding") = "encoding"
    /\ \A s \in Terminal : StageOf(s) = "over"
BY DEF StageOf, Terminal

\* One row gets a status.
LEMMA RowGoes ==
    ASSUME Inv, NEW i \in Item, NEW t, row' = [row EXCEPT ![i] = t]
    PROVE  Stages!Go({i}, StageOf(row[i]), StageOf(t))
<1>1. \A k \in Item : row'[k] = IF k \in {i} THEN t ELSE row[k]
  BY DEF Inv, TypeOK
<1> QED
  BY <1>1 DEF Stages!Go

\* encodeOne claims a row that waits, and sets the outcome of the row it holds,
\* which is encoding.
LEMMA EncodeMovesStages ==
    ASSUME Inv, NEW e \in Run, Encode(e)
    PROVE  row' = row \/ Stages!Next
<1> USE StageTable DEF Terminal
<1>1. CASE /\ job'[e] \in Item /\ row[job'[e]] = "ready" /\ row' = [row EXCEPT ![job'[e]] = "encoding"]
  <2>1. Stages!Claim(job'[e])
    BY <1>1, RowGoes DEF Stages!Claim
  <2> QED
    BY <1>1, <2>1 DEF Stages!Next
<1>2. ASSUME NEW t \in Terminal \cup {"ready"}, row' = [row EXCEPT ![job[e]] = t], encoder[e] \in Unsettled
      PROVE  Stages!Next
  <2>1. job[e] \in Item /\ row[job[e]] = "encoding"
    BY <1>2 DEF Inv, RowIsHeld, Unsettled, UsesTemp
  <2>2. Stages!Go({job[e]}, "encoding", StageOf(t))
    BY <1>2, <2>1, RowGoes
  <2>3. Stages!End(job[e]) \/ Stages!HandBack({job[e]})
    BY <2>2 DEF Stages!End, Stages!HandBack
  <2> QED
    BY <2>1, <2>3 DEF Stages!Next
<1> QED
  BY <1>1, <1>2, RowsMove

\* The rows of the table are moved as the rest of the program relies on: only
\* what was imported is queued, an outcome is given once to a row that is
\* encoding, and a user neither retries nor deletes such a row (encodeOne, whose
\* statements do not ask for the status; RetryJob, DeleteJob).
THEOREM FilesMoveStages == Spec => ImplementsStages
<1> DEFINE stage == [i \in Item |-> StageOf(row[i])]
<1>1. Init => Stages!Init
  BY StageTable DEF Init, Stages!Init
<1>2. ASSUME Inv, [Next]_vars PROVE [Stages!Next]_stage
  <2> USE StageTable
  <2>1. CASE row' = row
    BY <2>1
  <2>2. CASE QueueFile
    <3>1. CASE row' = row
      BY <3>1
    <3>2. CASE row[polled] = "none" /\ row' = [row EXCEPT ![polled] = "ready"]
      <4>1. polled \in Item
        BY <1>2, <2>2 DEF QueueFile, Inv, TypeOK
      <4>2. Stages!Queue(polled)
        BY <1>2, <3>2, <4>1, RowGoes DEF Stages!Queue
      <4> QED
        BY <4>1, <4>2 DEF Stages!Next
    <3> QED
      BY <2>2, <3>1, <3>2 DEF QueueFile, NoJobForItem, rowVars
  <2>3. ASSUME NEW i \in Item, RetryRow(i) PROVE Stages!Next
    <3>1. Stages!Retry({i})
      BY <1>2, <2>3, RowGoes DEF RetryRow, Stages!Retry
    <3> QED
      BY <3>1 DEF Stages!Next
  <2>4. ASSUME NEW i \in Item, DeleteRow(i) PROVE Stages!Next
    <3>1. StageOf(row[i]) \in {"queued", "over"} /\ row' = [row EXCEPT ![i] = "none"]
      BY <2>4 DEF DeleteRow
    <3>2. \A k \in Item : row'[k] = IF k \in {i} THEN "none" ELSE row[k]
      BY <1>2, <3>1 DEF Inv, TypeOK
    <3>3. Stages!Delete({i})
      BY <3>1, <3>2 DEF Stages!Delete
    <3> QED
      BY <3>3 DEF Stages!Next
  <2>5. CASE RecoverRows
    <3>1. row' = row \/ \A i \in Item : row'[i] = IF i \in Orphans THEN "ready" ELSE row[i]
      BY <2>5 DEF RecoverRows
    <3>2. Orphans \subseteq Item /\ \A i \in Orphans : row[i] = "encoding"
      BY DEF Orphans
    <3>3. row' = row \/ Stages!HandBack(Orphans)
      BY <3>1, <3>2 DEF Stages!HandBack, Stages!Go
    <3> QED
      BY <2>1, <3>2, <3>3 DEF Stages!Next
  <2>6. ASSUME NEW e \in Run, Encode(e) PROVE [Stages!Next]_stage
    BY <1>2, <2>1, <2>6, EncodeMovesStages
  <2>7. CASE Import \/ PollFile \/ Crash \/ RemoveTemps \/ UNCHANGED vars
    BY <2>7 DEF Import, PollFile, Crash, RemoveTemps, vars, rowVars
  <2> QED
    BY <1>2, <2>2, <2>3, <2>4, <2>5, <2>6, <2>7 DEF Next, Poll
<1> QED
  BY <1>1, <1>2, InvHolds, PTL DEF Spec, ImplementsStages, Stages!Spec

-----------------------------------------------------------------------------
(* The end of an encode, as far as steps can show it *)

LEMMA PlacesTable ==
    /\ PlacesLeft("handbrake") = 8 /\ PlacesLeft("decide") = 7 /\ PlacesLeft("commit") = 6
    /\ PlacesLeft("discard") = 5 /\ PlacesLeft("start") = 4 /\ PlacesLeft("marker") = 1
    /\ \A p \in {"markDone", "markSkipped", "error"} : PlacesLeft(p) = 3
    /\ PlacesLeft("idle") = 0
BY DEF PlacesLeft

LEMMA StepsLeftType ==
    Inv => \A e \in Run : StepsLeft(e) \in Nat /\ (encoder[e] # "idle" => StepsLeft(e) > 0)
<1> SUFFICES ASSUME Inv, NEW e \in Run PROVE StepsLeft(e) \in Nat /\ (encoder[e] # "idle" => StepsLeft(e) > 0)
  OBVIOUS
<1>1. encoder[e] \in Encoder /\ tries[e] \in 0..(MaxRetries + 1) /\ MaxRetries \in Nat
  BY FileAssumption DEF Inv, TypeOK
<1>2. PlacesLeft(encoder[e]) \in Nat /\ (encoder[e] # "idle" => PlacesLeft(encoder[e]) > 0)
  BY <1>1, PlacesTable DEF Encoder
<1> QED
  BY <1>1, <1>2 DEF StepsLeft

\* The size guard does not retry for ever: StepsLeft is a number that each step
\* of an encode lessens and nothing adds to (encodeOne).
THEOREM EncodesDescend == Spec => [](\A e \in Run : StepsLeft(e) \in Nat) /\ EncodeDescends
<1>0. (Inv => \A e \in Run : StepsLeft(e) \in Nat /\ (encoder[e] # "idle" => StepsLeft(e) > 0))'
  BY StepsLeftType, PTL
<1>1. ASSUME Inv, NEW e \in Run, Encode(e), encoder[e] # "idle" PROVE StepsLeft(e)' < StepsLeft(e)
  <2> DEFINE R == MaxRetries + 1 - tries[e]
  <2>0. /\ MaxRetries \in Nat /\ tries[e] \in Nat /\ R \in Nat /\ R' = MaxRetries + 1 - tries'[e]
        /\ encoder \in [Run -> Encoder] /\ tries \in [Run -> 0..(MaxRetries + 1)]
    BY <1>1, FileAssumption DEF Inv, TypeOK
  <2> USE PlacesTable DEF StepsLeft, Step
  <2>1. CASE \E i \in Item : Claim(e, i)
    BY <1>1, <2>1 DEF Claim
  <2>2. CASE Reject(e) \/ EndInError(e) \/ WriteMarker(e)
    <3>1. encoder'[e] = "idle" /\ StepsLeft(e) > 0
      BY <1>1, <2>0, <2>2, StepsLeftType DEF Reject, EndInError, WriteMarker, Return
    <3> QED
      BY <3>1
  <2>3. CASE Filter(e) \/ CannotStart(e) \/ EndHandBrake(e) \/ Accept(e) \/ Removing(e) \/ Commit(e) \/ MarkSkipped(e)
    <3>1. tries' = tries
      BY <2>3 DEF Filter, CannotStart, EndHandBrake, Accept, Removing, FailHandBrake, Discard, FailCommit,
                  DiscardAgain, Commit, MarkSkipped
    <3>2. \/ encoder[e] = "start" /\ encoder'[e] \in {"markSkipped", "error"}
          \/ encoder[e] = "handbrake" /\ encoder'[e] \in {"decide", "error"}
          \/ encoder[e] = "decide" /\ encoder'[e] \in {"commit", "start", "markSkipped"}
          \/ encoder[e] = "commit" /\ encoder'[e] \in {"markDone", "discard"}
          \/ encoder[e] = "discard" /\ encoder'[e] = "error"
          \/ encoder[e] = "markSkipped" /\ encoder'[e] = "marker"
      BY <2>0, <2>3 DEF Filter, CannotStart, EndHandBrake, Accept, Removing, FailHandBrake, Discard, FailCommit,
                  DiscardAgain, Commit, MarkSkipped
    <3> QED
      BY <2>0, <3>1, <3>2
  <2>4. CASE StartHandBrake(e)
    <3>1. encoder[e] = "start" /\ encoder'[e] = "handbrake" /\ tries'[e] = tries[e] + 1
      BY <2>0, <2>4 DEF StartHandBrake, NextTry
    <3> QED
      BY <2>0, <3>1
  <2>6. CASE MarkDone(e)
    <3>1. encoder[e] = "markDone" /\ (encoder'[e] = "idle" \/ (encoder'[e] = "marker" /\ tries' = tries))
      BY <2>0, <2>6 DEF MarkDone, Return
    <3> QED
      BY <2>0, <3>1
  <2> QED
    BY <1>1, <2>1, <2>2, <2>3, <2>4, <2>6, EncodeSplit DEF Quiet
<1>2. ASSUME Inv, [Next]_vars, NEW e \in Run, encoder[e] # "idle" PROVE StepsLeft(e)' <= StepsLeft(e)
  <2>1. StepsLeft(e) \in Nat /\ StepsLeft(e)' \in Nat
    BY <1>0, <1>2, InvInductive, StepsLeftType
  <2>2. ASSUME NEW g \in Run, Encode(g) PROVE StepsLeft(e)' <= StepsLeft(e)
    <3>1. CASE g = e
      BY <1>1, <1>2, <2>1, <2>2, <3>1
    <3>2. CASE g # e
      <4>1. encoder'[e] = encoder[e] /\ tries'[e] = tries[e]
        BY <1>2, <2>2, <3>2, OthersStay
      <4> QED
        BY <2>1, <4>1 DEF StepsLeft
    <3> QED
      BY <3>1, <3>2
  <2>3. CASE Crash
    <3>1. encoder'[e] = "idle"
      BY <2>3 DEF Crash
    <3> QED
      BY <2>1, <3>1 DEF StepsLeft
  <2>4. CASE UNCHANGED encodeVars
    BY <2>1, <2>4 DEF encodeVars, StepsLeft
  <2> QED
    BY <1>2, <2>2, <2>3, <2>4
       DEF Next, Poll, Import, PollFile, QueueFile, RecoverRows, RemoveTemps, RetryRow, DeleteRow, vars
<1>3. Inv /\ [Next]_vars => [\A e \in Run : encoder[e] # "idle" => /\ Encode(e) => StepsLeft(e)' < StepsLeft(e)
                                                                  /\ StepsLeft(e)' <= StepsLeft(e)]_vars
  BY <1>1, <1>2
<1>4. Inv => \A e \in Run : StepsLeft(e) \in Nat
  BY StepsLeftType
<1> QED
  BY <1>3, <1>4, InvHolds, PTL DEF Spec, EncodeDescends

=============================================================================
