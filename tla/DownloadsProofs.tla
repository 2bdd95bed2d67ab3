--------------------------- MODULE DownloadsProofs ---------------------------
(***************************************************************************)
(* Proofs about the download manager, for any number of downloads,         *)
(* attempts and retries.  The invariant has seven parts:                   *)
(*   - TypesInv: the types, and which attempt a file belongs to;           *)
(*   - HeldInv: an attempt at work is aborted, or its handle is kept;      *)
(*   - PromptInv: who waits behind a record that asks;                     *)
(*   - ConsentInv: which attempts may replace a file of the user that they *)
(*     found;                                                              *)
(*   - WorkInv: an abort reaches the attempt that receives;                *)
(*   - AloneInv: of a download with one attempt, the record, the files and *)
(*     the attempt agree;                                                  *)
(*   - StagedInv: a staged deletion is of a download not deleted yet.       *)
(* A step of an attempt is first reduced to what it leaves alone (GoesOn), *)
(* so that each part looks at it once.                                     *)
(***************************************************************************)
EXTENDS Downloads, FiniteSetTheorems, SequenceTheorems, TLAPS

(* A file is at the name its download asked for, or made up; one of the    *)
(* user at one name at most, since it came.                                *)
FilesAreOwn ==
    /\ \A n \in Names : /\ files[n] \in Made => attempts[files[n]].target = n
                        /\ files[n] \in UserFiles => since[files[n]] # None
    /\ \A m, n \in Names : files[m] \in UserFiles /\ files[m] = files[n] => m = n

(* So is a temporary file, which carries the id as well.                   *)
TempsAreOwn == \A t \in Names \X Ids : temps[t] # None => Temp(temps[t]) = t

KnownAreRequested == \A id \in Ids : Known(id) => requests[id] \in Policies

OpIsOpen ==
    /\ op # None => ~ closed /\ Known(op.id)
    /\ staged # None => Known(staged.id)

(* What a step of an attempt is, and what it leaves as it was.             *)
InUse == {"looping", "receiving", "checking", "moving"}

PlaceGoesOn(a) ==
    /\ attempts' \in Seq(AttemptRecords) /\ Len(attempts') = Len(attempts)
    /\ \A b \in Made :
          /\ b # a => attempts'[b] = attempts[b]
          /\ attempts'[b].id = attempts[b].id
          /\ attempts'[b].target = attempts[b].target
          /\ attempts'[b].answer = attempts[b].answer
          /\ attempts'[b].flag = attempts[b].flag
          /\ attempts'[b].aborted = attempts[b].aborted
    /\ attempts[a].at # "ended" /\ attempts'[a].at # "prompting"
    /\ attempts[a].at = "prompting" /\ attempts'[a].at # "ended" =>
          attempts[a].answer = "overwrite"
    /\ attempts'[a].at = "receiving" => ~ attempts[a].flag
    /\ attempts'[a].at = "moved" =>
          /\ attempts[a].at = "moving" /\ temps[Temp(a)] # None
          /\ files' = [files EXCEPT ![attempts[a].target] = temps[Temp(a)]]

(* The record of the attempt moves on, and no other.                       *)
RecordGoesOn(a) ==
    /\ records' \in [Ids -> Records \union {None}]
    /\ \A id \in Ids :
          /\ records[id] = None \/ id # attempts[a].id => records'[id] = records[id]
          /\ Known(id) => records'[id] # None
          /\ Known(id) /\ records[id].status \in Terminal =>
                records'[id].status = records[id].status
          /\ Known(id) => records'[id].path \in {records[id].path, attempts[a].target}
          /\ Known(id) => records'[id].deleted = records[id].deleted
          /\ Known(id) /\ records'[id].status # records[id].status =>
                \/ records'[id].status = "downloading"
                \/ attempts'[a].at = "ended" /\ records'[id].status \in Terminal
          /\ Known(id) /\ records'[id].status = "completed" =>
                records[id].status = "completed" \/ attempts[a].at = "moved"
    /\ LET id == attempts[a].id
       IN  /\ Known(id)
           /\ attempts[a].at \in {"prompting", "starting", "claiming"}
           /\ ~ attempts[a].aborted
           /\ records'[id].status = "prompting"
           => attempts'[a].at \in {"starting", "claiming"}

DiskGoesOn(a) ==
    /\ temps' \in [Names \X Ids -> Made \union {None}]
    /\ \A t \in Names \X Ids :
          \/ temps'[t] \in {temps[t], None}
          \/ t = Temp(a) /\ temps'[t] = a /\ attempts'[a].at = "looping"
    /\ \/ files' = files
       \/ attempts'[a].at = "moved"
    /\ /\ attempts[a].at \in InUse /\ attempts'[a].at \notin InUse
       /\ attempts[a].at = "receiving" => ~ attempts[a].aborted
       => temps'[Temp(a)] = None
    /\ events' \subseteq {"completed", "failed"} \X Ids

TypesInv ==
    /\ TypeOK
    /\ FilesAreOwn
    /\ TempsAreOwn
    /\ KnownAreRequested
    /\ OpIsOpen

-----------------------------------------------------------------------------
(* Names.                                                                  *)
LEMMA LeastElement ==
    ASSUME NEW T, T \subseteq Nat, T # {}
    PROVE  \E x \in T : \A y \in T : ~ y < x
  <1>1. IsWellFoundedOn(OpToRel(<, Nat), Nat)
    BY NatLessThanWellFounded
  <1>2. PICK x \in T : \A y \in T : ~ (<<y, x>> \in OpToRel(<, Nat))
    BY <1>1, WFMin
  <1>3. \A y \in T : <<y, x>> \in OpToRel(<, Nat) <=> y < x
    BY DEF OpToRel
  <1> QED
    BY <1>2, <1>3

LEMMA MadeFacts ==
    ASSUME TypeOK
    PROVE  /\ Len(attempts) \in Nat
           /\ Made = 1 .. Len(attempts)
           /\ Made \subseteq Attempts
           /\ \A a \in Made : attempts[a] \in AttemptRecords
           /\ None \notin Made /\ Absent \notin Made /\ UserFiles \intersect Made = {}
           /\ Absent \notin UserFiles /\ None \notin Nat
           /\ MaxAttempts \in Nat /\ 0 \in Names /\ Names \subseteq Nat
  <1>1. attempts \in Seq(AttemptRecords) /\ Len(attempts) <= MaxAttempts
    BY DEF TypeOK
  <1>2. /\ Absent \notin Nat /\ None \notin Nat /\ MaxAttempts \in Nat /\ MaxSuffix \in Nat
        /\ UserFiles \intersect Nat = {} /\ Absent \notin UserFiles
    BY DownloadConstants
  <1>3. Len(attempts) \in Nat /\ DOMAIN attempts = 1 .. Len(attempts)
    BY <1>1
  <1>4. \A a \in Made : attempts[a] \in AttemptRecords
    BY <1>1, <1>3 DEF Made
  <1> QED
    BY <1>1, <1>2, <1>3, <1>4 DEF Made, Attempts, Names

LEMMA MadeIsFinite ==
    ASSUME TypeOK
    PROVE  IsFiniteSet(Made) /\ Cardinality(Made) = Len(attempts)
  <1>1. 1 \in Int /\ Len(attempts) \in Int
    BY MadeFacts
  <1>2. /\ IsFiniteSet(1 .. Len(attempts))
        /\ Cardinality(1 .. Len(attempts)) =
              IF 1 > Len(attempts) THEN 0 ELSE Len(attempts) - 1 + 1
    BY <1>1, FS_Interval, Zenon
  <1> QED
    BY <1>2, MadeFacts

(* There are more names than attempts and files of the user.               *)
LEMMA SomeNameIsFree ==
    ASSUME TypeOK, Len(attempts) < MaxAttempts, FilesAreOwn
    PROVE  \E n \in Names : files[n] = Absent
  <1> SUFFICES ASSUME \A n \in Names : files[n] # Absent PROVE FALSE
    OBVIOUS
  <1> DEFINE Taken == Made \union UserFiles
  <1>1. IsFiniteSet(Made) /\ Cardinality(Made) = Len(attempts)
    BY MadeIsFinite
  <1>2. IsFiniteSet(Taken) /\ Cardinality(Taken) <= Len(attempts) + Cardinality(UserFiles)
    <2>1. IsFiniteSet(UserFiles) /\ Cardinality(UserFiles) \in Nat
      BY DownloadConstants, FS_CardinalityType
    <2>2. /\ IsFiniteSet(Made \union UserFiles) /\ IsFiniteSet(Made \intersect UserFiles)
          /\ Cardinality(Made \union UserFiles) =
                Cardinality(Made) + Cardinality(UserFiles) - Cardinality(Made \intersect UserFiles)
      BY <1>1, <2>1, FS_Union, FS_Intersection
    <2>3. Cardinality(Made \intersect UserFiles) \in Nat
      BY <2>2, FS_CardinalityType
    <2> QED
      BY <1>1, <2>1, <2>2, <2>3, MadeFacts
  <1>3. IsFiniteSet(Names) /\ Cardinality(Names) = MaxSuffix + 1
    <2>1. 0 \in Int /\ MaxSuffix \in Int /\ MaxSuffix \in Nat
      BY DownloadConstants
    <2>2. /\ IsFiniteSet(0 .. MaxSuffix)
          /\ Cardinality(0 .. MaxSuffix) =
                IF 0 > MaxSuffix THEN 0 ELSE MaxSuffix - 0 + 1
      BY <2>1, FS_Interval, Zenon
    <2> QED
      BY <2>1, <2>2 DEF Names
  <1>4. Cardinality(Taken) < Cardinality(Names)
    <2>1. /\ Cardinality(UserFiles) \in Nat /\ Cardinality(Taken) \in Nat
          /\ Len(attempts) \in Nat /\ MaxAttempts \in Nat /\ MaxSuffix \in Nat
      BY <1>2, DownloadConstants, MadeFacts, FS_CardinalityType
    <2>2. MaxAttempts + Cardinality(UserFiles) <= MaxSuffix + 1
      BY DownloadConstants
    <2> HIDE DEF Taken
    <2> QED
      BY <1>2, <1>3, <2>1, <2>2
  <1>5. files \in [Names -> Taken]
    BY DEF TypeOK
  <1>6. PICK m, n \in Names : m # n /\ files[m] = files[n]
    <2> HIDE DEF Taken
    <2> QED BY <1>2, <1>3, <1>4, <1>5, FS_PigeonHole
  <1> QED
    BY <1>5, <1>6 DEF FilesAreOwn

(* So the name that uniquify looks for exists.                             *)
LEMMA UniqueName ==
    ASSUME TypeOK, FilesAreOwn, Len(attempts) < MaxAttempts
    PROVE  Uniquified \in Names /\ files[Uniquified] = Absent
  <1> DEFINE Free == {n \in Names : files[n] = Absent}
  <1>1. Free \subseteq Nat /\ Free # {}
    BY SomeNameIsFree, MadeFacts
  <1>2. PICK n \in Free : \A m \in Free : ~ m < n
    <2> HIDE DEF Free
    <2> QED BY <1>1, LeastElement
  <1>3. \A m \in 0 .. n - 1 : m \in Names /\ m < n
    <2>1. MaxSuffix \in Nat /\ n \in 0 .. MaxSuffix
      BY <1>2, DownloadConstants DEF Names
    <2> QED
      BY <2>1 DEF Names
  <1>4. n \in Names /\ files[n] = Absent /\ \A m \in 0 .. n - 1 : files[m] # Absent
    BY <1>2, <1>3
  <1> QED
    BY <1>4 DEF Uniquified

LEMMA Target ==
    ASSUME TypeOK, FilesAreOwn, Len(attempts) < MaxAttempts, NEW policy
    PROVE  /\ TargetFor(policy) \in Names
           /\ policy = "unique" => files[TargetFor(policy)] = Absent
           /\ policy # "unique" => TargetFor(policy) = 0
  BY UniqueName, MadeFacts DEF TargetFor

-----------------------------------------------------------------------------
(* The attempts.                                                           *)
LEMMA GoesTo ==
    ASSUME TypeOK, NEW a \in Made, NEW place \in Places, Goes(a, place)
    PROVE  /\ attempts' \in Seq(AttemptRecords) /\ Len(attempts') = Len(attempts)
           /\ attempts'[a].at = place
           /\ \A b \in Made :
                 /\ b # a => attempts'[b] = attempts[b]
                 /\ attempts'[b].id = attempts[b].id
                 /\ attempts'[b].target = attempts[b].target
                 /\ attempts'[b].answer = attempts[b].answer
                 /\ attempts'[b].flag = attempts[b].flag
                 /\ attempts'[b].aborted = attempts[b].aborted
  <1>1. attempts \in Seq(AttemptRecords) /\ a \in 1 .. Len(attempts)
    BY MadeFacts DEF TypeOK
  <1>2. attempts' = [attempts EXCEPT ![a] = [attempts[a] EXCEPT !.at = place]]
    BY DEF Goes
  <1>3. attempts[a] \in AttemptRecords
    BY MadeFacts
  <1>4. [attempts[a] EXCEPT !.at = place] \in AttemptRecords
    BY <1>3 DEF AttemptRecords
  <1>5. attempts' \in Seq(AttemptRecords) /\ Len(attempts') = Len(attempts)
    BY <1>1, <1>2, <1>4
  <1>6. \A b \in Made : attempts'[b] =
            IF b = a THEN [attempts[a] EXCEPT !.at = place] ELSE attempts[b]
    BY <1>1, <1>2, MadeFacts
  <1> QED
    BY <1>3, <1>5, <1>6 DEF AttemptRecords

(* A transition leaves the other records, the path, and a status that is   *)
(* terminal.                                                               *)
LEMMA Transits ==
    ASSUME NEW rs \in [Ids -> Records \union {None}], NEW id \in Ids, NEW status \in Statuses
    PROVE  /\ Transition(rs, id, status) \in [Ids -> Records \union {None}]
           /\ \A j \in Ids :
                 /\ rs[j] = None \/ j # id => Transition(rs, id, status)[j] = rs[j]
                 /\ rs[j] # None =>
                       /\ Transition(rs, id, status)[j] # None
                       /\ Transition(rs, id, status)[j].path = rs[j].path
                       /\ Transition(rs, id, status)[j].deleted = rs[j].deleted
                       /\ rs[j].status \in Terminal =>
                             Transition(rs, id, status)[j].status = rs[j].status
                       /\ j = id /\ rs[j].status \notin Terminal =>
                             Transition(rs, id, status)[j].status = status
  <1>1. CASE rs[id] # None /\ rs[id].status \notin Terminal
    <2>1. Transition(rs, id, status) = [rs EXCEPT ![id] = [rs[id] EXCEPT !.status = status]]
      BY <1>1 DEF Transition
    <2>2. rs[id] \in Records /\ None \notin Records
      BY <1>1, NoneIsNothing
    <2>3. [rs[id] EXCEPT !.status = status] \in Records
      BY <2>2 DEF Records
    <2>4. /\ [rs[id] EXCEPT !.status = status].path = rs[id].path
          /\ [rs[id] EXCEPT !.status = status].deleted = rs[id].deleted
          /\ [rs[id] EXCEPT !.status = status].status = status
      BY <2>2 DEF Records
    <2> QED
      BY <1>1, <2>1, <2>2, <2>3, <2>4
  <1>2. CASE ~ (rs[id] # None /\ rs[id].status \notin Terminal)
    BY <1>2 DEF Transition
  <1> QED
    BY <1>1, <1>2

LEMMA SetsPath ==
    ASSUME NEW rs \in [Ids -> Records \union {None}], NEW id \in Ids, NEW name \in Names
    PROVE  /\ SetPath(rs, id, name) \in [Ids -> Records \union {None}]
           /\ \A j \in Ids :
                 /\ rs[j] = None \/ j # id => SetPath(rs, id, name)[j] = rs[j]
                 /\ rs[j] # None =>
                       /\ SetPath(rs, id, name)[j] # None
                       /\ SetPath(rs, id, name)[j].path \in {rs[j].path, name}
                       /\ j = id => SetPath(rs, id, name)[j].path = name
                       /\ SetPath(rs, id, name)[j].deleted = rs[j].deleted
                       /\ SetPath(rs, id, name)[j].status = rs[j].status
  <1>1. CASE rs[id] # None
    <2>1. SetPath(rs, id, name) = [rs EXCEPT ![id] = [rs[id] EXCEPT !.path = name]]
      BY <1>1 DEF SetPath
    <2>2. rs[id] \in Records /\ None \notin Records
      BY <1>1, NoneIsNothing
    <2>3. [rs[id] EXCEPT !.path = name] \in Records
      BY <2>2 DEF Records
    <2>4. /\ [rs[id] EXCEPT !.path = name].path = name
          /\ [rs[id] EXCEPT !.path = name].deleted = rs[id].deleted
          /\ [rs[id] EXCEPT !.path = name].status = rs[id].status
      BY <2>2 DEF Records
    <2> QED
      BY <1>1, <2>1, <2>2, <2>3, <2>4
  <1>2. CASE rs[id] = None
    BY <1>2 DEF SetPath
  <1> QED
    BY <1>1, <1>2

LEMMA AttemptFacts ==
    ASSUME TypeOK, NEW a \in Made
    PROVE  /\ attempts[a].id \in Ids /\ attempts[a].target \in Names
           /\ attempts[a].at \in Places
           /\ attempts[a].answer \in {"unasked", "waiting", "overwrite", "keep"}
           /\ attempts[a].flag \in BOOLEAN /\ attempts[a].aborted \in BOOLEAN
           /\ Temp(a) \in Names \X Ids
           /\ Temp(a)[1] = attempts[a].target /\ Temp(a)[2] = attempts[a].id
  BY MadeFacts DEF AttemptRecords, Temp

LEMMA PlaceFacts ==
    /\ Awaits \subseteq Places /\ InUse \subseteq Places
    /\ {"starting", "claiming", "opening", "looping", "checking", "moving", "moved", "ended"}
          \subseteq Places
    /\ Terminal \subseteq Statuses /\ "prompting" \notin Terminal
    /\ "downloading" \in Statuses /\ "downloading" \notin Terminal
    /\ "completed" \in Terminal /\ "cancelled" \in Terminal /\ "failed" \in Terminal
  BY DEF Awaits, Places, InUse, Terminal, Statuses

(* A step to another place that leaves the record.                         *)
LEMMA LeavesRecord ==
    ASSUME TypeOK, NEW a \in Made, NEW place \in Places, Goes(a, place),
           records' = records,
           attempts[a].at # "ended", place \notin {"prompting", "moved"},
           attempts[a].at = "prompting" /\ place # "ended" => attempts[a].answer = "overwrite",
           place = "receiving" => ~ attempts[a].flag,
           attempts[a].at \in {"prompting", "starting", "claiming"} /\ ~ attempts[a].aborted
              => place \in {"starting", "claiming"}
    PROVE  PlaceGoesOn(a) /\ RecordGoesOn(a)
  <1>1. PlaceGoesOn(a)
    BY GoesTo, AttemptFacts DEF PlaceGoesOn
  <1>2. records \in [Ids -> Records \union {None}]
    BY DEF TypeOK
  <1> QED
    BY <1>1, <1>2, GoesTo DEF RecordGoesOn, Known

(* A step that ends the attempt and, unless its record was cleared or had  *)
(* ended, the record.                                                      *)
LEMMA EndsOn ==
    ASSUME TypeOK, NEW a \in Made, NEW status \in Terminal, Ends(a, status),
           attempts[a].at # "ended", status = "completed" => attempts[a].at = "moved"
    PROVE  PlaceGoesOn(a) /\ RecordGoesOn(a) /\ attempts'[a].at = "ended"
  <1>1. PlaceGoesOn(a) /\ attempts'[a].at = "ended"
    BY GoesTo, AttemptFacts, PlaceFacts DEF PlaceGoesOn, Ends
  <1>2. records \in [Ids -> Records \union {None}] /\ attempts[a].id \in Ids
        /\ status \in Statuses /\ status # "prompting"
    BY AttemptFacts, PlaceFacts DEF TypeOK
  <1>3. records' = Transition(records, attempts[a].id, status)
    BY DEF Ends
  <1>4. \A j \in Ids :
          /\ records[j] = None \/ j # attempts[a].id => records'[j] = records[j]
          /\ records[j] # None =>
                /\ records'[j] # None
                /\ records'[j].path = records[j].path
                /\ records'[j].deleted = records[j].deleted
                /\ records[j].status \in Terminal => records'[j].status = records[j].status
                /\ j = attempts[a].id /\ records[j].status \notin Terminal =>
                      records'[j].status = status
    BY <1>2, <1>3, Transits
  <1>5. records' \in [Ids -> Records \union {None}]
    BY <1>2, <1>3, Transits
  <1> QED
    BY <1>1, <1>2, <1>4, <1>5, PlaceFacts DEF RecordGoesOn, Known

(* A step that does not touch the disk, and one that removes the temporary *)
(* file.                                                                   *)
LEMMA QuietDisk ==
    ASSUME TypeOK, NEW a \in Made, UNCHANGED disk,
           events' \in {events, events \union {<<"failed", attempts[a].id>>},
                        events \union {<<"completed", attempts[a].id>>}},
           \/ attempts[a].at \notin InUse
           \/ attempts'[a].at \in InUse
           \/ attempts[a].at = "receiving" /\ attempts[a].aborted
    PROVE  DiskGoesOn(a)
  BY AttemptFacts DEF DiskGoesOn, disk, TypeOK

LEMMA CleanDisk ==
    ASSUME TypeOK, NEW a \in Made, RemoveTemp(a),
           files' = files \/ attempts'[a].at = "moved",
           events' \in {events, events \union {<<"failed", attempts[a].id>>}}
    PROVE  DiskGoesOn(a)
  <1>1. temps' = [temps EXCEPT ![Temp(a)] = None] /\ temps \in [Names \X Ids -> Made \union {None}]
    BY DEF RemoveTemp, TypeOK
  <1>2. \A t \in Names \X Ids : temps'[t] = IF t = Temp(a) THEN None ELSE temps[t]
    BY <1>1
  <1>3. events' \subseteq {"completed", "failed"} \X Ids
    BY AttemptFacts DEF TypeOK
  <1>4. temps' \in [Names \X Ids -> Made \union {None}]
    BY <1>1
  <1> QED
    BY <1>2, <1>3, <1>4, AttemptFacts DEF DiskGoesOn

GoesOn(a) ==
    PlaceGoesOn(a) /\ RecordGoesOn(a) /\ DiskGoesOn(a) /\ since' = since /\ UNCHANGED app

LEMMA DecideEffect ==
    ASSUME TypeOK, NEW a \in Made, Decide(a)
    PROVE  GoesOn(a)
  <1>1. UNCHANGED app /\ since' = since /\ UNCHANGED disk /\ UNCHANGED events
    BY DEF Decide, disk
  <1>2. PlaceGoesOn(a) /\ RecordGoesOn(a)
    <2>1. CASE attempts[a].answer = "overwrite" /\ Goes(a, "starting") /\ UNCHANGED records
      BY <2>1, LeavesRecord, PlaceFacts DEF Decide
    <2>2. CASE Ends(a, "cancelled")
      BY <2>2, EndsOn, PlaceFacts DEF Decide
    <2> QED
      BY <2>1, <2>2 DEF Decide
  <1>3. DiskGoesOn(a)
    BY <1>1, QuietDisk DEF Decide, InUse
  <1> QED
    BY <1>1, <1>2, <1>3 DEF GoesOn

LEMMA BeginEffect ==
    ASSUME TypeOK, NEW a \in Made, Begin(a)
    PROVE  GoesOn(a)
  <1>1. UNCHANGED app /\ since' = since /\ UNCHANGED disk /\ UNCHANGED events
    BY DEF Begin, disk
  <1>2. PlaceGoesOn(a) /\ RecordGoesOn(a)
    <2>1. CASE Goes(a, "claiming") /\ UNCHANGED records
      BY <2>1, LeavesRecord, PlaceFacts DEF Begin
    <2>2. CASE Ends(a, "cancelled")
      BY <2>2, EndsOn, PlaceFacts DEF Begin
    <2> QED
      BY <2>1, <2>2 DEF Begin
  <1>3. DiskGoesOn(a)
    BY <1>1, QuietDisk DEF Begin, InUse
  <1> QED
    BY <1>1, <1>2, <1>3 DEF GoesOn

LEMMA ClaimEffect ==
    ASSUME TypeOK, NEW a \in Made, Claim(a)
    PROVE  GoesOn(a)
  <1>1. /\ UNCHANGED app /\ since' = since /\ UNCHANGED disk /\ UNCHANGED events
        /\ attempts[a].at = "claiming"
    BY DEF Claim, disk
  <1>2. Goes(a, "requesting")
    BY DEF Claim
  <1>3. PlaceGoesOn(a)
    BY <1>1, <1>2, GoesTo DEF PlaceGoesOn, Places, Awaits
  <1> DEFINE id == attempts[a].id
             rs == SetPath(records, id, attempts[a].target)
  <1>4. records' = Transition(rs, id, "downloading")
    BY DEF Claim
  <1>5. records \in [Ids -> Records \union {None}] /\ id \in Ids /\ attempts[a].target \in Names
    BY AttemptFacts DEF TypeOK
  <1>6. /\ rs \in [Ids -> Records \union {None}]
        /\ \A j \in Ids :
              /\ records[j] = None \/ j # id => rs[j] = records[j]
              /\ records[j] # None =>
                    /\ rs[j] # None
                    /\ rs[j].path \in {records[j].path, attempts[a].target}
                    /\ rs[j].deleted = records[j].deleted
                    /\ rs[j].status = records[j].status
    <2> HIDE DEF id
    <2> QED BY <1>5, SetsPath
  <1>7. /\ records' \in [Ids -> Records \union {None}]
        /\ \A j \in Ids :
              /\ rs[j] = None \/ j # id => records'[j] = rs[j]
              /\ rs[j] # None =>
                    /\ records'[j] # None
                    /\ records'[j].path = rs[j].path
                    /\ records'[j].deleted = rs[j].deleted
                    /\ rs[j].status \in Terminal => records'[j].status = rs[j].status
                    /\ j = id /\ rs[j].status \notin Terminal =>
                          records'[j].status = "downloading"
    <2> HIDE DEF id, rs
    <2> QED BY <1>4, <1>5, <1>6, Transits, PlaceFacts
  <1>8. RecordGoesOn(a)
    <2> HIDE DEF rs
    <2>1. \A j \in Ids :
              /\ records[j] = None \/ j # id => records'[j] = records[j]
              /\ records[j] # None =>
                    /\ records'[j] # None
                    /\ records'[j].path \in {records[j].path, attempts[a].target}
                    /\ records'[j].deleted = records[j].deleted
                    /\ records[j].status \in Terminal => records'[j].status = records[j].status
                    /\ records'[j].status \in {records[j].status, "downloading"}
                    /\ j = id => records'[j].status # "prompting"
      BY <1>6, <1>7, PlaceFacts
    <2> QED
      BY <2>1, <1>5, <1>7, PlaceFacts DEF RecordGoesOn, Known
  <1>9. DiskGoesOn(a)
    BY <1>1, QuietDisk DEF InUse
  <1> QED
    BY <1>1, <1>3, <1>8, <1>9 DEF GoesOn

LEMMA FailsEffect ==
    ASSUME TypeOK, NEW a \in Made, Fails(a), attempts[a].at \notin {"ended", "prompting"}
    PROVE  PlaceGoesOn(a) /\ RecordGoesOn(a) /\ attempts'[a].at = "ended"
           /\ events' = events \union {<<"failed", attempts[a].id>>}
  BY EndsOn, PlaceFacts DEF Fails

LEMMA RespondEffect ==
    ASSUME TypeOK, NEW a \in Made, Respond(a)
    PROVE  GoesOn(a)
  <1>1. UNCHANGED app /\ since' = since /\ UNCHANGED disk /\ attempts[a].at = "requesting"
    BY DEF Respond, disk
  <1>2. CASE Goes(a, "opening") /\ UNCHANGED history
    <2>1. PlaceGoesOn(a) /\ RecordGoesOn(a)
      BY <1>1, <1>2, LeavesRecord, PlaceFacts DEF history
    <2>2. DiskGoesOn(a)
      BY <1>1, <1>2, QuietDisk DEF InUse, history
    <2> QED
      BY <1>1, <2>1, <2>2 DEF GoesOn
  <1>3. CASE Fails(a)
    <2>1. /\ PlaceGoesOn(a) /\ RecordGoesOn(a)
          /\ events' = events \union {<<"failed", attempts[a].id>>}
      BY <1>1, <1>3, FailsEffect
    <2>2. DiskGoesOn(a)
      BY <1>1, <2>1, QuietDisk DEF InUse
    <2> QED
      BY <1>1, <2>1, <2>2 DEF GoesOn
  <1> QED
    BY <1>2, <1>3 DEF Respond

LEMMA OpenEffect ==
    ASSUME TypeOK, NEW a \in Made, Open(a)
    PROVE  GoesOn(a)
  <1>1. UNCHANGED app /\ since' = since /\ files' = files /\ attempts[a].at = "opening"
    BY DEF Open
  <1>2. CASE temps' = [temps EXCEPT ![Temp(a)] = a] /\ Goes(a, "looping") /\ UNCHANGED history
    <2>1. PlaceGoesOn(a) /\ RecordGoesOn(a) /\ attempts'[a].at = "looping"
      BY <1>1, <1>2, LeavesRecord, GoesTo, PlaceFacts DEF history
    <2>2. DiskGoesOn(a)
      BY <1>1, <1>2, <2>1 DEF InUse, history, DiskGoesOn, TypeOK
    <2> QED
      BY <1>1, <2>1, <2>2 DEF GoesOn
  <1>3. CASE Fails(a) /\ UNCHANGED temps
    <2>1. /\ PlaceGoesOn(a) /\ RecordGoesOn(a)
          /\ events' = events \union {<<"failed", attempts[a].id>>}
      BY <1>1, <1>3, FailsEffect
    <2>2. DiskGoesOn(a)
      BY <1>1, <1>3, <2>1, QuietDisk DEF InUse, disk
    <2> QED
      BY <1>1, <2>1, <2>2 DEF GoesOn
  <1> QED
    BY <1>2, <1>3 DEF Open

LEMMA CheckFlagEffect ==
    ASSUME TypeOK, NEW a \in Made, CheckFlag(a)
    PROVE  GoesOn(a)
  <1>1. UNCHANGED app /\ since' = since /\ files' = files /\ events' = events /\ attempts[a].at = "looping"
    BY DEF CheckFlag
  <1>2. CASE Ends(a, "cancelled") /\ RemoveTemp(a)
    <2>1. PlaceGoesOn(a) /\ RecordGoesOn(a)
      BY <1>1, <1>2, EndsOn, PlaceFacts
    <2>2. DiskGoesOn(a)
      BY <1>1, <1>2, CleanDisk
    <2> QED
      BY <1>1, <2>1, <2>2 DEF GoesOn
  <1>3. CASE Goes(a, "receiving") /\ UNCHANGED <<records, temps>> /\ ~ attempts[a].flag
    <2>1. PlaceGoesOn(a) /\ RecordGoesOn(a) /\ attempts'[a].at = "receiving"
      BY <1>1, <1>3, LeavesRecord, GoesTo, PlaceFacts DEF InUse
    <2>2. DiskGoesOn(a)
      BY <1>1, <1>3, <2>1, QuietDisk DEF InUse, disk
    <2> QED
      BY <1>1, <2>1, <2>2 DEF GoesOn
  <1> QED
    BY <1>2, <1>3 DEF CheckFlag

LEMMA ReceiveEffect ==
    ASSUME TypeOK, NEW a \in Made, Receive(a)
    PROVE  GoesOn(a)
  <1>1. /\ UNCHANGED app /\ since' = since /\ UNCHANGED disk /\ UNCHANGED events
        /\ attempts[a].at = "receiving"
    BY DEF Receive, disk
  <1>2. PlaceGoesOn(a) /\ attempts'[a].at = "looping"
    BY <1>1, GoesTo, PlaceFacts DEF PlaceGoesOn, Receive
  <1>3. records \in [Ids -> Records \union {None}] /\ attempts[a].id \in Ids
    BY AttemptFacts DEF TypeOK
  <1>4. records' = Transition(records, attempts[a].id, "downloading")
    BY DEF Receive
  <1>5. /\ records' \in [Ids -> Records \union {None}]
        /\ \A j \in Ids :
              /\ records[j] = None \/ j # attempts[a].id => records'[j] = records[j]
              /\ records[j] # None =>
                    /\ records'[j] # None
                    /\ records'[j].path = records[j].path
                    /\ records'[j].deleted = records[j].deleted
                    /\ records[j].status \in Terminal => records'[j].status = records[j].status
                    /\ j = attempts[a].id /\ records[j].status \notin Terminal =>
                          records'[j].status = "downloading"
    BY <1>3, <1>4, Transits, PlaceFacts
  <1>6. RecordGoesOn(a)
    BY <1>1, <1>3, <1>5, PlaceFacts DEF RecordGoesOn, Known
  <1>7. DiskGoesOn(a)
    BY <1>1, <1>2, QuietDisk DEF InUse
  <1> QED
    BY <1>1, <1>2, <1>6, <1>7 DEF GoesOn

LEMMA StopReceivingEffect ==
    ASSUME TypeOK, NEW a \in Made, StopReceiving(a)
    PROVE  GoesOn(a)
  <1>1. UNCHANGED app /\ since' = since /\ files' = files /\ attempts[a].at = "receiving"
    BY DEF StopReceiving
  <1>2. CASE Goes(a, "checking") /\ UNCHANGED <<history, temps>>
    <2>1. PlaceGoesOn(a) /\ RecordGoesOn(a) /\ attempts'[a].at = "checking"
      BY <1>1, <1>2, LeavesRecord, GoesTo, PlaceFacts DEF history
    <2>2. DiskGoesOn(a)
      BY <1>1, <1>2, <2>1, QuietDisk DEF InUse, history, disk
    <2> QED
      BY <1>1, <2>1, <2>2 DEF GoesOn
  <1>3. CASE Fails(a) /\ RemoveTemp(a)
    <2>1. /\ PlaceGoesOn(a) /\ RecordGoesOn(a)
          /\ events' = events \union {<<"failed", attempts[a].id>>}
      BY <1>1, <1>3, FailsEffect
    <2>2. DiskGoesOn(a)
      BY <1>1, <1>3, <2>1, CleanDisk
    <2> QED
      BY <1>1, <2>1, <2>2 DEF GoesOn
  <1> QED
    BY <1>2, <1>3 DEF StopReceiving

LEMMA LastCheckEffect ==
    ASSUME TypeOK, NEW a \in Made, LastCheck(a)
    PROVE  GoesOn(a)
  <1>1. UNCHANGED app /\ since' = since /\ files' = files /\ events' = events /\ attempts[a].at = "checking"
    BY DEF LastCheck
  <1>2. CASE Ends(a, "cancelled") /\ RemoveTemp(a)
    <2>1. PlaceGoesOn(a) /\ RecordGoesOn(a)
      BY <1>1, <1>2, EndsOn, PlaceFacts
    <2>2. DiskGoesOn(a)
      BY <1>1, <1>2, CleanDisk
    <2> QED
      BY <1>1, <2>1, <2>2 DEF GoesOn
  <1>3. CASE Goes(a, "moving") /\ UNCHANGED <<records, temps>>
    <2>1. PlaceGoesOn(a) /\ RecordGoesOn(a) /\ attempts'[a].at = "moving"
      BY <1>1, <1>3, LeavesRecord, GoesTo, PlaceFacts
    <2>2. DiskGoesOn(a)
      BY <1>1, <1>3, <2>1, QuietDisk DEF InUse, disk
    <2> QED
      BY <1>1, <2>1, <2>2 DEF GoesOn
  <1> QED
    BY <1>2, <1>3 DEF LastCheck

LEMMA MoveEffect ==
    ASSUME TypeOK, NEW a \in Made, Move(a)
    PROVE  GoesOn(a)
  <1>1. UNCHANGED app /\ since' = since /\ attempts[a].at = "moving" /\ RemoveTemp(a)
    BY DEF Move
  <1>2. CASE /\ temps[Temp(a)] # None
             /\ files' = [files EXCEPT ![attempts[a].target] = temps[Temp(a)]]
             /\ Goes(a, "moved")
             /\ UNCHANGED history
    <2>1. PlaceGoesOn(a) /\ attempts'[a].at = "moved"
      BY <1>1, <1>2, GoesTo, PlaceFacts DEF PlaceGoesOn
    <2>2. RecordGoesOn(a)
      BY <1>1, <1>2 DEF RecordGoesOn, history, TypeOK, Known
    <2>3. DiskGoesOn(a)
      BY <1>1, <1>2, <2>1, CleanDisk DEF history
    <2> QED
      BY <1>1, <2>1, <2>2, <2>3 DEF GoesOn
  <1>3. CASE Fails(a) /\ UNCHANGED files
    <2>1. /\ PlaceGoesOn(a) /\ RecordGoesOn(a)
          /\ events' = events \union {<<"failed", attempts[a].id>>}
      BY <1>1, <1>3, FailsEffect
    <2>2. DiskGoesOn(a)
      BY <1>1, <1>3, <2>1, CleanDisk
    <2> QED
      BY <1>1, <2>1, <2>2 DEF GoesOn
  <1> QED
    BY <1>2, <1>3 DEF Move

LEMMA CompleteEffect ==
    ASSUME TypeOK, NEW a \in Made, Complete(a)
    PROVE  GoesOn(a)
  <1>1. UNCHANGED app /\ since' = since /\ UNCHANGED disk /\ attempts[a].at = "moved"
    BY DEF Complete, disk
  <1>2. PlaceGoesOn(a) /\ RecordGoesOn(a)
    BY <1>1, EndsOn, PlaceFacts DEF Complete
  <1>3. DiskGoesOn(a)
    BY <1>1, QuietDisk DEF Complete, InUse
  <1> QED
    BY <1>1, <1>2, <1>3 DEF GoesOn

LEMMA DroppedEffect ==
    ASSUME TypeOK, NEW a \in Made, Dropped(a)
    PROVE  GoesOn(a)
  <1>1. UNCHANGED app /\ since' = since /\ UNCHANGED disk /\ UNCHANGED history /\ Goes(a, "ended")
    BY DEF Dropped, disk
  <1>2. PlaceGoesOn(a) /\ RecordGoesOn(a)
    BY <1>1, LeavesRecord, PlaceFacts DEF Dropped, Awaits, history
  <1>3. DiskGoesOn(a)
    BY <1>1, QuietDisk DEF Dropped, Awaits, InUse, history
  <1> QED
    BY <1>1, <1>2, <1>3 DEF GoesOn

(* Whatever an attempt does is one of these.                               *)
LEMMA AttemptEffect ==
    ASSUME TypeOK, NEW a \in Made, AttemptStep(a)
    PROVE  GoesOn(a)
  BY DecideEffect, BeginEffect, ClaimEffect, RespondEffect, OpenEffect, CheckFlagEffect,
     ReceiveEffect, StopReceivingEffect, LastCheckEffect, MoveEffect, CompleteEffect,
     DroppedEffect
  DEF AttemptStep

-----------------------------------------------------------------------------
(* What the App does to the attempts.                                      *)
LEMMA Aborts ==
    ASSUME TypeOK, NEW S, attempts' = Aborting(S)
    PROVE  /\ attempts' \in Seq(AttemptRecords) /\ Len(attempts') = Len(attempts)
           /\ Made' = Made
           /\ \A b \in Made :
                 /\ attempts'[b].id = attempts[b].id
                 /\ attempts'[b].target = attempts[b].target
                 /\ attempts'[b].answer = attempts[b].answer
                 /\ b \notin S => attempts'[b] = attempts[b]
                 /\ b \in S =>
                       /\ attempts'[b].flag
                       /\ IF attempts[b].at \in Awaits /\ ~ attempts[b].aborted
                          THEN /\ attempts'[b].at = "ended"
                               /\ attempts'[b].aborted = attempts[b].aborted
                          ELSE /\ attempts'[b].at = attempts[b].at
                               /\ attempts'[b].aborted
  <1>1. Made = 1 .. Len(attempts) /\ Len(attempts) \in Nat
    BY MadeFacts
  <1>2. \A b \in Made : attempts'[b] =
            IF b \notin S THEN attempts[b]
            ELSE IF attempts[b].at \in Awaits /\ ~ attempts[b].aborted
                 THEN [attempts[b] EXCEPT !.flag = TRUE, !.at = "ended"]
                 ELSE [attempts[b] EXCEPT !.flag = TRUE, !.aborted = TRUE]
    BY DEF Aborting
  <1>3. \A b \in Made :
          /\ attempts'[b] \in AttemptRecords
          /\ attempts'[b].id = attempts[b].id
          /\ attempts'[b].target = attempts[b].target
          /\ attempts'[b].answer = attempts[b].answer
          /\ b \notin S => attempts'[b] = attempts[b]
          /\ b \in S =>
                /\ attempts'[b].flag
                /\ IF attempts[b].at \in Awaits /\ ~ attempts[b].aborted
                   THEN /\ attempts'[b].at = "ended"
                        /\ attempts'[b].aborted = attempts[b].aborted
                   ELSE /\ attempts'[b].at = attempts[b].at
                        /\ attempts'[b].aborted
    <2> TAKE b \in Made
    <2>1. attempts[b] \in AttemptRecords
      BY MadeFacts
    <2>2. CASE b \notin S
      BY <1>2, <2>1, <2>2
    <2>3. CASE b \in S /\ attempts[b].at \in Awaits /\ ~ attempts[b].aborted
      <3>1. attempts'[b] = [attempts[b] EXCEPT !.flag = TRUE, !.at = "ended"]
        BY <1>2, <2>3
      <3> QED
        BY <2>1, <2>3, <3>1, PlaceFacts DEF AttemptRecords
    <2>4. CASE b \in S /\ ~ (attempts[b].at \in Awaits /\ ~ attempts[b].aborted)
      <3>1. attempts'[b] = [attempts[b] EXCEPT !.flag = TRUE, !.aborted = TRUE]
        BY <1>2, <2>4
      <3> QED
        BY <2>1, <2>4, <3>1 DEF AttemptRecords
    <2> QED
      BY <2>2, <2>3, <2>4
  <1>4. DOMAIN attempts' = Made
    BY DEF Aborting
  <1>5. attempts' = [b \in Made |-> attempts'[b]]
    BY DEF Aborting
  <1>6. attempts' \in [1 .. Len(attempts) -> AttemptRecords]
    BY <1>1, <1>3, <1>5
  <1>7. attempts' \in Seq(AttemptRecords) /\ Len(attempts') = Len(attempts)
    BY <1>1, <1>6
  <1> QED
    BY <1>3, <1>4, <1>7 DEF Made

Newest == Len(attempts) + 1

(* A new attempt comes last, and its handle replaces the download's.       *)
LEMMA Spawns ==
    ASSUME TypeOK, FilesAreOwn, NEW id \in Ids, NEW policy \in Policies, Spawn(id, policy)
    PROVE  /\ attempts' \in Seq(AttemptRecords) /\ Len(attempts') = Newest
           /\ Newest <= MaxAttempts /\ Newest \notin Made /\ Made' = Made \union {Newest}
           /\ \A b \in Made : attempts'[b] = attempts[b]
           /\ attempts'[Newest] = NewAttempt(id, policy)
           /\ NewAttempt(id, policy) \in AttemptRecords
           /\ current' = [current EXCEPT ![id] = Newest]
           /\ prompts' = IF NeedsPrompt(policy) THEN [prompts EXCEPT ![id] = Newest] ELSE prompts
  <1>1. /\ Len(attempts) < MaxAttempts
        /\ attempts' = Append(attempts, NewAttempt(id, policy))
        /\ attempts \in Seq(AttemptRecords)
    BY DEF Spawn, TypeOK
  <1>2. NewAttempt(id, policy) \in AttemptRecords
    BY <1>1, Target DEF NewAttempt, AttemptRecords, Places, Awaits
  <1>3. /\ attempts' \in Seq(AttemptRecords) /\ Len(attempts') = Newest
        /\ \A b \in 1 .. Len(attempts) : attempts'[b] = attempts[b]
        /\ attempts'[Newest] = NewAttempt(id, policy)
        /\ Len(attempts) \in Nat
    BY <1>1, <1>2 DEF Newest
  <1>4. Made = 1 .. Len(attempts)
    BY MadeFacts
  <1>5. Made' = 1 .. Newest
    BY <1>3 DEF Made
  <1>6. Newest <= MaxAttempts /\ Newest \notin Made /\ Made' = Made \union {Newest}
    BY <1>1, <1>3, <1>4, <1>5, MadeFacts DEF Newest
  <1> QED
    BY <1>2, <1>3, <1>4, <1>6 DEF Spawn

-----------------------------------------------------------------------------
(* The types, and what is where on the disk.                               *)
LEMMA InitTypes == Init => TypesInv
  <1> SUFFICES ASSUME Init PROVE TypesInv
    OBVIOUS
  <1>1. attempts = <<>> /\ Made = {}
    BY DEF Init, Made
  <1>2. attempts \in Seq(AttemptRecords) /\ Len(attempts) <= MaxAttempts
    BY <1>1, DownloadConstants
  <1>3. TypeOK
    BY <1>1, <1>2 DEF Init, TypeOK
  <1>4. \A n \in Names : files[n] = Absent
    BY DEF Init
  <1>5. FilesAreOwn
    BY <1>1, <1>4, DownloadConstants DEF FilesAreOwn
  <1> QED
    BY <1>3, <1>5 DEF Init, TypesInv, TempsAreOwn, KnownAreRequested, OpIsOpen, Known

(* A step of an attempt keeps the types, and files and temporary files     *)
(* with the attempt that made them.                                        *)
LEMMA AttemptTypes ==
    ASSUME TypesInv, NEW a \in Made, GoesOn(a)
    PROVE  TypesInv'
  <1>1. TypeOK /\ FilesAreOwn /\ TempsAreOwn /\ KnownAreRequested /\ OpIsOpen
    BY DEF TypesInv
  <1>2. /\ PlaceGoesOn(a) /\ RecordGoesOn(a) /\ DiskGoesOn(a)
        /\ requests' = requests /\ current' = current /\ prompts' = prompts
        /\ staged' = staged /\ op' = op /\ closed' = closed /\ since' = since
    BY DEF GoesOn, app
  <1>3. Made' = Made /\ attempts' \in Seq(AttemptRecords) /\ Len(attempts') = Len(attempts)
    BY <1>1, <1>2, MadeFacts DEF PlaceGoesOn, Made
  <1>4. files' \in [Names -> Made \union UserFiles \union {Absent}] /\ FilesAreOwn'
    <2>1. CASE files' = files
      BY <1>1, <1>2, <1>3, <2>1 DEF TypeOK, FilesAreOwn, PlaceGoesOn
    <2>2. CASE attempts'[a].at = "moved"
      <3>1. /\ temps[Temp(a)] \in Made
            /\ files' = [files EXCEPT ![attempts[a].target] = temps[Temp(a)]]
        BY <1>1, <1>2, <2>2, AttemptFacts DEF PlaceGoesOn, TypeOK
      <3>2. attempts[temps[Temp(a)]].target = attempts[a].target
        BY <1>1, <3>1, AttemptFacts, MadeFacts DEF TempsAreOwn, Temp
      <3> QED
        BY <1>1, <1>2, <1>3, <3>1, <3>2, MadeFacts DEF TypeOK, FilesAreOwn, PlaceGoesOn
    <2> QED
      BY <1>2, <2>1, <2>2 DEF DiskGoesOn
  <1>5. temps' \in [Names \X Ids -> Made \union {None}] /\ TempsAreOwn'
    <2>1. \A t \in Names \X Ids : temps'[t] \in {temps[t], None} \/ (t = Temp(a) /\ temps'[t] = a)
      BY <1>2 DEF DiskGoesOn
    <2>2. \A b \in Made : Temp(b)' = Temp(b)
      BY <1>2 DEF Temp, PlaceGoesOn
    <2>3. temps' \in [Names \X Ids -> Made \union {None}]
      BY <1>2 DEF DiskGoesOn
    <2> QED
      BY <1>1, <2>1, <2>2, <2>3, MadeFacts DEF TempsAreOwn, TypeOK
  <1>6. TypeOK'
    BY <1>1, <1>2, <1>3, <1>4, <1>5 DEF TypeOK, RecordGoesOn, DiskGoesOn
  <1>7. \A id \in Ids : Known(id)' <=> Known(id)
    BY <1>2 DEF RecordGoesOn, Known
  <1>8. OpIsOpen'
    BY <1>1, <1>2, <1>7 DEF OpIsOpen, TypeOK, Ops, Stagings
  <1> QED
    BY <1>1, <1>2, <1>4, <1>5, <1>6, <1>7, <1>8 DEF TypesInv, KnownAreRequested

SameAttempts ==
    /\ attempts' \in Seq(AttemptRecords) /\ Len(attempts') = Len(attempts) /\ Made' = Made
    /\ \A b \in Made : /\ attempts'[b].id = attempts[b].id
                       /\ attempts'[b].target = attempts[b].target

LEMMA Unchanged ==
    ASSUME TypeOK, attempts' = attempts
    PROVE  SameAttempts
  BY DEF SameAttempts, TypeOK, Made

LEMMA AbortsSame ==
    ASSUME TypeOK, NEW S, attempts' = Aborting(S)
    PROVE  SameAttempts
  BY Aborts DEF SameAttempts

LEMMA Resolves ==
    ASSUME TypeOK, NEW id \in Ids, NEW answer \in {"overwrite", "keep"}, Resolve(id, answer)
    PROVE  /\ SameAttempts /\ prompts[id] \in Made
           /\ \A b \in Made :
                 /\ b # prompts[id] => attempts'[b] = attempts[b]
                 /\ attempts'[b].at = attempts[b].at
                 /\ attempts'[b].flag = attempts[b].flag
                 /\ attempts'[b].aborted = attempts[b].aborted
           /\ attempts'[prompts[id]].answer = answer
  <1> DEFINE a == prompts[id]
  <1>1. a \in Made
    BY DEF Resolve, TypeOK
  <1>2. attempts' = [attempts EXCEPT ![a] = [attempts[a] EXCEPT !.answer = answer]]
    BY DEF Resolve
  <1> HIDE DEF a
  <1>3. attempts \in Seq(AttemptRecords) /\ Made = 1 .. Len(attempts)
    BY MadeFacts DEF TypeOK
  <1>4. attempts[a] \in AttemptRecords
    BY <1>1, MadeFacts
  <1>5. [attempts[a] EXCEPT !.answer = answer] \in AttemptRecords
    BY <1>4 DEF AttemptRecords
  <1>6. attempts' \in Seq(AttemptRecords) /\ Len(attempts') = Len(attempts)
    BY <1>1, <1>2, <1>3, <1>5
  <1>7. Made' = Made
    BY <1>2 DEF Made
  <1>8. \A b \in Made : attempts'[b] =
            IF b = a THEN [attempts[a] EXCEPT !.answer = answer] ELSE attempts[b]
    BY <1>1, <1>2, <1>3
  <1> QED
    BY <1>1, <1>4, <1>6, <1>7, <1>8 DEF a, SameAttempts, AttemptRecords

(* So does an operation that makes no file and no attempt.                 *)
LEMMA KeepsTypes ==
    ASSUME TypesInv, SameAttempts,
           current' \in [Ids -> Made \union {None}], prompts' \in [Ids -> Made \union {None}],
           requests' = requests, events' \subseteq events, closed' \in BOOLEAN,
           since' = since,
           records' \in [Ids -> Records \union {None}],
           files' \in [Names -> Made \union UserFiles \union {Absent}],
           \A n \in Names : files'[n] \in {files[n], Absent},
           temps' \in [Names \X Ids -> Made \union {None}],
           \A t \in Names \X Ids : temps'[t] \in {temps[t], None},
           staged' \in Stagings \union {None},
           staged' # None => records'[staged'.id] # None,
           op' \in Ops \union {None},
           op' # None => ~ closed' /\ records'[op'.id] # None,
           \A id \in Ids : records[id] = None => records'[id] = None
    PROVE  TypesInv'
  <1>1. TypeOK /\ FilesAreOwn /\ TempsAreOwn /\ KnownAreRequested
    BY DEF TypesInv
  <1>2. /\ attempts' \in Seq(AttemptRecords) /\ Len(attempts') = Len(attempts) /\ Made' = Made
        /\ \A b \in Made : /\ attempts'[b].id = attempts[b].id
                           /\ attempts'[b].target = attempts[b].target
    BY DEF SameAttempts
  <1>3. TypeOK'
    BY <1>1, <1>2 DEF TypeOK
  <1>4. FilesAreOwn'
    <2>1. \A n \in Names : files'[n] = files[n] \/ files'[n] \notin UserFiles \union Made
      BY <1>1, MadeFacts
    <2> QED
      BY <1>1, <1>2, <2>1 DEF FilesAreOwn
  <1>5. TempsAreOwn'
    <2>1. \A b \in Made : Temp(b)' = Temp(b)
      BY <1>2 DEF Temp
    <2> QED
      BY <1>1, <1>2, <2>1, MadeFacts DEF TempsAreOwn, TypeOK
  <1>6. KnownAreRequested' /\ OpIsOpen'
    BY <1>1 DEF KnownAreRequested, OpIsOpen, Known
  <1> QED
    BY <1>3, <1>4, <1>5, <1>6 DEF TypesInv

LEMMA OpFacts ==
    ASSUME TypesInv
    PROVE  /\ op # None => op \in Ops /\ op.id \in Ids /\ op.path \in Names
                           /\ records[op.id] \in Records /\ requests[op.id] \in Policies
           /\ staged # None => staged.id \in Ids /\ staged.path \in Names
                               /\ records[staged.id] \in Records
           /\ \A id \in Ids : records[id] # None => records[id] \in Records
           /\ None \notin Records /\ None \notin Ops /\ None \notin Stagings
  BY NoneIsNothing
  DEF TypesInv, TypeOK, OpIsOpen, KnownAreRequested, Known, Ops, Stagings

(* And one that makes an attempt.                                          *)
LEMMA SpawnTypes ==
    ASSUME TypesInv, NEW id \in Ids, NEW policy \in Policies, Spawn(id, policy),
           files' = files, since' = since, events' = events, closed' = closed, op' = None,
           staged' \in Stagings \union {None},
           staged' # None => records'[staged'.id] # None,
           records' \in [Ids -> Records \union {None}],
           requests' \in [Ids -> Policies \union {None}],
           \A j \in Ids : records'[j] # None => requests'[j] \in Policies,
           temps' \in [Names \X Ids -> Made \union {None}],
           \A t \in Names \X Ids : temps'[t] \in {temps[t], None}
    PROVE  TypesInv'
  <1>1. TypeOK /\ FilesAreOwn /\ TempsAreOwn
    BY DEF TypesInv
  <1>2. /\ attempts' \in Seq(AttemptRecords) /\ Len(attempts') <= MaxAttempts
        /\ Newest \notin Made /\ Made' = Made \union {Newest}
        /\ \A b \in Made : attempts'[b] = attempts[b]
        /\ current' = [current EXCEPT ![id] = Newest]
        /\ prompts' \in {prompts, [prompts EXCEPT ![id] = Newest]}
    BY <1>1, Spawns
  <1>3. current' \in [Ids -> Made' \union {None}] /\ prompts' \in [Ids -> Made' \union {None}]
    BY <1>1, <1>2 DEF TypeOK
  <1>4. files' \in [Names -> Made' \union UserFiles \union {Absent}]
    BY <1>1, <1>2 DEF TypeOK
  <1>5. temps' \in [Names \X Ids -> Made' \union {None}]
    BY <1>2
  <1>6. TypeOK'
    <2>1. since' \in [UserFiles -> 0 .. Len(attempts') \union {None}]
      <3>1. 0 .. Len(attempts) \subseteq 0 .. Len(attempts')
        BY <1>1, Spawns, MadeFacts DEF Newest
      <3> QED
        BY <1>1, <3>1 DEF TypeOK
    <2> QED
      BY <1>1, <1>2, <1>3, <1>4, <1>5, <2>1 DEF TypeOK
  <1>7. FilesAreOwn'
    <2>1. Newest \in Nat
      BY <1>1, MadeFacts DEF Newest
    <2>2. \A n \in Names : files[n] \in Made' => files[n] \in Made
      <3>1. \A n \in Names : files[n] \in Made \/ files[n] \notin Nat
        BY <1>1, DownloadConstants DEF TypeOK
      <3> QED
        BY <1>1, <1>2, <2>1, <3>1, MadeFacts
    <2> QED
      BY <1>1, <1>2, <2>2 DEF FilesAreOwn
  <1>8. TempsAreOwn'
    BY <1>1, <1>2, MadeFacts DEF TempsAreOwn, TypeOK, Temp
  <1>9. KnownAreRequested' /\ OpIsOpen'
    BY DEF KnownAreRequested, OpIsOpen, Known
  <1> QED
    BY <1>6, <1>7, <1>8, <1>9 DEF TypesInv

LEMMA StartTypes ==
    ASSUME TypesInv, NEW id \in Ids, NEW policy \in Policies, Start(id, policy)
    PROVE  TypesInv'
  <1>1. TypeOK /\ FilesAreOwn /\ KnownAreRequested
    BY DEF TypesInv
  <1> DEFINE record == [status |-> IF NeedsPrompt(policy) THEN "prompting" ELSE "pending",
                        path |-> TargetFor(policy), deleted |-> FALSE]
  <1>2. /\ Spawn(id, policy)
        /\ records' = [records EXCEPT ![id] = record]
        /\ requests' = [requests EXCEPT ![id] = policy]
        /\ staged' \in {None, staged}
        /\ files' = files /\ temps' = temps /\ events' = events /\ closed' = closed
        /\ op = None /\ op' = op /\ since' = since
    BY DEF Start, Idle, disk
  <1>3. record \in Records
    <2>1. TargetFor(policy) \in Names
      BY <1>1, <1>2, Target DEF Spawn
    <2> QED
      BY <2>1 DEF Records, Statuses, Terminal
  <1> HIDE DEF record
  <1>4. records' \in [Ids -> Records \union {None}]
    BY <1>1, <1>2, <1>3 DEF TypeOK
  <1>5. requests' \in [Ids -> Policies \union {None}]
    BY <1>1, <1>2 DEF TypeOK
  <1>6. \A j \in Ids : records'[j] # None => requests'[j] \in Policies
    BY <1>1, <1>2 DEF TypeOK, KnownAreRequested, Known
  <1>7. staged' \in Stagings \union {None}
    BY <1>1, <1>2 DEF TypeOK
  <1>8. temps' \in [Names \X Ids -> Made \union {None}]
    BY <1>1, <1>2 DEF TypeOK
  <1>9. staged' # None => records'[staged'.id] # None
    BY <1>1, <1>2, <1>3, OpFacts DEF TypeOK
  <1> QED
    BY <1>2, <1>4, <1>5, <1>6, <1>7, <1>8, <1>9, SpawnTypes

LEMMA CancelBeginTypes ==
    ASSUME TypesInv, NEW id \in Ids, CancelBegin(id)
    PROVE  TypesInv'
  <1>1. op' = [kind |-> "cancel", id |-> id, path |-> records[id].path]
        /\ records[id] # None /\ ~ closed
    BY DEF CancelBegin, Known, Idle
  <1>2. records[id] \in Records
    BY <1>1 DEF TypesInv, TypeOK
  <1>3. op' \in Ops /\ op'.id = id
    BY <1>1, <1>2 DEF Ops, Records
  <1>4. staged' # None => records'[staged'.id] # None
    BY OpFacts DEF CancelBegin
  <1> QED
    BY <1>1, <1>3, <1>4, KeepsTypes, Unchanged DEF CancelBegin, disk, TypesInv, TypeOK

LEMMA CancelEndTypes ==
    ASSUME TypesInv, CancelEnd
    PROVE  TypesInv'
  <1>1. TypeOK /\ op.id \in Ids /\ "cancelled" \in Statuses
    BY OpFacts DEF CancelEnd, TypesInv, Statuses, Terminal
  <1>2. /\ records' = Transition(records, op.id, "cancelled")
        /\ records \in [Ids -> Records \union {None}]
    BY <1>1 DEF CancelEnd, TypeOK
  <1>3. /\ records' \in [Ids -> Records \union {None}]
        /\ \A j \in Ids : records[j] = None => records'[j] = None
    BY <1>1, <1>2, Transits
  <1>4. prompts' \in [Ids -> Made \union {None}]
    BY <1>1 DEF CancelEnd, TypeOK
  <1>5. /\ temps' \in [Names \X Ids -> Made \union {None}]
        /\ \A t \in Names \X Ids : temps'[t] \in {temps[t], None}
    BY <1>1 DEF CancelEnd, TypeOK
  <1>6. /\ current' = current /\ requests' = requests /\ events' = events
        /\ closed' = closed /\ files' = files /\ staged' = None /\ op' = None
        /\ since' = since
    BY DEF CancelEnd
  <1>7. SameAttempts
    BY <1>1, AbortsSame DEF CancelEnd
  <1> QED
    BY <1>1, <1>3, <1>4, <1>5, <1>6, <1>7, KeepsTypes DEF TypeOK

LEMMA RetryResets ==
    ASSUME TypesInv, NEW id \in Ids, RetryBegin(id)
    PROVE  /\ records' \in [Ids -> Records \union {None}] /\ records'[id] # None
           /\ records[id] # None /\ records'[id].status = "pending"
           /\ \A j \in Ids : j # id => records'[j] = records[j]
           /\ \A j \in Ids : records[j] = None <=> records'[j] = None
  <1>1. TypeOK /\ records[id] # None /\ records \in [Ids -> Records \union {None}]
    BY DEF RetryBegin, Known, TypesInv, TypeOK
  <1>2. records[id] \in Records /\ None \notin Records
    BY <1>1, OpFacts
  <1> DEFINE record == [records[id] EXCEPT !.status = "pending", !.path = 0, !.deleted = FALSE]
  <1>3. record \in Records /\ record.status = "pending"
    BY <1>2, <1>1, MadeFacts DEF Records, Statuses
  <1>4. records' = [records EXCEPT ![id] = record]
    BY DEF RetryBegin
  <1> HIDE DEF record
  <1> QED
    BY <1>1, <1>2, <1>3, <1>4

LEMMA RetryBeginTypes ==
    ASSUME TypesInv, NEW id \in Ids, RetryBegin(id)
    PROVE  TypesInv'
  <1>1. TypeOK /\ records[id] # None /\ ~ closed
    BY DEF RetryBegin, Known, Idle, TypesInv
  <1>2. records[id] \in Records /\ None \notin Records
    BY <1>1, OpFacts
  <1>3. op' \in Ops /\ op'.id = id
    BY <1>2 DEF RetryBegin, Ops, Records
  <1>6. /\ records' \in [Ids -> Records \union {None}] /\ records'[id] # None
        /\ \A j \in Ids : records[j] = None <=> records'[j] = None
    BY RetryResets
  <1>7. /\ current' = current /\ requests' = requests /\ events' = events
        /\ closed' = closed /\ files' = files /\ temps' = temps /\ prompts' = prompts
        /\ staged' = staged /\ since' = since
    BY DEF RetryBegin, disk
  <1>8. SameAttempts
    BY <1>1, AbortsSame DEF RetryBegin
  <1>9. staged' # None => records'[staged'.id] # None
    BY <1>6, <1>7, OpFacts
  <1> QED
    BY <1>1, <1>3, <1>6, <1>7, <1>8, <1>9, KeepsTypes DEF TypeOK

LEMMA RetryEndTypes ==
    ASSUME TypesInv, RetryEnd
    PROVE  TypesInv'
  <1> DEFINE id == op.id
             policy == requests[id]
  <1>1. TypeOK /\ FilesAreOwn /\ KnownAreRequested /\ op # None
    BY DEF TypesInv, RetryEnd
  <1>2. id \in Ids /\ policy \in Policies /\ op.path \in Names
    BY <1>1, OpFacts
  <1>3. /\ Spawn(id, policy)
        /\ temps' = [temps EXCEPT ![<<op.path, id>>] = None, ![<<TargetFor(policy), id>>] = None]
        /\ records' \in {records, Transition(records, id, "prompting")}
        /\ op' = None /\ staged' = None /\ requests' = requests
        /\ files' = files /\ since' = since /\ events' = events /\ closed' = closed
    BY DEF RetryEnd
  <1> HIDE DEF id, policy
  <1>4. /\ records' \in [Ids -> Records \union {None}]
        /\ \A j \in Ids : records'[j] # None => records[j] # None
    <2>1. "prompting" \in Statuses /\ records \in [Ids -> Records \union {None}]
      BY <1>1 DEF Statuses, TypeOK
    <2>2. CASE records' = records
      BY <2>1, <2>2
    <2>3. CASE records' = Transition(records, id, "prompting")
      BY <1>2, <2>1, <2>3, Transits
    <2> QED
      BY <1>3, <2>2, <2>3
  <1>5. /\ temps' \in [Names \X Ids -> Made \union {None}]
        /\ \A t \in Names \X Ids : temps'[t] \in {temps[t], None}
    BY <1>1, <1>3 DEF TypeOK
  <1> QED
    BY <1>1, <1>2, <1>3, <1>4, <1>5, SpawnTypes DEF TypeOK, KnownAreRequested, Known

LEMMA ResolveTypes ==
    ASSUME TypesInv, NEW id \in Ids, NEW answer \in {"overwrite", "keep"}, Resolve(id, answer)
    PROVE  TypesInv'
  <1>1. TypeOK
    BY DEF TypesInv
  <1>2. SameAttempts
    BY <1>1, Resolves
  <1>3. prompts' \in [Ids -> Made \union {None}]
    BY <1>1 DEF Resolve, TypeOK
  <1>4. op' = None
    BY DEF Resolve, Idle
  <1> QED
    BY <1>1, <1>2, <1>3, <1>4, KeepsTypes DEF Resolve, disk, TypeOK

LEMMA StageDeleteTypes ==
    ASSUME TypesInv, NEW id \in Ids, StageDelete(id)
    PROVE  TypesInv'
  <1>1. TypeOK /\ op = None /\ records[id] \in Records
    BY DEF TypesInv, TypeOK, StageDelete, Idle, Known
  <1>2. staged' \in Stagings /\ records'[staged'.id] # None
    BY <1>1 DEF StageDelete, Stagings, Records, Known
  <1> QED
    BY <1>1, <1>2, KeepsTypes, Unchanged DEF StageDelete, disk, TypeOK

LEMMA ConfirmDeleteTypes ==
    ASSUME TypesInv, ConfirmDelete
    PROVE  TypesInv'
  <1>1. TypeOK /\ op = None /\ staged.id \in Ids /\ staged.path \in Names
    BY OpFacts DEF TypesInv, ConfirmDelete, Idle
  <1>2. CASE /\ files' = [files EXCEPT ![staged.path] = Absent]
             /\ records' = [records EXCEPT ![staged.id].deleted = TRUE]
             /\ records[staged.id].status = "completed"
    <2>1. /\ files' \in [Names -> Made \union UserFiles \union {Absent}]
          /\ \A n \in Names : files'[n] \in {files[n], Absent}
      BY <1>1, <1>2 DEF TypeOK
    <2>2. records' \in [Ids -> Records \union {None}]
          /\ \A id \in Ids : records[id] = None => records'[id] = None
      <3>1. records[staged.id] \in Records /\ None \notin Records
        BY <1>1, OpFacts DEF ConfirmDelete
      <3>2. [records[staged.id] EXCEPT !.deleted = TRUE] \in Records
        BY <3>1 DEF Records
      <3> QED
        BY <1>1, <1>2, <3>1, <3>2 DEF TypeOK
    <2> QED
      BY <1>1, <2>1, <2>2, KeepsTypes, Unchanged DEF ConfirmDelete, TypeOK
  <1>3. CASE UNCHANGED <<files, records>>
    BY <1>1, <1>3, KeepsTypes, Unchanged DEF ConfirmDelete, TypeOK
  <1> QED
    BY <1>2, <1>3 DEF ConfirmDelete

LEMMA PollDownloadsTypes ==
    ASSUME TypesInv, PollDownloads
    PROVE  TypesInv'
  <1>1. TypeOK /\ op = None
    BY DEF TypesInv, PollDownloads, Idle
  <1> QED
    BY <1>1, KeepsTypes, Unchanged DEF PollDownloads, disk, TypeOK

LEMMA ShutdownTypes ==
    ASSUME TypesInv, Shutdown
    PROVE  TypesInv'
  <1>1. TypeOK /\ op = None
    BY DEF TypesInv, Shutdown, Idle
  <1>2. SameAttempts
    BY <1>1, AbortsSame DEF Shutdown
  <1>3. /\ temps' \in [Names \X Ids -> Made \union {None}]
        /\ \A t \in Names \X Ids : temps'[t] \in {temps[t], None}
    BY <1>1 DEF Shutdown, TypeOK
  <1> QED
    BY <1>1, <1>2, <1>3, KeepsTypes DEF Shutdown, TypeOK

(* A file that the user makes is at no other name.                         *)
LEMMA UserSavesTypes ==
    ASSUME TypesInv, NEW f \in UserFiles, NEW n \in Names, UserSaves(f, n)
    PROVE  TypesInv'
  <1>1. TypeOK /\ FilesAreOwn
    BY DEF TypesInv
  <1>2. /\ attempts' = attempts /\ records' = records /\ events' = events /\ temps' = temps
        /\ requests' = requests /\ current' = current /\ prompts' = prompts
        /\ staged' = staged /\ op' = op /\ closed' = closed /\ since[f] = None
        /\ files' = [files EXCEPT ![n] = f] /\ since' = [since EXCEPT ![f] = Len(attempts)]
    BY DEF UserSaves, history, app
  <1>3. Len(attempts) \in 0 .. Len(attempts) /\ Len(attempts) # None
    BY <1>1, MadeFacts
  <1>4. files' \in [Names -> Made \union UserFiles \union {Absent}]
    BY <1>1, <1>2 DEF TypeOK
  <1>5. since' \in [UserFiles -> 0 .. Len(attempts) \union {None}]
    BY <1>1, <1>2, <1>3 DEF TypeOK
  <1>6. TypeOK'
    BY <1>1, <1>2, <1>4, <1>5 DEF TypeOK, Made
  <1>7. FilesAreOwn'
    <2>1. \A m \in Names : files'[m] = IF m = n THEN f ELSE files[m]
      BY <1>1, <1>2 DEF TypeOK
    <2>2. \A g \in UserFiles : since'[g] = IF g = f THEN Len(attempts) ELSE since[g]
      BY <1>1, <1>2 DEF TypeOK
    <2>3. \A m \in Names : files[m] # f
      BY <1>1, <1>2 DEF FilesAreOwn
    <2>4. f \notin Made
      BY <1>1, MadeFacts
    <2> QED
      BY <1>1, <1>2, <1>3, <2>1, <2>2, <2>3, <2>4 DEF FilesAreOwn, Made
  <1> QED
    BY <1>1, <1>2, <1>6, <1>7
    DEF TypesInv, TempsAreOwn, KnownAreRequested, OpIsOpen, Known, Temp, Made

LEMMA NextTypes == TypesInv /\ [Next]_vars => TypesInv'
  <1> SUFFICES ASSUME TypesInv, [Next]_vars PROVE TypesInv'
    OBVIOUS
  <1>1. ASSUME NEW id \in Ids, NEW policy \in Policies, Start(id, policy) PROVE TypesInv'
    BY <1>1, StartTypes
  <1>2. ASSUME NEW id \in Ids, CancelBegin(id) \/ RetryBegin(id) \/ StageDelete(id)
        PROVE  TypesInv'
    BY <1>2, CancelBeginTypes, RetryBeginTypes, StageDeleteTypes
  <1>3. ASSUME NEW id \in Ids, NEW answer \in {"overwrite", "keep"}, Resolve(id, answer)
        PROVE  TypesInv'
    BY <1>3, ResolveTypes
  <1>4. CASE CancelEnd \/ RetryEnd \/ ConfirmDelete \/ PollDownloads \/ Shutdown
    BY <1>4, CancelEndTypes, RetryEndTypes, ConfirmDeleteTypes, PollDownloadsTypes, ShutdownTypes
  <1>5. ASSUME NEW a \in Made, AttemptStep(a) PROVE TypesInv'
    <2>1. GoesOn(a)
      BY <1>5, AttemptEffect DEF TypesInv
    <2> QED
      BY <2>1, AttemptTypes
  <1>6. CASE UNCHANGED vars
    BY <1>6 DEF vars, TypesInv, TypeOK, FilesAreOwn, TempsAreOwn, KnownAreRequested, OpIsOpen,
                Known, Made, Temp
  <1>7. ASSUME NEW f \in UserFiles, NEW n \in Names, UserSaves(f, n) PROVE TypesInv'
    BY <1>7, UserSavesTypes
  <1> QED
    BY <1>1, <1>2, <1>3, <1>4, <1>5, <1>6, <1>7 DEF Next, AppStep

-----------------------------------------------------------------------------
(* The handles.                                                            *)
RetryingOf(id) == op # None /\ op.kind = "retry" /\ op.id = id

(* While a retry is between its two halves, what it replaces is aborted.   *)
HeldInv ==
    /\ \A id \in Ids : current[id] # None => attempts[current[id]].id = id
    /\ ~ closed => \A a \in Made : Known(attempts[a].id)
    /\ EveryAttemptIsHeld
    /\ \A a \in Made : RetryingOf(attempts[a].id) /\ Live(a) => attempts[a].aborted

LEMMA InitHeld == Init => HeldInv
  BY DEF Init, HeldInv, Made, EveryAttemptIsHeld

(* Kept by what makes no attempt: a retry has to abort what it replaces.   *)
LEMMA KeepsHeld ==
    ASSUME TypesInv, HeldInv, SameAttempts, current' = current, closed' = closed,
           \A b \in Made : attempts[b].at = "ended" => attempts'[b].at = "ended",
           \A b \in Made : attempts[b].aborted => attempts'[b].aborted,
           \A id \in Ids : Known(id) => records'[id] # None,
           \/ op' \in {None, op}
           \/ op'.kind = "cancel"
           \/ \A a \in Made : attempts[a].id = op'.id /\ attempts'[a].at # "ended" =>
                                attempts'[a].aborted
    PROVE  HeldInv'
  <1>1. /\ Made' = Made /\ current \in [Ids -> Made \union {None}]
        /\ \A b \in Made : attempts'[b].id = attempts[b].id /\ attempts[b].id \in Ids
    BY AttemptFacts DEF SameAttempts, TypesInv, TypeOK
  <1>2. \A b \in Made : Live(b)' => Live(b)
    BY DEF Live
  <1>3. \A b \in Made : (RetryingOf(attempts[b].id))' =>
            RetryingOf(attempts[b].id) \/ (Live(b)' => attempts'[b].aborted)
    BY <1>1 DEF RetryingOf, Live
  <1>4. EveryAttemptIsHeld'
    BY <1>1, <1>2 DEF HeldInv, EveryAttemptIsHeld
  <1>5. (\A a \in Made : RetryingOf(attempts[a].id) /\ Live(a) => attempts[a].aborted)'
    BY <1>1, <1>2, <1>3 DEF HeldInv
  <1>6. (\A id \in Ids : current[id] # None => attempts[current[id]].id = id)'
    BY <1>1 DEF HeldInv
  <1>7. (~ closed => \A a \in Made : Known(attempts[a].id))'
    BY <1>1 DEF HeldInv, Known
  <1> QED
    BY <1>4, <1>5, <1>6, <1>7 DEF HeldInv

LEMMA AttemptHeld ==
    ASSUME TypesInv, HeldInv, NEW a \in Made, GoesOn(a)
    PROVE  HeldInv'
  <1>1. TypeOK /\ PlaceGoesOn(a) /\ RecordGoesOn(a)
        /\ current' = current /\ closed' = closed /\ op' = op
    BY DEF GoesOn, app, TypesInv
  <1>2. SameAttempts
    BY <1>1, MadeFacts DEF SameAttempts, PlaceGoesOn, Made
  <1>3. /\ \A b \in Made : attempts[b].at = "ended" => attempts'[b].at = "ended"
        /\ \A b \in Made : attempts[b].aborted => attempts'[b].aborted
    BY <1>1 DEF PlaceGoesOn
  <1>4. \A id \in Ids : Known(id) => records'[id] # None
    BY <1>1 DEF RecordGoesOn
  <1> QED
    BY <1>1, <1>2, <1>3, <1>4, KeepsHeld

(* Kept by what makes an attempt, because all others of the download were  *)
(* aborted.                                                                *)
LEMMA SpawnHeld ==
    ASSUME TypesInv, HeldInv, NEW id \in Ids, NEW policy \in Policies, Spawn(id, policy),
           ~ closed', op' = None, records'[id] # None,
           \A j \in Ids : Known(j) => records'[j] # None,
           ~ closed,
           \A a \in Made : attempts[a].id = id /\ Live(a) => attempts[a].aborted
    PROVE  HeldInv'
  <1>1. TypeOK /\ FilesAreOwn
    BY DEF TypesInv
  <1>2. /\ Made' = Made \union {Newest} /\ Newest \notin Made
        /\ \A b \in Made : attempts'[b] = attempts[b] /\ attempts[b].id \in Ids
        /\ attempts'[Newest] = NewAttempt(id, policy)
        /\ current' = [current EXCEPT ![id] = Newest]
        /\ current \in [Ids -> Made \union {None}]
    BY <1>1, Spawns, AttemptFacts DEF TypeOK
  <1>3. attempts'[Newest].id = id
    BY <1>2 DEF NewAttempt
  <1>4. \A j \in Ids : current'[j] = IF j = id THEN Newest ELSE current[j]
    BY <1>2
  <1>5. EveryAttemptIsHeld'
    <2> SUFFICES ASSUME NEW b \in Made', Live(b)'
                 PROVE  attempts'[b].aborted \/ current'[attempts'[b].id] = b
      BY DEF EveryAttemptIsHeld
    <2>1. CASE b = Newest
      BY <2>1, <1>3, <1>4
    <2>2. CASE b \in Made
      BY <2>2, <1>2, <1>4 DEF HeldInv, EveryAttemptIsHeld, Live
    <2> QED
      BY <2>1, <2>2, <1>2
  <1> QED
    BY <1>2, <1>3, <1>4, <1>5 DEF HeldInv, Known, RetryingOf

LEMMA StartHeld ==
    ASSUME TypesInv, HeldInv, NEW id \in Ids, NEW policy \in Policies, Start(id, policy)
    PROVE  HeldInv'
  <1>1. /\ Spawn(id, policy) /\ ~ closed /\ ~ closed' /\ op' = None /\ records[id] = None
        /\ records' = [records EXCEPT ![id] =
              [status |-> IF NeedsPrompt(policy) THEN "prompting" ELSE "pending",
               path |-> TargetFor(policy), deleted |-> FALSE]]
    BY DEF Start, Idle, Known
  <1>2. TypeOK'
    BY StartTypes DEF TypesInv
  <1>3. \A j \in Ids : Known(j) => j # id /\ records'[j] # None
    BY <1>1 DEF TypesInv, TypeOK, Known
  <1>4. records'[id] # None
    <2>1. TypeOK /\ FilesAreOwn /\ Len(attempts) < MaxAttempts
      BY <1>1 DEF TypesInv, Spawn
    <2>2. TargetFor(policy) \in Names
      BY <2>1, Target
    <2>3. [status |-> IF NeedsPrompt(policy) THEN "prompting" ELSE "pending",
           path |-> TargetFor(policy), deleted |-> FALSE] \in Records
      BY <2>2 DEF Records, Statuses
    <2>4. records'[id] \in Records
      BY <1>1, <2>1, <2>3 DEF TypeOK
    <2> QED
      BY <2>4, NoneIsNothing
  <1>5. \A a \in Made : attempts[a].id # id
    BY <1>1 DEF HeldInv, Known
  <1> QED
    BY <1>1, <1>3, <1>4, <1>5, SpawnHeld

LEMMA RetryEndHeld ==
    ASSUME TypesInv, HeldInv, RetryEnd
    PROVE  HeldInv'
  <1> DEFINE id == op.id
             policy == requests[id]
  <1>1. id \in Ids /\ policy \in Policies /\ op # None /\ op.kind = "retry"
    BY OpFacts DEF RetryEnd
  <1>2. ~ closed /\ records[id] # None
    BY <1>1 DEF TypesInv, OpIsOpen, Known
  <1>3. Spawn(id, policy) /\ op' = None /\ closed' = closed
        /\ records' \in {records, Transition(records, id, "prompting")}
    BY DEF RetryEnd
  <1> HIDE DEF id, policy
  <1>4. \A j \in Ids : Known(j) => records'[j] # None
    <2>1. "prompting" \in Statuses /\ records \in [Ids -> Records \union {None}]
      BY DEF Statuses, TypesInv, TypeOK
    <2>2. CASE records' = records
      BY <2>2 DEF Known
    <2>3. CASE records' = Transition(records, id, "prompting")
      BY <1>1, <2>1, <2>3, Transits DEF Known
    <2> QED
      BY <1>3, <2>2, <2>3
  <1>5. records'[id] # None
    BY <1>1, <1>2, <1>4 DEF Known
  <1>6. \A a \in Made : attempts[a].id = id /\ Live(a) => attempts[a].aborted
    BY <1>1 DEF HeldInv, RetryingOf, id
  <1> QED
    BY <1>1, <1>2, <1>3, <1>4, <1>5, <1>6, SpawnHeld

LEMMA AbortsHold ==
    ASSUME TypesInv, NEW S, attempts' = Aborting(S)
    PROVE  /\ SameAttempts
           /\ \A b \in Made : attempts[b].at = "ended" => attempts'[b].at = "ended"
           /\ \A b \in Made : attempts[b].aborted => attempts'[b].aborted
           /\ \A b \in Made : b \in S /\ attempts'[b].at # "ended" => attempts'[b].aborted
  <1>1. TypeOK
    BY DEF TypesInv
  <1> QED
    BY <1>1, AbortsSame, Aborts, AttemptFacts

LEMMA CancelEndHeld ==
    ASSUME TypesInv, HeldInv, CancelEnd
    PROVE  HeldInv'
  <1>1. op.id \in Ids /\ "cancelled" \in Statuses /\ records \in [Ids -> Records \union {None}]
    BY OpFacts DEF CancelEnd, TypesInv, TypeOK, Statuses, Terminal
  <1>2. \A id \in Ids : Known(id) => records'[id] # None
    BY <1>1, Transits DEF CancelEnd, Known
  <1> QED
    BY <1>2, AbortsHold, KeepsHeld DEF CancelEnd

LEMMA RetryBeginHeld ==
    ASSUME TypesInv, HeldInv, NEW id \in Ids, RetryBegin(id)
    PROVE  HeldInv'
  <1>2. /\ op' = [kind |-> "retry", id |-> id, path |-> records[id].path]
        /\ attempts' = Aborting({current[id]})
        /\ current' = current /\ closed' = closed
    BY DEF RetryBegin
  <1>5. \A j \in Ids : Known(j) => records'[j] # None
    BY RetryResets DEF Known
  <1>6. \A a \in Made : attempts[a].id = id /\ attempts'[a].at # "ended" => attempts'[a].aborted
    BY <1>2, AbortsHold DEF HeldInv, EveryAttemptIsHeld, Live
  <1> QED
    BY <1>2, <1>5, <1>6, AbortsHold, KeepsHeld

LEMMA ShutdownHeld ==
    ASSUME TypesInv, HeldInv, Shutdown
    PROVE  HeldInv'
  <1>1. /\ attempts' = Aborting({current[id] : id \in Ids})
        /\ current' = [id \in Ids |-> None] /\ closed' /\ op' = None
    BY DEF Shutdown, Idle
  <1>2. \A a \in Made : attempts[a].id \in Ids
    BY AttemptFacts DEF TypesInv
  <1>3. \A a \in Made : attempts'[a].at # "ended" => attempts'[a].aborted
    BY <1>1, <1>2, AbortsHold DEF HeldInv, EveryAttemptIsHeld, Live
  <1>4. Made' = Made
    BY <1>1, AbortsHold DEF SameAttempts
  <1> QED
    BY <1>1, <1>3, <1>4 DEF HeldInv, EveryAttemptIsHeld, Live, RetryingOf

LEMMA OtherHeld ==
    ASSUME TypesInv, HeldInv,
           \/ \E id \in Ids : \/ CancelBegin(id) \/ StageDelete(id)
                             \/ \E answer \in {"overwrite", "keep"} : Resolve(id, answer)
           \/ ConfirmDelete \/ PollDownloads
    PROVE  HeldInv'
  <1>1. TypeOK
    BY DEF TypesInv
  <1>2. ASSUME NEW id \in Ids, CancelBegin(id) PROVE HeldInv'
    BY <1>1, <1>2, Unchanged, KeepsHeld DEF CancelBegin, Known
  <1>3. ASSUME NEW id \in Ids, StageDelete(id) PROVE HeldInv'
    BY <1>1, <1>3, Unchanged, KeepsHeld DEF StageDelete, Known
  <1>4. ASSUME NEW id \in Ids, NEW answer \in {"overwrite", "keep"}, Resolve(id, answer)
        PROVE  HeldInv'
    BY <1>1, <1>4, Resolves, KeepsHeld DEF Resolve, Known
  <1>5. CASE ConfirmDelete
    <2>1. TypesInv' /\ records \in [Ids -> Records \union {None}]
      BY <1>1, <1>5, ConfirmDeleteTypes DEF TypeOK
    <2>2. \A id \in Ids : Known(id) => records'[id] # None
      <3>1. CASE records' = [records EXCEPT ![staged.id].deleted = TRUE] /\ staged # None
        <4>1. staged.id \in Ids /\ records[staged.id] \in Records /\ None \notin Records
          BY <3>1, OpFacts
        <4>2. [records[staged.id] EXCEPT !.deleted = TRUE] \in Records
          BY <4>1 DEF Records
        <4> QED
          BY <2>1, <3>1, <4>1, <4>2 DEF Known
      <3>2. CASE records' = records
        BY <3>2 DEF Known
      <3> QED
        BY <1>5, <3>1, <3>2 DEF ConfirmDelete
    <2> QED
      BY <1>1, <1>5, <2>2, Unchanged, KeepsHeld DEF ConfirmDelete
  <1>6. CASE PollDownloads
    BY <1>1, <1>6, Unchanged, KeepsHeld DEF PollDownloads, Known
  <1> QED
    BY <1>2, <1>3, <1>4, <1>5, <1>6

LEMMA NextHeld == TypesInv /\ HeldInv /\ [Next]_vars => HeldInv'
  <1> SUFFICES ASSUME TypesInv, HeldInv, [Next]_vars PROVE HeldInv'
    OBVIOUS
  <1>1. ASSUME NEW a \in Made, AttemptStep(a) PROVE HeldInv'
    <2>1. GoesOn(a)
      BY <1>1, AttemptEffect DEF TypesInv
    <2> QED
      BY <2>1, AttemptHeld
  <1>2. CASE UNCHANGED vars
    BY <1>2 DEF vars, HeldInv, EveryAttemptIsHeld, Live, RetryingOf, Known, Made
  <1>3. ASSUME NEW f \in UserFiles, NEW n \in Names, UserSaves(f, n) PROVE HeldInv'
    BY <1>3 DEF UserSaves, history, app, HeldInv, EveryAttemptIsHeld, Live, RetryingOf, Known, Made
  <1> QED
    BY <1>1, <1>2, <1>3, StartHeld, RetryEndHeld, CancelEndHeld, RetryBeginHeld, ShutdownHeld, OtherHeld
    DEF Next, AppStep

-----------------------------------------------------------------------------
(* The prompts.                                                            *)
Prompting(id) == Known(id) /\ records[id].status = "prompting"

(* Who waits for the answer, or has it and has not begun.                  *)
Answerable(id) ==
    /\ current[id] # None
    /\ attempts[current[id]].at \in {"prompting", "starting", "claiming"}
    /\ ~ attempts[current[id]].aborted
    /\ prompts[id] = current[id] \/ attempts[current[id]].answer \in {"overwrite", "keep"}

PromptInv ==
    \A id \in Ids : Prompting(id) => Answerable(id) /\ ~ RetryingOf(id)

LEMMA InitPrompts == Init => PromptInv
  BY DEF Init, PromptInv, Prompting, Known

LEMMA AttemptPrompts ==
    ASSUME TypesInv, HeldInv, PromptInv, NEW a \in Made, GoesOn(a)
    PROVE  PromptInv'
  <1>1. PlaceGoesOn(a) /\ RecordGoesOn(a)
        /\ current' = current /\ prompts' = prompts /\ op' = op
    BY DEF GoesOn, app
  <1> SUFFICES ASSUME NEW id \in Ids, Prompting(id)'
               PROVE  Answerable(id)' /\ ~ RetryingOf(id)'
    BY DEF PromptInv
  <1>2. Prompting(id)
    BY <1>1, PlaceFacts DEF RecordGoesOn, Prompting, Known
  <1>3. Answerable(id) /\ ~ RetryingOf(id)'
    BY <1>1, <1>2 DEF PromptInv, RetryingOf
  <1> DEFINE b == current[id]
  <1>4. b \in Made /\ attempts[b].id = id
    BY <1>3 DEF Answerable, HeldInv, TypesInv, TypeOK
  <1>5. attempts'[b].at \in {"prompting", "starting", "claiming"}
    <2>1. CASE b # a
      BY <2>1, <1>1, <1>3, <1>4 DEF PlaceGoesOn, Answerable
    <2>2. CASE b = a
      BY <2>2, <1>1, <1>2, <1>3, <1>4 DEF RecordGoesOn, Answerable, Prompting, Known
    <2> QED
      BY <2>1, <2>2
  <1> QED
    BY <1>1, <1>3, <1>4, <1>5 DEF Answerable, PlaceGoesOn

(* An operation that leaves a record that asks, and its attempt, alone.    *)
LEMMA KeepsPrompts ==
    ASSUME TypesInv, HeldInv, PromptInv, NEW id \in Ids, Prompting(id),
           current'[id] = current[id], prompts'[id] = prompts[id],
           attempts'[current[id]] = attempts[current[id]],
           op' \in {None, op} \/ op'.kind = "cancel" \/ op'.id # id
    PROVE  Answerable(id)' /\ ~ RetryingOf(id)'
  BY DEF PromptInv, Answerable, RetryingOf

(* A new attempt that asks is the one that waits for the answer.           *)
LEMMA SpawnPrompts ==
    ASSUME TypesInv, HeldInv, PromptInv, NEW id \in Ids, NEW policy \in Policies,
           Spawn(id, policy), op' = None,
           \A j \in Ids : Prompting(j)' => Prompting(j) \/ (j = id /\ NeedsPrompt(policy)),
           ~ Prompting(id)
    PROVE  PromptInv'
  <1>1. /\ \A b \in Made : attempts'[b] = attempts[b]
        /\ attempts'[Newest] = NewAttempt(id, policy)
        /\ current' = [current EXCEPT ![id] = Newest]
        /\ prompts' = IF NeedsPrompt(policy) THEN [prompts EXCEPT ![id] = Newest] ELSE prompts
        /\ current \in [Ids -> Made \union {None}] /\ prompts \in [Ids -> Made \union {None}]
        /\ Newest \in Nat
    BY Spawns, MadeFacts DEF TypesInv, TypeOK, Newest
  <1> SUFFICES ASSUME NEW j \in Ids, Prompting(j)'
               PROVE  Answerable(j)' /\ ~ RetryingOf(j)'
    BY DEF PromptInv
  <1>2. CASE j = id
    <2>1. NeedsPrompt(policy) /\ current'[id] = Newest /\ prompts'[id] = Newest
      BY <1>1, <1>2
    <2>2. attempts'[Newest].at = "prompting" /\ ~ attempts'[Newest].aborted
      BY <1>1, <2>1 DEF NewAttempt
    <2> QED
      BY <1>1, <1>2, <2>1, <2>2, DownloadConstants DEF Answerable, RetryingOf
  <1>3. CASE j # id
    <2>1. Prompting(j) /\ current'[j] = current[j] /\ prompts'[j] = prompts[j]
      BY <1>1, <1>3
    <2>2. current[j] \in Made
      BY <1>1, <2>1 DEF PromptInv, Answerable
    <2> QED
      BY <1>1, <2>1, <2>2, KeepsPrompts
  <1> QED
    BY <1>2, <1>3

LEMMA StartPrompts ==
    ASSUME TypesInv, HeldInv, PromptInv, NEW id \in Ids, NEW policy \in Policies,
           Start(id, policy)
    PROVE  PromptInv'
  <1>1. /\ Spawn(id, policy) /\ op' = None /\ records[id] = None
        /\ records' = [records EXCEPT ![id] =
              [status |-> IF NeedsPrompt(policy) THEN "prompting" ELSE "pending",
               path |-> TargetFor(policy), deleted |-> FALSE]]
        /\ records \in [Ids -> Records \union {None}]
    BY DEF Start, Idle, Known, TypesInv, TypeOK
  <1>2. \A j \in Ids : Prompting(j)' => Prompting(j) \/ (j = id /\ NeedsPrompt(policy))
    BY <1>1 DEF Prompting, Known
  <1> QED
    BY <1>1, <1>2, SpawnPrompts DEF Prompting, Known

LEMMA RetryEndPrompts ==
    ASSUME TypesInv, HeldInv, PromptInv, RetryEnd
    PROVE  PromptInv'
  <1> DEFINE id == op.id
             policy == requests[id]
  <1>1. id \in Ids /\ policy \in Policies /\ RetryingOf(id)
    BY OpFacts DEF RetryEnd, RetryingOf
  <1>2. /\ Spawn(id, policy) /\ op' = None
        /\ records' = IF NeedsPrompt(policy) THEN Transition(records, id, "prompting") ELSE records
    BY DEF RetryEnd
  <1>3. ~ Prompting(id)
    BY <1>1 DEF PromptInv
  <1> HIDE DEF id, policy
  <1>4. \A j \in Ids : Prompting(j)' => Prompting(j) \/ (j = id /\ NeedsPrompt(policy))
    <2>1. "prompting" \in Statuses /\ records \in [Ids -> Records \union {None}]
      BY DEF Statuses, TypesInv, TypeOK
    <2>2. CASE ~ NeedsPrompt(policy)
      BY <1>2, <2>2 DEF Prompting, Known
    <2>3. CASE NeedsPrompt(policy)
      <3>1. \A j \in Ids : j # id => records'[j] = records[j]
        BY <1>1, <1>2, <2>1, <2>3, Transits
      <3> QED
        BY <2>3, <3>1 DEF Prompting, Known
    <2> QED
      BY <2>2, <2>3
  <1> QED
    BY <1>1, <1>2, <1>3, <1>4, SpawnPrompts

(* What aborts the attempt of one download does nothing to another's.      *)
LEMMA AbortsOne ==
    ASSUME TypesInv, HeldInv, NEW id \in Ids, attempts' = Aborting({current[id]}),
           NEW j \in Ids, j # id, current[j] # None
    PROVE  attempts'[current[j]] = attempts[current[j]]
  <1>1. TypeOK
    BY DEF TypesInv
  <1>2. current[j] \in Made /\ current[j] # current[id]
    BY <1>1 DEF HeldInv, TypeOK
  <1> DEFINE S == {current[id]}
  <1>3. attempts' = Aborting(S) /\ current[j] \notin S
    BY <1>2
  <1> HIDE DEF S
  <1> QED
    BY <1>1, <1>2, <1>3, Aborts

LEMMA CancelEndPrompts ==
    ASSUME TypesInv, HeldInv, PromptInv, CancelEnd
    PROVE  PromptInv'
  <1>1. /\ op.id \in Ids /\ "cancelled" \in Statuses /\ "cancelled" \in Terminal
        /\ records \in [Ids -> Records \union {None}] /\ prompts \in [Ids -> Made \union {None}]
    BY OpFacts, PlaceFacts DEF CancelEnd, TypesInv, TypeOK
  <1>2. /\ attempts' = Aborting({current[op.id]}) /\ current' = current /\ op' = None
        /\ prompts' = [prompts EXCEPT ![op.id] = None]
        /\ records' = Transition(records, op.id, "cancelled")
    BY DEF CancelEnd
  <1> DEFINE id == op.id
  <1> HIDE DEF id
  <1>3. \A j \in Ids : Prompting(j)' => (Prompting(j) /\ j # op.id)
    <2> SUFFICES ASSUME NEW j \in Ids, Prompting(j)' PROVE Prompting(j) /\ j # id
      BY DEF id
    <2>1. /\ records[j] = None \/ j # id => records'[j] = records[j]
          /\ records[j] # None =>
                /\ records[j].status \in Terminal => records'[j].status = records[j].status
                /\ j = id /\ records[j].status \notin Terminal =>
                      records'[j].status = "cancelled"
      BY <1>1, <1>2, Transits DEF id
    <2> QED
      BY <2>1, PlaceFacts DEF Prompting, Known
  <1> SUFFICES ASSUME NEW j \in Ids, Prompting(j)'
               PROVE  Answerable(j)' /\ ~ RetryingOf(j)'
    BY DEF PromptInv
  <1>4. attempts'[current[j]] = attempts[current[j]]
    BY <1>1, <1>2, <1>3, AbortsOne DEF PromptInv, Answerable
  <1> QED
    BY <1>1, <1>2, <1>3, <1>4, KeepsPrompts

LEMMA RetryBeginPrompts ==
    ASSUME TypesInv, HeldInv, PromptInv, NEW id \in Ids, RetryBegin(id)
    PROVE  PromptInv'
  <1>1. /\ attempts' = Aborting({current[id]}) /\ current' = current /\ prompts' = prompts
        /\ op' = [kind |-> "retry", id |-> id, path |-> records[id].path]
    BY DEF RetryBegin
  <1>2. \A j \in Ids : Prompting(j)' => Prompting(j) /\ j # id
    BY RetryResets DEF Prompting, Known
  <1> SUFFICES ASSUME NEW j \in Ids, Prompting(j)'
               PROVE  Answerable(j)' /\ ~ RetryingOf(j)'
    BY DEF PromptInv
  <1>3. attempts'[current[j]] = attempts[current[j]]
    BY <1>1, <1>2, AbortsOne DEF PromptInv, Answerable
  <1> QED
    BY <1>1, <1>2, <1>3, KeepsPrompts

(* Who is given an answer goes on waiting until he takes it.               *)
LEMMA ResolvePrompts ==
    ASSUME TypesInv, HeldInv, PromptInv, NEW id \in Ids,
           NEW answer \in {"overwrite", "keep"}, Resolve(id, answer)
    PROVE  PromptInv'
  <1>1. /\ current' = current /\ op' = op /\ records' = records
        /\ prompts' = [prompts EXCEPT ![id] = None] /\ prompts \in [Ids -> Made \union {None}]
    BY DEF Resolve, TypesInv, TypeOK
  <1> SUFFICES ASSUME NEW j \in Ids, Prompting(j)'
               PROVE  Answerable(j)' /\ ~ RetryingOf(j)'
    BY DEF PromptInv
  <1>2. Prompting(j) /\ Answerable(j) /\ ~ RetryingOf(j)'
    BY <1>1 DEF PromptInv, Prompting, Known, RetryingOf
  <1> DEFINE b == current[j]
  <1>3. b \in Made
    BY <1>2 DEF Answerable, TypesInv, TypeOK
  <1>4. /\ b # prompts[id] => attempts'[b] = attempts[b]
        /\ attempts'[b].at = attempts[b].at /\ attempts'[b].aborted = attempts[b].aborted
        /\ b = prompts[id] => attempts'[b].answer = answer
    BY <1>3, Resolves DEF TypesInv
  <1> QED
    BY <1>1, <1>2, <1>3, <1>4 DEF Answerable

LEMMA OtherPrompts ==
    ASSUME TypesInv, HeldInv, PromptInv,
           \/ \E id \in Ids : CancelBegin(id) \/ StageDelete(id)
           \/ ConfirmDelete \/ PollDownloads \/ Shutdown
    PROVE  PromptInv'
  <1>1. CASE Shutdown
    BY <1>1 DEF Shutdown, PromptInv, Prompting, Known
  <1>2. CASE \/ \E id \in Ids : CancelBegin(id) \/ StageDelete(id)
             \/ ConfirmDelete \/ PollDownloads
    <2>1. attempts' = attempts /\ current' = current /\ prompts' = prompts
          /\ (op' = op \/ op'.kind = "cancel")
      BY <1>2 DEF CancelBegin, StageDelete, ConfirmDelete, PollDownloads
    <2>2. \A j \in Ids : Prompting(j)' => Prompting(j)
      <3>1. CASE records' = records
        BY <3>1 DEF Prompting, Known
      <3>2. CASE ConfirmDelete /\ records' = [records EXCEPT ![staged.id].deleted = TRUE]
        <4>1. staged.id \in Ids /\ records[staged.id] \in Records
          BY <3>2, OpFacts DEF ConfirmDelete
        <4>2. /\ [records[staged.id] EXCEPT !.deleted = TRUE].status = records[staged.id].status
              /\ records[staged.id] # None
          BY <4>1, NoneIsNothing DEF Records
        <4> QED
          BY <3>2, <4>1, <4>2 DEF Prompting, Known, TypesInv, TypeOK
      <3> QED
        BY <1>2, <3>1, <3>2 DEF CancelBegin, StageDelete, ConfirmDelete, PollDownloads
    <2> QED
      BY <2>1, <2>2, KeepsPrompts DEF PromptInv
  <1> QED
    BY <1>1, <1>2

LEMMA NextPrompts == TypesInv /\ HeldInv /\ PromptInv /\ [Next]_vars => PromptInv'
  <1> SUFFICES ASSUME TypesInv, HeldInv, PromptInv, [Next]_vars PROVE PromptInv'
    OBVIOUS
  <1>1. ASSUME NEW a \in Made, AttemptStep(a) PROVE PromptInv'
    <2>1. GoesOn(a)
      BY <1>1, AttemptEffect DEF TypesInv
    <2> QED
      BY <2>1, AttemptPrompts
  <1>2. CASE UNCHANGED vars
    BY <1>2 DEF vars, PromptInv, Prompting, Answerable, RetryingOf, Known
  <1>3. ASSUME NEW f \in UserFiles, NEW n \in Names, UserSaves(f, n) PROVE PromptInv'
    BY <1>3 DEF UserSaves, history, app, PromptInv, Prompting, Answerable, RetryingOf, Known
  <1> QED
    BY <1>1, <1>2, <1>3, StartPrompts, RetryEndPrompts, CancelEndPrompts, RetryBeginPrompts,
       ResolvePrompts, OtherPrompts
    DEF Next, AppStep
-----------------------------------------------------------------------------
(* The files that attempt a could find at name n: no step adds to them,    *)
(* since what the user makes now comes after every attempt there is.       *)
Found(a, n) == files[n] \in UserFiles /\ since[files[n]] < a

FoundStays == \A a \in Made, n \in Names : Found(a, n)' => Found(a, n)

LEMMA NextFound == TypesInv /\ [Next]_vars => FoundStays
  <1> SUFFICES ASSUME TypesInv, [Next]_vars PROVE FoundStays
    OBVIOUS
  <1>1. TypeOK /\ FilesAreOwn /\ files \in [Names -> Made \union UserFiles \union {Absent}]
    BY DEF TypesInv, TypeOK
  <1>2. ASSUME NEW a \in Made, AttemptStep(a) PROVE FoundStays
    <2>1. PlaceGoesOn(a) /\ DiskGoesOn(a) /\ since' = since
      BY <1>1, <1>2, AttemptEffect DEF GoesOn
    <2>2. CASE files' = files
      BY <2>1, <2>2 DEF FoundStays, Found
    <2>3. CASE files' = [files EXCEPT ![attempts[a].target] = temps[Temp(a)]]
               /\ temps[Temp(a)] # None
      <3>1. temps[Temp(a)] \in Made
        BY <1>1, <2>3, AttemptFacts DEF TypeOK
      <3>2. \A n \in Names : files'[n] \in UserFiles => files'[n] = files[n]
        BY <1>1, <2>3, <3>1, MadeFacts
      <3> QED
        BY <2>1, <3>2 DEF FoundStays, Found
    <2> QED
      BY <2>1, <2>2, <2>3 DEF PlaceGoesOn, DiskGoesOn
  <1>3. CASE AppStep
    <2>1. /\ files' = files \/ files' = [files EXCEPT ![staged.path] = Absent]
          /\ since' = since
      BY <1>3
      DEF AppStep, Start, CancelBegin, RetryBegin, StageDelete, Resolve, CancelEnd, RetryEnd,
          ConfirmDelete, PollDownloads, Shutdown, disk
    <2>2. \A n \in Names : files'[n] \in UserFiles => files'[n] = files[n]
      BY <1>1, <2>1, DownloadConstants
    <2> QED
      BY <2>1, <2>2 DEF FoundStays, Found
  <1>4. CASE UNCHANGED vars
    BY <1>4 DEF vars, FoundStays, Found
  <1>5. ASSUME NEW f \in UserFiles, NEW m \in Names, UserSaves(f, m) PROVE FoundStays
    <2>1. /\ files' = [files EXCEPT ![m] = f] /\ since' = [since EXCEPT ![f] = Len(attempts)]
          /\ since \in [UserFiles -> 0 .. Len(attempts) \union {None}]
      BY <1>1, <1>5 DEF UserSaves, TypeOK
    <2> SUFFICES ASSUME NEW a \in Made, NEW n \in Names, Found(a, n)' PROVE Found(a, n)
      BY DEF FoundStays
    <2>2. since'[f] = Len(attempts) /\ ~ Len(attempts) < a
      BY <1>1, <2>1, MadeFacts
    <2>3. files'[n] # f /\ files'[n] = files[n]
      BY <1>1, <2>1, <2>2 DEF Found
    <2> QED
      BY <2>1, <2>3 DEF Found
  <1> QED
    BY <1>2, <1>3, <1>4, <1>5 DEF Next

-----------------------------------------------------------------------------
(* The consent.  The sender of a prompt is that of an attempt which has no *)
(* answer yet, and an attempt that found a file of the user at its name    *)
(* and waits for nothing was told, or configured, to overwrite.            *)
ConsentInv ==
    /\ \A id \in Ids : prompts[id] # None =>
          attempts[prompts[id]].id = id /\ attempts[prompts[id]].answer = "waiting"
    /\ \A a \in Made :
          Found(a, attempts[a].target) /\ attempts[a].at \notin {"prompting", "ended"} =>
              Agreed(a)

LEMMA InitConsent == Init => ConsentInv
  BY DEF Init, ConsentInv, Made

(* Kept by what gives no answer and makes no attempt.                      *)
LEMMA KeepsConsent ==
    ASSUME TypesInv, ConsentInv, FoundStays, SameAttempts, requests' = requests,
           \A id \in Ids : prompts'[id] \in {None, prompts[id]},
           \A b \in Made :
              /\ attempts'[b].answer = attempts[b].answer
              /\ attempts'[b].at \notin {"prompting", "ended"} =>
                    /\ attempts[b].at # "ended"
                    /\ attempts[b].at = "prompting" => attempts[b].answer = "overwrite"
    PROVE  ConsentInv'
  <1>1. /\ Made' = Made /\ prompts \in [Ids -> Made \union {None}]
        /\ \A b \in Made : /\ attempts'[b].id = attempts[b].id
                           /\ attempts'[b].target = attempts[b].target
                           /\ attempts[b].target \in Names
    BY AttemptFacts DEF SameAttempts, TypesInv, TypeOK
  <1>2. (\A id \in Ids : prompts[id] # None =>
          attempts[prompts[id]].id = id /\ attempts[prompts[id]].answer = "waiting")'
    BY <1>1 DEF ConsentInv
  <1>3. \A b \in Made : Found(b, attempts[b].target)' => Found(b, attempts[b].target)
    BY <1>1 DEF FoundStays, Found
  <1> QED
    BY <1>1, <1>2, <1>3 DEF ConsentInv, Agreed

LEMMA AttemptConsent ==
    ASSUME TypesInv, ConsentInv, FoundStays, NEW a \in Made, GoesOn(a)
    PROVE  ConsentInv'
  <1>1. TypeOK /\ PlaceGoesOn(a) /\ DiskGoesOn(a) /\ requests' = requests /\ prompts' = prompts
    BY DEF GoesOn, app, TypesInv
  <1>2. SameAttempts
    BY <1>1, MadeFacts DEF SameAttempts, PlaceGoesOn, Made
  <1>3. \A b \in Made :
            /\ attempts'[b].answer = attempts[b].answer
            /\ attempts'[b].at \notin {"prompting", "ended"} =>
                  /\ attempts[b].at # "ended"
                  /\ attempts[b].at = "prompting" => attempts[b].answer = "overwrite"
    BY <1>1 DEF PlaceGoesOn
  <1> QED
    BY <1>1, <1>2, <1>3, KeepsConsent

(* A new attempt on the name of a user's file asks, or was configured to   *)
(* overwrite: one with a unique name is elsewhere.                         *)
LEMMA SpawnConsent ==
    ASSUME TypesInv, ConsentInv, NEW id \in Ids, NEW policy \in Policies, Spawn(id, policy),
           files' = files, since' = since, requests'[id] = policy,
           \A b \in Made : requests'[attempts[b].id] = requests[attempts[b].id]
    PROVE  ConsentInv'
  <1>1. TypeOK /\ FilesAreOwn /\ Len(attempts) < MaxAttempts
    BY DEF TypesInv, Spawn
  <1>2. /\ Made' = Made \union {Newest} /\ Newest \notin Made
        /\ \A b \in Made : attempts'[b] = attempts[b]
        /\ attempts'[Newest] = NewAttempt(id, policy)
        /\ prompts' = IF NeedsPrompt(policy) THEN [prompts EXCEPT ![id] = Newest] ELSE prompts
        /\ prompts \in [Ids -> Made \union {None}]
    BY <1>1, Spawns DEF TypeOK
  <1>3. (\A j \in Ids : prompts[j] # None =>
          attempts[prompts[j]].id = j /\ attempts[prompts[j]].answer = "waiting")'
    <2> SUFFICES ASSUME NEW j \in Ids, prompts'[j] # None
                 PROVE  attempts'[prompts'[j]].id = j /\ attempts'[prompts'[j]].answer = "waiting"
      OBVIOUS
    <2>1. CASE NeedsPrompt(policy) /\ j = id
      BY <1>2, <2>1 DEF NewAttempt
    <2>2. CASE ~ (NeedsPrompt(policy) /\ j = id)
      BY <1>2, <2>2 DEF ConsentInv
    <2> QED
      BY <2>1, <2>2
  <1>4. ASSUME files[attempts'[Newest].target] \in UserFiles,
               attempts'[Newest].at # "prompting"
        PROVE  policy = "overwrite"
    <2>1. attempts'[Newest].target = TargetFor(policy) /\ ~ NeedsPrompt(policy)
      BY <1>2, <1>4 DEF NewAttempt
    <2>2. policy # "unique"
      BY <1>1, <1>4, <2>1, Target, DownloadConstants
    <2>3. policy # "prompt"
      BY <1>1, <1>4, <2>1, Target, DownloadConstants DEF NeedsPrompt
    <2> QED
      BY <2>2, <2>3, DownloadConstants
  <1>5. attempts'[Newest].id = id
    BY <1>2 DEF NewAttempt
  <1>6. (\A a \in Made :
          Found(a, attempts[a].target) /\ attempts[a].at \notin {"prompting", "ended"} =>
              Agreed(a))'
    <2> SUFFICES ASSUME NEW b \in Made', Found(b, attempts[b].target)',
                        attempts'[b].at \notin {"prompting", "ended"}
                 PROVE  Agreed(b)'
      OBVIOUS
    <2>1. CASE b = Newest
      BY <1>4, <1>5, <2>1 DEF Found, Agreed
    <2>2. CASE b \in Made
      BY <1>2, <2>2 DEF ConsentInv, Found, Agreed
    <2> QED
      BY <1>2, <2>1, <2>2
  <1> QED
    BY <1>3, <1>6 DEF ConsentInv

LEMMA StartConsent ==
    ASSUME TypesInv, HeldInv, ConsentInv, NEW id \in Ids, NEW policy \in Policies,
           Start(id, policy)
    PROVE  ConsentInv'
  <1>1. /\ Spawn(id, policy) /\ files' = files /\ since' = since /\ ~ closed /\ ~ Known(id)
        /\ requests' = [requests EXCEPT ![id] = policy]
        /\ requests \in [Ids -> Policies \union {None}]
    BY DEF Start, Idle, TypesInv, TypeOK, disk
  <1>2. \A b \in Made : attempts[b].id # id
    BY <1>1 DEF HeldInv
  <1> QED
    BY <1>1, <1>2, SpawnConsent

LEMMA RetryEndConsent ==
    ASSUME TypesInv, ConsentInv, RetryEnd
    PROVE  ConsentInv'
  <1> DEFINE id == op.id
             policy == requests[id]
  <1>1. /\ id \in Ids /\ policy \in Policies /\ Spawn(id, policy)
        /\ files' = files /\ since' = since /\ requests' = requests
    BY OpFacts DEF RetryEnd
  <1>2. requests'[id] = policy
    BY <1>1
  <1> HIDE DEF id, policy
  <1> QED
    BY <1>1, <1>2, SpawnConsent

LEMMA AbortsConsent ==
    ASSUME TypesInv, ConsentInv, FoundStays, NEW S, attempts' = Aborting(S),
           requests' = requests, \A id \in Ids : prompts'[id] \in {None, prompts[id]}
    PROVE  ConsentInv'
  <1>1. TypeOK
    BY DEF TypesInv
  <1>2. SameAttempts
    BY <1>1, AbortsSame
  <1>3. \A b \in Made :
            /\ attempts'[b].answer = attempts[b].answer
            /\ attempts'[b].at \in {"ended", attempts[b].at}
            /\ attempts'[b].at = "prompting" <=>
                  attempts[b].at = "prompting" /\ attempts'[b].at # "ended"
    BY <1>1, Aborts
  <1>4. \A b \in Made :
            /\ attempts'[b].answer = attempts[b].answer
            /\ attempts'[b].at \notin {"prompting", "ended"} =>
                  /\ attempts[b].at # "ended"
                  /\ attempts[b].at = "prompting" => attempts[b].answer = "overwrite"
    BY <1>3
  <1> QED
    BY <1>2, <1>4, KeepsConsent

(* An answer is given once, and to an attempt that had none.               *)
LEMMA ResolveConsent ==
    ASSUME TypesInv, ConsentInv, FoundStays, NEW id \in Ids,
           NEW answer \in {"overwrite", "keep"}, Resolve(id, answer)
    PROVE  ConsentInv'
  <1>1. /\ requests' = requests /\ TypeOK
        /\ prompts' = [prompts EXCEPT ![id] = None] /\ prompts \in [Ids -> Made \union {None}]
    BY DEF Resolve, TypesInv, TypeOK, disk
  <1>2. /\ SameAttempts /\ prompts[id] \in Made
        /\ \A b \in Made : /\ b # prompts[id] => attempts'[b] = attempts[b]
                           /\ attempts'[b].at = attempts[b].at
    BY Resolves DEF TypesInv
  <1>3. prompts[id] # None /\ attempts[prompts[id]].id = id
        /\ attempts[prompts[id]].answer = "waiting"
    BY DEF Resolve, ConsentInv
  <1>4. \A j \in Ids : prompts'[j] # None => prompts'[j] = prompts[j] /\ j # id
    BY <1>1
  <1>5. (\A j \in Ids : prompts[j] # None =>
          attempts[prompts[j]].id = j /\ attempts[prompts[j]].answer = "waiting")'
    <2> SUFFICES ASSUME NEW j \in Ids, prompts'[j] # None
                 PROVE  attempts'[prompts'[j]].id = j /\ attempts'[prompts'[j]].answer = "waiting"
      OBVIOUS
    <2>1. prompts'[j] = prompts[j] /\ j # id
      BY <1>4
    <2>2. prompts[j] \in Made /\ attempts[prompts[j]].id = j
          /\ attempts[prompts[j]].answer = "waiting"
      BY <1>1, <2>1 DEF ConsentInv
    <2>3. prompts[j] # prompts[id]
      BY <1>3, <2>1, <2>2
    <2> QED
      BY <1>2, <2>1, <2>2, <2>3
  <1>6. \A b \in Made :
            /\ attempts'[b].target = attempts[b].target /\ attempts'[b].id = attempts[b].id
            /\ Found(b, attempts[b].target)' => Found(b, attempts[b].target)
    BY <1>1, <1>2, AttemptFacts DEF SameAttempts, FoundStays, Found
  <1>7. (\A a \in Made :
          Found(a, attempts[a].target) /\ attempts[a].at \notin {"prompting", "ended"} =>
              Agreed(a))'
    BY <1>1, <1>2, <1>3, <1>6 DEF ConsentInv, SameAttempts, Agreed
  <1> QED
    BY <1>5, <1>7 DEF ConsentInv

LEMMA OtherConsent ==
    ASSUME TypesInv, ConsentInv, FoundStays,
           \/ \E id \in Ids : CancelBegin(id) \/ StageDelete(id)
           \/ ConfirmDelete \/ PollDownloads
           \/ \E f \in UserFiles, n \in Names : UserSaves(f, n)
    PROVE  ConsentInv'
  <1>1. attempts' = attempts /\ requests' = requests /\ prompts' = prompts
    BY DEF CancelBegin, StageDelete, ConfirmDelete, PollDownloads, UserSaves, app
  <1>2. Made' = Made /\ \A b \in Made : attempts[b].target \in Names
    BY <1>1, AttemptFacts DEF Made, TypesInv
  <1>3. \A b \in Made : Found(b, attempts[b].target)' => Found(b, attempts[b].target)
    BY <1>1, <1>2 DEF FoundStays, Found
  <1> QED
    BY <1>1, <1>2, <1>3 DEF ConsentInv, Agreed

LEMMA NextConsent == TypesInv /\ HeldInv /\ ConsentInv /\ [Next]_vars => ConsentInv'
  <1> SUFFICES ASSUME TypesInv, HeldInv, ConsentInv, [Next]_vars PROVE ConsentInv'
    OBVIOUS
  <1>0. FoundStays
    BY NextFound
  <1>1. ASSUME NEW a \in Made, AttemptStep(a) PROVE ConsentInv'
    <2>1. GoesOn(a)
      BY <1>1, AttemptEffect DEF TypesInv
    <2> QED
      BY <1>0, <2>1, AttemptConsent
  <1>2. ASSUME NEW id \in Ids, RetryBegin(id) PROVE ConsentInv'
    BY <1>0, <1>2, AbortsConsent DEF RetryBegin
  <1>3. CASE CancelEnd
    <2>1. prompts \in [Ids -> Made \union {None}] /\ prompts' = [prompts EXCEPT ![op.id] = None]
      BY <1>3 DEF CancelEnd, TypesInv, TypeOK
    <2>2. \A id \in Ids : prompts'[id] \in {None, prompts[id]}
      BY <2>1
    <2> QED
      BY <1>0, <1>3, <2>2, AbortsConsent DEF CancelEnd
  <1>4. CASE Shutdown
    <2>1. \A id \in Ids : prompts'[id] \in {None, prompts[id]}
      BY <1>4 DEF Shutdown
    <2>2. requests' = requests
      BY <1>4 DEF Shutdown
    <2>3. \E S : attempts' = Aborting(S)
      BY <1>4 DEF Shutdown
    <2> QED
      BY <1>0, <2>1, <2>2, <2>3, AbortsConsent
  <1>5. CASE UNCHANGED vars
    BY <1>5 DEF vars, ConsentInv, Found, Agreed, Made
  <1> QED
    BY <1>0, <1>1, <1>2, <1>3, <1>4, <1>5, StartConsent, RetryEndConsent, ResolveConsent, OtherConsent
    DEF Next, AppStep

(* The step that puts something in place of a user's file is a rename.     *)
LEMMA NextReplaces ==
    ASSUME TypesInv, ConsentInv, [Next]_vars, NEW n \in Names,
           files[n] \in UserFiles, files'[n] \in Attempts
    PROVE  \E a \in Made : Moves(a, n) /\ (since[files[n]] < a => Agreed(a))
  <1>1. /\ files' # files /\ files'[n] # files[n] /\ Absent \notin Attempts
        /\ UserFiles \intersect Attempts = {} /\ Absent \notin UserFiles
    BY DownloadConstants DEF Attempts
  <1>2. ASSUME NEW a \in Made, AttemptStep(a)
        PROVE  Moves(a, n) /\ (since[files[n]] < a => Agreed(a))
    <2>1. TypeOK /\ PlaceGoesOn(a) /\ DiskGoesOn(a)
      BY <1>2, AttemptEffect DEF GoesOn, TypesInv
    <2>2. /\ attempts'[a].at = "moved" /\ attempts[a].at = "moving"
          /\ files' = [files EXCEPT ![attempts[a].target] = temps[Temp(a)]]
      BY <1>1, <2>1 DEF DiskGoesOn, PlaceGoesOn
    <2>3. attempts[a].target = n
      BY <1>1, <2>1, <2>2 DEF TypeOK
    <2> QED
      BY <2>2, <2>3 DEF ConsentInv, Moves, Found
  <1>3. CASE AppStep
    <2>1. files' = [files EXCEPT ![staged.path] = Absent]
      BY <1>1, <1>3
      DEF AppStep, Start, CancelBegin, RetryBegin, StageDelete, Resolve, CancelEnd, RetryEnd,
          ConfirmDelete, PollDownloads, Shutdown, disk
    <2>2. files'[n] \in {files[n], Absent}
      BY <2>1 DEF TypesInv, TypeOK
    <2> QED
      BY <1>1, <2>2
  <1>4. ASSUME NEW f \in UserFiles, NEW m \in Names, UserSaves(f, m) PROVE FALSE
    <2>1. files' = [files EXCEPT ![m] = f] /\ files \in [Names -> Made \union UserFiles \union {Absent}]
      BY <1>4 DEF UserSaves, TypesInv, TypeOK
    <2> QED
      BY <1>1, <2>1
  <1> QED
    BY <1>1, <1>2, <1>3, <1>4 DEF Next, vars

-----------------------------------------------------------------------------
(* The attempts at work.  What has been aborted is flagged, and an abort   *)
(* ends what receives at once.  What has been moved is at its name, where  *)
(* no file is left that was found there.                                   *)
WorkInv ==
    /\ \A a \in Made :
          /\ attempts[a].aborted => attempts[a].flag
          /\ attempts[a].at = "receiving" => ~ attempts[a].aborted
          /\ attempts[a].at = "moved" => ~ Found(a, attempts[a].target)
    /\ \A id \in Ids : Known(id) => current[id] # None

LEMMA InitWork == Init => WorkInv
  BY DEF Init, WorkInv, Made, Known

LEMMA KeepsWork ==
    ASSUME TypesInv, WorkInv, SameAttempts,
           FoundStays,
           \A b \in Made :
              /\ attempts'[b].aborted => attempts'[b].flag
              /\ attempts'[b].at = "receiving" => ~ attempts'[b].aborted
              /\ attempts'[b].at = "moved" =>
                    attempts[b].at = "moved" \/ ~ Found(b, attempts[b].target)',
           \A id \in Ids : records'[id] # None => current'[id] # None
    PROVE  WorkInv'
  <1>1. /\ Made' = Made
        /\ \A b \in Made : attempts'[b].target = attempts[b].target /\ attempts[b].target \in Names
    BY AttemptFacts DEF SameAttempts, TypesInv
  <1>2. \A b \in Made : Found(b, attempts[b].target)' => Found(b, attempts[b].target)
    BY <1>1 DEF FoundStays, Found
  <1> QED
    BY <1>1, <1>2 DEF WorkInv, Known

LEMMA AttemptWork ==
    ASSUME TypesInv, WorkInv, NEW a \in Made, GoesOn(a),
           FoundStays
    PROVE  WorkInv'
  <1>1. TypeOK /\ PlaceGoesOn(a) /\ RecordGoesOn(a) /\ current' = current
    BY DEF GoesOn, app, TypesInv
  <1>2. SameAttempts
    BY <1>1, MadeFacts DEF SameAttempts, PlaceGoesOn, Made
  <1>3. attempts'[a].at = "moved" => ~ Found(a, attempts[a].target)'
    <2>1. ASSUME attempts'[a].at = "moved" PROVE files'[attempts'[a].target] \in Made
      <3>1. temps[Temp(a)] \in Made /\ attempts[a].target \in Names
        BY <1>1, <2>1, AttemptFacts DEF TypeOK, PlaceGoesOn
      <3> QED
        BY <1>1, <2>1, <3>1 DEF TypeOK, PlaceGoesOn
    <2> QED
      BY <1>1, <2>1, MadeFacts DEF Found
  <1>4. \A b \in Made :
            /\ attempts'[b].aborted => attempts'[b].flag
            /\ attempts'[b].at = "receiving" => ~ attempts'[b].aborted
            /\ attempts'[b].at = "moved" =>
                  attempts[b].at = "moved" \/ ~ Found(b, attempts[b].target)'
    <2> TAKE b \in Made
    <2>1. CASE b = a
      BY <1>1, <1>3, <2>1 DEF PlaceGoesOn, WorkInv
    <2>2. CASE b # a
      BY <1>1, <2>2 DEF PlaceGoesOn, WorkInv
    <2> QED
      BY <2>1, <2>2
  <1>5. \A id \in Ids : records'[id] # None => current'[id] # None
    BY <1>1 DEF RecordGoesOn, WorkInv, Known
  <1> QED
    BY <1>2, <1>4, <1>5, KeepsWork

(* An abort flags what it does not end.                                    *)
LEMMA AbortsWork ==
    ASSUME TypesInv, WorkInv, NEW S, attempts' = Aborting(S),
           FoundStays,
           \A id \in Ids : records'[id] # None => current'[id] # None
    PROVE  WorkInv'
  <1>1. TypeOK
    BY DEF TypesInv
  <1>2. SameAttempts
    BY <1>1, AbortsSame
  <1>3. \A b \in Made :
            /\ attempts'[b].aborted => attempts'[b].flag
            /\ attempts'[b].at = "receiving" => ~ attempts'[b].aborted
            /\ attempts'[b].at = "moved" =>
                  attempts[b].at = "moved" \/ ~ Found(b, attempts[b].target)'
    <2> TAKE b \in Made
    <2>1. CASE b \notin S
      BY <1>1, <2>1, Aborts DEF WorkInv
    <2>2. CASE b \in S
      <3>1. "receiving" \in Awaits
        BY DEF Awaits
      <3> QED
        BY <1>1, <2>2, <3>1, Aborts DEF WorkInv
    <2> QED
      BY <2>1, <2>2
  <1> QED
    BY <1>2, <1>3, KeepsWork

LEMMA SpawnWork ==
    ASSUME TypesInv, WorkInv, NEW id \in Ids, NEW policy \in Policies, Spawn(id, policy),
           files' = files, since' = since,
           \A j \in Ids : j # id /\ records'[j] # None => Known(j)
    PROVE  WorkInv'
  <1>1. /\ Made' = Made \union {Newest} /\ Newest \notin Made
        /\ \A b \in Made : attempts'[b] = attempts[b]
        /\ attempts'[Newest] = NewAttempt(id, policy)
        /\ current' = [current EXCEPT ![id] = Newest]
        /\ current \in [Ids -> Made \union {None}] /\ Newest # None
    BY Spawns, MadeFacts, DownloadConstants DEF TypesInv, TypeOK, Newest
  <1>2. ~ attempts'[Newest].aborted /\ attempts'[Newest].at \in {"spawned", "prompting"}
    BY <1>1 DEF NewAttempt
  <1>3. (\A j \in Ids : Known(j) => current[j] # None)'
    BY <1>1 DEF WorkInv, Known
  <1>4. (\A a \in Made :
          /\ attempts[a].aborted => attempts[a].flag
          /\ attempts[a].at = "receiving" => ~ attempts[a].aborted
          /\ attempts[a].at = "moved" => ~ Found(a, attempts[a].target))'
    <2> SUFFICES ASSUME NEW b \in Made'
                 PROVE  /\ attempts'[b].aborted => attempts'[b].flag
                        /\ attempts'[b].at = "receiving" => ~ attempts'[b].aborted
                        /\ attempts'[b].at = "moved" => ~ Found(b, attempts[b].target)'
      OBVIOUS
    <2>1. CASE b = Newest
      BY <1>2, <2>1
    <2>2. CASE b \in Made
      BY <1>1, <2>2 DEF WorkInv, Found
    <2> QED
      BY <1>1, <2>1, <2>2
  <1> QED
    BY <1>3, <1>4 DEF WorkInv

LEMMA NextWork == TypesInv /\ WorkInv /\ [Next]_vars => WorkInv'
  <1> SUFFICES ASSUME TypesInv, WorkInv, [Next]_vars PROVE WorkInv'
    OBVIOUS
  <1>0. TypeOK /\ records \in [Ids -> Records \union {None}]
        /\ FoundStays
    BY NextFound DEF TypesInv, TypeOK
  <1>1. ASSUME NEW a \in Made, AttemptStep(a) PROVE WorkInv'
    <2>1. GoesOn(a)
      BY <1>0, <1>1, AttemptEffect
    <2> QED
      BY <1>0, <2>1, AttemptWork
  <1>2. ASSUME NEW id \in Ids, NEW policy \in Policies, Start(id, policy) PROVE WorkInv'
    <2>1. \A j \in Ids : j # id /\ records'[j] # None => Known(j)
      BY <1>0, <1>2 DEF Start, Known
    <2> QED
      BY <1>2, <2>1, SpawnWork DEF Start, disk
  <1>3. ASSUME NEW id \in Ids, RetryBegin(id) PROVE WorkInv'
    <2>1. \A j \in Ids : records'[j] # None => current'[j] # None
      BY <1>0, <1>3 DEF RetryBegin, WorkInv, Known
    <2> QED
      BY <1>0, <1>3, <2>1, AbortsWork DEF RetryBegin
  <1>4. CASE RetryEnd
    <2> DEFINE id == op.id
               policy == requests[id]
    <2>1. /\ id \in Ids /\ policy \in Policies /\ Spawn(id, policy)
          /\ files' = files /\ since' = since
          /\ records' \in {records, Transition(records, id, "prompting")}
      BY <1>4, OpFacts DEF RetryEnd
    <2> HIDE DEF id, policy
    <2>2. "prompting" \in Statuses
      BY DEF Statuses
    <2>3. \A j \in Ids : j # id /\ records'[j] # None => Known(j)
      BY <1>0, <2>1, <2>2, Transits DEF Known
    <2> QED
      BY <2>1, <2>3, SpawnWork
  <1>5. CASE CancelEnd
    <2>1. op.id \in Ids /\ "cancelled" \in Statuses
      BY <1>5, OpFacts DEF CancelEnd, Statuses, Terminal
    <2>2. \A j \in Ids : records'[j] # None => current'[j] # None
      BY <1>0, <1>5, <2>1, Transits DEF CancelEnd, WorkInv, Known
    <2> QED
      BY <1>0, <1>5, <2>2, AbortsWork DEF CancelEnd
  <1>6. CASE Shutdown
    <2>1. \A j \in Ids : records'[j] = None
      BY <1>6 DEF Shutdown
    <2>2. \E S : attempts' = Aborting(S)
      BY <1>6 DEF Shutdown
    <2> QED
      BY <1>0, <2>1, <2>2, AbortsWork
  <1>7. ASSUME NEW id \in Ids, NEW answer \in {"overwrite", "keep"}, Resolve(id, answer)
        PROVE  WorkInv'
    <2>1. /\ SameAttempts
          /\ \A b \in Made : /\ attempts'[b].at = attempts[b].at
                             /\ attempts'[b].flag = attempts[b].flag
                             /\ attempts'[b].aborted = attempts[b].aborted
      BY <1>0, <1>7, Resolves
    <2>2. \A j \in Ids : records'[j] # None => current'[j] # None
      BY <1>7 DEF Resolve, WorkInv, Known
    <2> QED
      BY <1>0, <2>1, <2>2, KeepsWork DEF WorkInv
  <1>8. CASE \/ \E id \in Ids : CancelBegin(id) \/ StageDelete(id)
             \/ ConfirmDelete \/ PollDownloads \/ UNCHANGED vars
             \/ \E f \in UserFiles, n \in Names : UserSaves(f, n)
    <2>1. attempts' = attempts /\ current' = current
      BY <1>8 DEF CancelBegin, StageDelete, ConfirmDelete, PollDownloads, UserSaves, app, vars
    <2>2. \A j \in Ids : records'[j] # None => current'[j] # None
      <3>1. \/ records' = records
            \/ records' = [records EXCEPT ![staged.id].deleted = TRUE] /\ staged # None
        BY <1>8 DEF CancelBegin, StageDelete, ConfirmDelete, PollDownloads, UserSaves, history, vars
      <3>2. staged # None => records[staged.id] # None
        BY OpFacts, NoneIsNothing
      <3> QED
        BY <1>0, <2>1, <3>1, <3>2 DEF WorkInv, Known
    <2>3. Made' = Made /\ \A b \in Made : attempts[b].target \in Names
      BY <1>0, <2>1, AttemptFacts DEF Made
    <2>4. \A b \in Made : Found(b, attempts[b].target)' => Found(b, attempts[b].target)
      BY <1>0, <2>1, <2>3 DEF FoundStays, Found
    <2> QED
      BY <1>0, <2>1, <2>2, <2>3, <2>4 DEF WorkInv, Known
  <1> QED
    BY <1>1, <1>2, <1>3, <1>4, <1>5, <1>6, <1>7, <1>8 DEF Next, AppStep

-----------------------------------------------------------------------------
(* The downloads with one attempt.  Of such a download, unless it is being *)
(* retried, the record, a cancel, a staged deletion and the attempt name   *)
(* one file; the attempt is at work while the record is open, and while    *)
(* its temporary file is there.                                            *)
Sole(id) == \A a, b \in Made : attempts[a].id = id /\ attempts[b].id = id => a = b
Alone(id) == Sole(id) /\ ~ RetryingOf(id)

Aims(id, path) == \A a \in Made : attempts[a].id = id => attempts[a].target = path

RecordsAim == \A id \in Ids : Known(id) /\ Alone(id) => Aims(id, records[id].path)
CancelAims == op # None /\ op.kind = "cancel" /\ Sole(op.id) => Aims(op.id, op.path)
StagedAims == staged # None /\ Sole(staged.id) => Aims(staged.id, staged.path)

WorkIsOpen ==
    \A id \in Ids : Known(id) /\ Alone(id) =>
        \A a \in Made :
            attempts[a].id = id /\ Live(a) /\ ~ attempts[a].aborted =>
                records[id].status \notin Terminal

TempsAreInUse ==
    \A t \in Names \X Ids : temps[t] # None /\ Alone(t[2]) => attempts[temps[t]].at \in InUse

(* What an attempt moved stays at its name, unless another download took   *)
(* it away.                                                                *)
Placed(a) == files[attempts[a].target] \in Made \/ \E b \in Made : b # a

MovedIsPlaced == \A a \in Made : attempts[a].at = "moved" => Placed(a)

CompletedIsOurs ==
    \A id \in Ids, a \in Made :
        /\ Known(id) /\ Alone(id) /\ records[id].status = "completed"
        /\ attempts[a].id = id
        => /\ ~ Live(a)
           /\ ~ Found(a, attempts[a].target)
           /\ records[id].deleted \/ Placed(a)

AloneInv ==
    /\ RecordsAim /\ CancelAims /\ StagedAims
    /\ WorkIsOpen /\ TempsAreInUse /\ MovedIsPlaced /\ CompletedIsOurs

LEMMA InitAlone == Init => AloneInv
  BY DEF Init, AloneInv, RecordsAim, CancelAims, StagedAims, WorkIsOpen, TempsAreInUse,
         MovedIsPlaced, CompletedIsOurs, Known, Made

LEMMA SoleStays ==
    ASSUME SameAttempts
    PROVE  \A id : /\ Sole(id)' <=> Sole(id)
                   /\ \A path : Aims(id, path)' <=> Aims(id, path)
  BY DEF SameAttempts, Sole, Aims

(* What an operation does to one download, when it spawns nothing.         *)
KeepsRecord(id) ==
    /\ RetryingOf(id) => RetryingOf(id)'
    /\ records'[id] # None /\ ~ RetryingOf(id)' =>
          /\ Known(id)
          /\ \/ records'[id].path = records[id].path
             \/ \E a \in Made : attempts[a].id = id /\ records'[id].path = attempts[a].target
          /\ records[id].deleted => records'[id].deleted
          /\ records'[id].status = "completed" =>
                \/ records[id].status = "completed"
                \/ \E a \in Made : /\ attempts[a].id = id /\ attempts[a].at = "moved"
                                   /\ attempts'[a].at = "ended"
          /\ \A a \in Made :
                attempts[a].id = id /\ Live(a)' /\ ~ attempts'[a].aborted =>
                    /\ Live(a) /\ ~ attempts[a].aborted
                    /\ \/ records'[id].status = records[id].status
                       \/ Sole(id) => records'[id].status \notin Terminal

(* A file that is in place stays there, or its deletion is recorded.       *)
PlacedStays ==
    \A a \in Made : Placed(a) =>
        \/ Placed(a)'
        \/ ~ Live(a) /\ (records'[attempts[a].id] = None \/ records'[attempts[a].id].deleted)

LEMMA PlacedSame ==
    ASSUME TypesInv, SameAttempts, \A n \in Names : files[n] \in Made => files'[n] \in Made
    PROVE  PlacedStays
  BY AttemptFacts DEF SameAttempts, TypesInv, PlacedStays, Placed

(* A record that is kept goes on naming the file of its attempt.           *)
LEMMA KeepsRecordsAim ==
    ASSUME TypesInv, AloneInv, SameAttempts, NEW id \in Ids, KeepsRecord(id),
           records'[id] # None, Alone(id)'
    PROVE  /\ Known(id) /\ Alone(id) /\ Aims(id, records[id].path)
           /\ records'[id].path = records[id].path
           /\ Aims(id, records[id].path)'
  <1>1. Known(id) /\ Alone(id)
    BY SoleStays DEF Alone, KeepsRecord
  <1>2. Aims(id, records[id].path)
    BY <1>1 DEF AloneInv, RecordsAim
  <1>3. records'[id].path = records[id].path
    BY <1>1, <1>2 DEF KeepsRecord, Alone, Aims
  <1>4. Aims(id, records[id].path)'
    BY <1>2, <1>3, SoleStays
  <1> QED
    BY <1>1, <1>2, <1>3, <1>4

(* Kept by what makes no attempt, if it takes care of the temporary files. *)
LEMMA KeepsAlone ==
    ASSUME TypesInv, WorkInv, AloneInv, SameAttempts, \A id \in Ids : KeepsRecord(id),
           FoundStays,
           \/ op' \in {None, op} \/ op'.kind = "retry"
           \/ op = None /\ op'.id \in Ids /\ Known(op'.id) /\ op'.path = records[op'.id].path,
           \/ staged' \in {None, staged}
           \/ op = None /\ staged'.id \in Ids /\ Known(staged'.id)
              /\ staged'.path = records[staged'.id].path,
           PlacedStays,
           \A b \in Made :
              /\ ~ Live(b) => ~ Live(b)'
              /\ attempts'[b].at = "moved" =>
                    attempts[b].at = "moved" \/ files'[attempts[b].target] \in Made,
           TempsAreInUse'
    PROVE  AloneInv'
  <1>1. RecordsAim'
    BY KeepsRecordsAim DEF RecordsAim, Known
  <1>2. CancelAims'
    <2> SUFFICES ASSUME (op # None)', (op.kind = "cancel")', Sole(op.id)'
                 PROVE  Aims(op.id, op.path)'
      BY DEF CancelAims
    <2>1. Sole(op'.id)
      BY DEF Sole, SameAttempts
    <2>2. Aims(op'.id, op'.path)
      BY <2>1 DEF AloneInv, CancelAims, RecordsAim, Alone, RetryingOf
    <2> QED
      BY <2>2 DEF Aims, SameAttempts
  <1>3. StagedAims'
    <2> SUFFICES ASSUME (staged # None)', Sole(staged.id)' PROVE Aims(staged.id, staged.path)'
      BY DEF StagedAims
    <2>1. Sole(staged'.id)
      BY DEF Sole, SameAttempts
    <2>2. Aims(staged'.id, staged'.path)
      BY <2>1 DEF AloneInv, StagedAims, RecordsAim, Alone, RetryingOf
    <2> QED
      BY <2>2 DEF Aims, SameAttempts
  <1>4. WorkIsOpen'
    <2> SUFFICES ASSUME NEW id \in Ids, records'[id] # None, Alone(id)',
                        NEW a \in Made, attempts[a].id = id, Live(a)', ~ attempts'[a].aborted
                 PROVE  records'[id].status \notin Terminal
      BY DEF WorkIsOpen, SameAttempts, Known
    <2>1. Known(id) /\ Alone(id)
      BY KeepsRecordsAim
    <2> QED
      BY <2>1 DEF KeepsRecord, Alone, AloneInv, WorkIsOpen
  <1>5. MovedIsPlaced'
    <2> SUFFICES ASSUME NEW a \in Made, attempts'[a].at = "moved" PROVE Placed(a)'
      BY DEF MovedIsPlaced, SameAttempts
    <2>1. CASE attempts[a].at = "moved"
      <3>1. Placed(a) /\ Live(a)
        BY <2>1 DEF AloneInv, MovedIsPlaced, Live
      <3> QED
        BY <3>1 DEF PlacedStays
    <2>2. CASE files'[attempts[a].target] \in Made
      BY <2>2 DEF Placed, SameAttempts
    <2> QED
      BY <2>1, <2>2
  <1>6. CompletedIsOurs'
    <2> SUFFICES ASSUME NEW id \in Ids, NEW a \in Made, records'[id] # None, Alone(id)',
                        records'[id].status = "completed", attempts[a].id = id
                 PROVE  /\ ~ Live(a)'
                        /\ ~ Found(a, attempts[a].target)'
                        /\ records'[id].deleted \/ Placed(a)'
      BY DEF CompletedIsOurs, Known, SameAttempts
    <2>1. Known(id) /\ Alone(id) /\ (records[id].deleted => records'[id].deleted)
      BY KeepsRecordsAim DEF KeepsRecord, Alone
    <2>2. \/ records[id].status = "completed" /\ ~ Live(a)
          \/ attempts[a].at = "moved" /\ attempts'[a].at = "ended"
      <3>1. CASE records[id].status = "completed"
        BY <2>1, <3>1 DEF AloneInv, CompletedIsOurs
      <3>2. CASE records[id].status # "completed"
        <4>1. PICK b \in Made : /\ attempts[b].id = id /\ attempts[b].at = "moved"
                                /\ attempts'[b].at = "ended"
          BY <2>1, <3>2 DEF KeepsRecord, Alone
        <4> QED
          BY <2>1, <4>1 DEF Alone, Sole
      <3> QED
        BY <3>1, <3>2
    <2>3. ~ Live(a)'
      BY <2>2 DEF Live
    <2>4. ~ Found(a, attempts[a].target)'
      <3>1. ~ Found(a, attempts[a].target) /\ attempts[a].target \in Names
        BY <2>1, <2>2, AttemptFacts DEF AloneInv, CompletedIsOurs, WorkInv, TypesInv
      <3> QED
        BY <3>1 DEF FoundStays, Found, SameAttempts
    <2>5. records'[id].deleted \/ Placed(a)'
      <3>1. records[id].deleted \/ Placed(a)
        BY <2>1, <2>2 DEF AloneInv, CompletedIsOurs, MovedIsPlaced
      <3> QED
        BY <2>1, <3>1 DEF PlacedStays
    <2> QED
      BY <2>3, <2>4, <2>5
  <1> QED
    BY <1>1, <1>2, <1>3, <1>4, <1>5, <1>6 DEF AloneInv

(* An attempt takes its temporary file away when it ends, and completes    *)
(* its own record only.                                                    *)
LEMMA AttemptAlone ==
    ASSUME TypesInv, WorkInv, AloneInv, NEW a \in Made, GoesOn(a),
           FoundStays
    PROVE  AloneInv'
  <1>1. /\ TypeOK /\ TempsAreOwn /\ PlaceGoesOn(a) /\ RecordGoesOn(a) /\ DiskGoesOn(a)
        /\ op' = op /\ staged' = staged
    BY DEF GoesOn, app, TypesInv
  <1>2. SameAttempts
    BY <1>1, MadeFacts DEF SameAttempts, PlaceGoesOn, Made
  <1>3. ASSUME NEW id \in Ids PROVE KeepsRecord(id)
    <2>1. RetryingOf(id) <=> RetryingOf(id)'
      BY <1>1 DEF RetryingOf
    <2> SUFFICES ASSUME records'[id] # None
                 PROVE  /\ Known(id)
                        /\ \/ records'[id].path = records[id].path
                           \/ \E b \in Made : attempts[b].id = id
                                              /\ records'[id].path = attempts[b].target
                        /\ records[id].deleted => records'[id].deleted
                        /\ records'[id].status = "completed" =>
                              \/ records[id].status = "completed"
                              \/ \E b \in Made : /\ attempts[b].id = id
                                                 /\ attempts[b].at = "moved"
                                                 /\ attempts'[b].at = "ended"
                        /\ \A b \in Made :
                              attempts[b].id = id /\ Live(b)' /\ ~ attempts'[b].aborted =>
                                  /\ Live(b) /\ ~ attempts[b].aborted
                                  /\ \/ records'[id].status = records[id].status
                                     \/ Sole(id) => records'[id].status \notin Terminal
      BY <2>1 DEF KeepsRecord
    <2>2. Known(id) /\ (id # attempts[a].id => records'[id] = records[id])
      BY <1>1 DEF RecordGoesOn, Known
    <2>3. \A b \in Made : Live(b)' /\ ~ attempts'[b].aborted => Live(b) /\ ~ attempts[b].aborted
      BY <1>1 DEF PlaceGoesOn, Live
    <2>4. ASSUME NEW b \in Made, attempts[b].id = id, Live(b)', Sole(id),
                 records'[id].status # records[id].status
          PROVE  records'[id].status \notin Terminal
      <3>1. attempts[a].id = id /\ a = b
        BY <2>2, <2>4 DEF Sole
      <3> QED
        BY <1>1, <2>2, <2>4, <3>1, PlaceFacts DEF RecordGoesOn, Live
    <2>5. \/ records'[id].path = records[id].path
          \/ \E b \in Made : attempts[b].id = id /\ records'[id].path = attempts[b].target
      BY <1>1, <2>2 DEF RecordGoesOn
    <2>6. records'[id].status = "completed" =>
              \/ records[id].status = "completed"
              \/ \E b \in Made : /\ attempts[b].id = id /\ attempts[b].at = "moved"
                                 /\ attempts'[b].at = "ended"
      BY <1>1, <2>2 DEF RecordGoesOn
    <2>7. records[id].deleted => records'[id].deleted
      BY <1>1, <2>2 DEF RecordGoesOn
    <2> QED
      BY <2>2, <2>3, <2>4, <2>5, <2>6, <2>7
  <1>4. TempsAreInUse'
    <2> SUFFICES ASSUME NEW t \in Names \X Ids, temps'[t] # None, Alone(t[2])'
                 PROVE  attempts'[temps'[t]].at \in InUse
      BY DEF TempsAreInUse
    <2>1. Alone(t[2])
      BY <1>1, <1>2, SoleStays DEF Alone, RetryingOf
    <2>2. CASE temps'[t] = temps[t]
      <3>1. temps[t] \in Made /\ attempts[temps[t]].at \in InUse /\ Temp(temps[t]) = t
        BY <1>1, <2>1, <2>2 DEF AloneInv, TempsAreInUse, TypeOK, TempsAreOwn
      <3>2. CASE temps[t] # a
        BY <1>1, <2>2, <3>1, <3>2 DEF PlaceGoesOn
      <3>3. CASE temps[t] = a
        BY <1>1, <2>2, <3>1, <3>3 DEF DiskGoesOn, WorkInv
      <3> QED
        BY <3>2, <3>3
    <2>3. CASE temps'[t] = a /\ attempts'[a].at = "looping"
      BY <2>3 DEF InUse
    <2> QED
      BY <1>1, <2>2, <2>3 DEF DiskGoesOn
  <1>5. ASSUME NEW b \in Made, attempts'[b].at = "moved"
        PROVE  attempts[b].at = "moved" \/ files'[attempts[b].target] \in Made
    <2>1. CASE b # a
      BY <1>1, <1>5, <2>1 DEF PlaceGoesOn
    <2>2. CASE b = a
      <3>1. /\ temps[Temp(a)] \in Made /\ attempts[a].target \in Names
            /\ files' = [files EXCEPT ![attempts[a].target] = temps[Temp(a)]]
        BY <1>1, <1>5, <2>2, AttemptFacts DEF PlaceGoesOn, TypeOK
      <3> QED
        BY <1>1, <2>2, <3>1 DEF TypeOK
    <2> QED
      BY <2>1, <2>2
  <1>6. \A n \in Names : files[n] \in Made => files'[n] \in Made
    <2>1. CASE files' = files
      BY <2>1
    <2>2. CASE attempts'[a].at = "moved"
      <3>1. /\ temps[Temp(a)] \in Made
            /\ files' = [files EXCEPT ![attempts[a].target] = temps[Temp(a)]]
        BY <1>1, <2>2, AttemptFacts DEF PlaceGoesOn, TypeOK
      <3> QED
        BY <1>1, <3>1 DEF TypeOK
    <2> QED
      BY <1>1, <2>1, <2>2 DEF DiskGoesOn
  <1>7. PlacedStays
    BY <1>2, <1>6, PlacedSame
  <1>8. \A b \in Made : ~ Live(b) => ~ Live(b)'
    BY <1>1 DEF PlaceGoesOn, Live
  <1> QED
    BY <1>1, <1>2, <1>3, <1>4, <1>5, <1>7, <1>8, KeepsAlone

(* An abort leaves the attempt at work, aborted, or ends it while it       *)
(* receives, without clean-up.                                             *)
LEMMA AbortsLive ==
    ASSUME TypesInv, NEW S, attempts' = Aborting(S)
    PROVE  /\ SameAttempts
           /\ \A b \in Made :
                 /\ ~ Live(b) => ~ Live(b)'
                 /\ attempts'[b].at = "moved" => attempts[b].at = "moved"
                 /\ Live(b)' /\ ~ attempts'[b].aborted =>
                       Live(b) /\ ~ attempts[b].aborted /\ b \notin S
                 /\ attempts[b].at \in InUse =>
                       \/ attempts'[b].at \in InUse
                       \/ b \in S /\ attempts[b].at = "receiving" /\ ~ attempts[b].aborted
  <1>1. TypeOK
    BY DEF TypesInv
  <1>2. SameAttempts
    BY <1>1, AbortsSame
  <1>3. \A b \in Made : b \notin S => attempts'[b] = attempts[b]
    BY <1>1, Aborts
  <1>4. \A b \in Made : b \in S =>
            IF attempts[b].at \in Awaits /\ ~ attempts[b].aborted
            THEN attempts'[b].at = "ended"
            ELSE attempts'[b].at = attempts[b].at /\ attempts'[b].aborted
    BY <1>1, Aborts
  <1>5. InUse \intersect Awaits = {"receiving"}
    BY DEF InUse, Awaits
  <1> QED
    BY <1>2, <1>3, <1>4, <1>5 DEF Live

(* A cancel clears the temporary file that the aborted attempt leaves: the *)
(* path it read names it.                                                  *)
LEMMA CancelEndAlone ==
    ASSUME TypesInv, HeldInv, WorkInv, AloneInv, CancelEnd,
           FoundStays
    PROVE  AloneInv'
  <1> DEFINE me == op.id
  <1>1. /\ TypeOK /\ TempsAreOwn /\ me \in Ids /\ op.path \in Names /\ op # None
        /\ op.kind = "cancel" /\ op' = None /\ staged' = None
        /\ attempts' = Aborting({current[me]})
        /\ records' = Transition(records, me, "cancelled") /\ files' = files
        /\ temps' = [temps EXCEPT ![<<op.path, me>>] = None]
    BY OpFacts DEF CancelEnd, TypesInv
  <1>2. /\ records \in [Ids -> Records \union {None}]
        /\ temps \in [Names \X Ids -> Made \union {None}]
        /\ "cancelled" \in Statuses /\ "cancelled" # "completed"
    BY <1>1 DEF TypeOK, Statuses, Terminal
  <1>3. CancelAims
    BY DEF AloneInv
  <1>4. \A id \in Ids : ~ RetryingOf(id) /\ ~ RetryingOf(id)'
    BY <1>1 DEF RetryingOf
  <1> DEFINE S == {current[me]}
  <1>5. attempts' = Aborting(S)
    BY <1>1
  <1>6. /\ SameAttempts
        /\ \A b \in Made :
              /\ ~ Live(b) => ~ Live(b)'
              /\ attempts'[b].at = "moved" => attempts[b].at = "moved"
              /\ Live(b)' /\ ~ attempts'[b].aborted =>
                    Live(b) /\ ~ attempts[b].aborted /\ b \notin S
              /\ attempts[b].at \in InUse =>
                    \/ attempts'[b].at \in InUse
                    \/ b \in S /\ attempts[b].at = "receiving" /\ ~ attempts[b].aborted
    <2> HIDE DEF S
    <2> QED BY <1>5, AbortsLive
  <1>7. ASSUME NEW b \in Made, Live(b)', ~ attempts'[b].aborted
        PROVE  Live(b) /\ ~ attempts[b].aborted /\ attempts[b].id # me
    BY <1>6, <1>7 DEF HeldInv, EveryAttemptIsHeld
  <1>8. ASSUME NEW id \in Ids PROVE KeepsRecord(id)
    <2>1. /\ records[id] = None \/ id # me => records'[id] = records[id]
          /\ records[id] # None =>
                /\ records'[id].path = records[id].path
                /\ records'[id].deleted = records[id].deleted
                /\ records[id].status \in Terminal => records'[id].status = records[id].status
                /\ id = me /\ records[id].status \notin Terminal =>
                      records'[id].status = "cancelled"
      <3> HIDE DEF me
      <3> QED BY <1>1, <1>2, Transits
    <2>2. records'[id] # None => /\ Known(id) /\ records'[id].path = records[id].path
                                 /\ records'[id].deleted = records[id].deleted
      BY <2>1 DEF Known
    <2>3. records'[id] # None /\ records'[id].status = "completed" =>
              records[id].status = "completed"
      BY <1>2, <2>1
    <2>4. \A b \in Made : attempts[b].id = id /\ Live(b)' /\ ~ attempts'[b].aborted =>
              Live(b) /\ ~ attempts[b].aborted /\ records'[id].status = records[id].status
      BY <1>7, <2>1
    <2> QED
      BY <1>4, <2>2, <2>3, <2>4 DEF KeepsRecord
  <1>9. TempsAreInUse'
    <2> SUFFICES ASSUME NEW t \in Names \X Ids, temps'[t] # None, Alone(t[2])'
                 PROVE  attempts'[temps'[t]].at \in InUse
      BY DEF TempsAreInUse
    <2> DEFINE b == temps[t]
    <2>1. temps'[t] = b /\ b # None /\ t # <<op.path, me>>
      BY <1>1, <1>2
    <2>2. Sole(t[2]) /\ Alone(t[2])
      BY <1>4, <1>6, SoleStays DEF Alone
    <2>3. b \in Made /\ Temp(b) = t /\ attempts[b].at \in InUse
      BY <1>1, <1>2, <2>1, <2>2 DEF AloneInv, TempsAreInUse, TempsAreOwn
    <2>4. CASE b # current[me]
      BY <1>6, <2>1, <2>3, <2>4
    <2>5. CASE b = current[me]
      <3>1. attempts[b].id = me /\ t[2] = me /\ t[1] = attempts[b].target
        BY <1>1, <2>3, <2>5, AttemptFacts, MadeFacts DEF HeldInv
      <3>2. attempts[b].target = op.path
        BY <1>1, <1>3, <2>2, <2>3, <3>1 DEF CancelAims, Aims
      <3>3. t = <<op.path, me>>
        BY <2>3, <3>1, <3>2 DEF Temp
      <3> QED
        BY <2>1, <3>3
    <2> QED
      BY <2>4, <2>5
  <1>10. PlacedStays
    BY <1>1, <1>6, PlacedSame
  <1> QED
    BY <1>1, <1>6, <1>8, <1>9, <1>10, KeepsAlone

LEMMA RetryBeginAlone ==
    ASSUME TypesInv, HeldInv, WorkInv, AloneInv, NEW me \in Ids, RetryBegin(me),
           FoundStays
    PROVE  AloneInv'
  <1>1. /\ TypeOK /\ TempsAreOwn /\ op = None /\ staged' = staged /\ temps' = temps
        /\ op' = [kind |-> "retry", id |-> me, path |-> records[me].path]
        /\ attempts' = Aborting({current[me]}) /\ files' = files
        /\ temps \in [Names \X Ids -> Made \union {None}]
    BY DEF RetryBegin, Idle, TypesInv, TypeOK, disk
  <1>2. /\ \A id \in Ids : ~ RetryingOf(id)
        /\ \A id \in Ids : (~ RetryingOf(id)') => id # me
    <2>1. op' \in Ops /\ None \notin Ops
      <3>1. records[me] \in Records /\ None \notin Ops
        BY OpFacts DEF RetryBegin, Known
      <3> QED
        BY <1>1, <3>1 DEF Ops, Records
    <2> QED
      BY <1>1, <2>1 DEF RetryingOf
  <1> DEFINE S == {current[me]}
  <1>3. attempts' = Aborting(S)
    BY <1>1
  <1>4. /\ SameAttempts
        /\ \A b \in Made :
              /\ ~ Live(b) => ~ Live(b)'
              /\ attempts'[b].at = "moved" => attempts[b].at = "moved"
              /\ Live(b)' /\ ~ attempts'[b].aborted => Live(b) /\ ~ attempts[b].aborted
              /\ attempts[b].at \in InUse => attempts'[b].at \in InUse \/ b \in S
    <2> HIDE DEF S
    <2> QED BY <1>3, AbortsLive
  <1>5. ASSUME NEW id \in Ids PROVE KeepsRecord(id)
    <2>1. id # me => records'[id] = records[id]
      BY RetryResets
    <2> QED
      BY <1>2, <1>4, <2>1 DEF KeepsRecord, Known
  <1>6. TempsAreInUse'
    <2> SUFFICES ASSUME NEW t \in Names \X Ids, temps'[t] # None, Alone(t[2])'
                 PROVE  attempts'[temps'[t]].at \in InUse
      BY DEF TempsAreInUse
    <2> DEFINE b == temps[t]
    <2>1. b # None /\ temps'[t] = b
      BY <1>1
    <2>2. t[2] \in Ids /\ t[2] # me /\ Alone(t[2])
      BY <1>2, <1>4, SoleStays DEF Alone
    <2>3. b \in Made /\ Temp(b) = t /\ attempts[b].at \in InUse
      BY <1>1, <2>1, <2>2 DEF AloneInv, TempsAreInUse, TempsAreOwn
    <2>4. b # current[me]
      BY <1>1, <2>2, <2>3, AttemptFacts, MadeFacts DEF HeldInv
    <2> QED
      BY <1>4, <2>1, <2>3, <2>4
  <1>7. op'.kind = "retry"
    BY <1>1
  <1>8. PlacedStays
    BY <1>1, <1>4, PlacedSame
  <1> QED
    BY <1>1, <1>4, <1>5, <1>6, <1>7, <1>8, KeepsAlone

(* Shutdown finds the temporary files of the attempts it aborts through    *)
(* their records.                                                          *)
LEMMA ShutdownAlone ==
    ASSUME TypesInv, HeldInv, WorkInv, AloneInv, Shutdown,
           FoundStays
    PROVE  AloneInv'
  <1> DEFINE S == {current[id] : id \in Ids}
             Cleared(t) == /\ Known(t[2]) /\ records[t[2]].status \notin Terminal
                           /\ records[t[2]].path = t[1]
  <1>1. /\ TypeOK /\ TempsAreOwn /\ op = None /\ op' = None /\ staged' = None /\ ~ closed
        /\ attempts' = Aborting(S) /\ files' = files
        /\ \A t \in Names \X Ids : temps'[t] = IF Cleared(t) THEN None ELSE temps[t]
        /\ \A id \in Ids : records'[id] = None
        /\ temps \in [Names \X Ids -> Made \union {None}]
    BY DEF Shutdown, Idle, TypesInv, TypeOK
  <1>2. \A id \in Ids : ~ RetryingOf(id)
    BY <1>1 DEF RetryingOf
  <1>3. /\ SameAttempts
        /\ \A b \in Made :
              /\ ~ Live(b) => ~ Live(b)'
              /\ attempts'[b].at = "moved" => attempts[b].at = "moved"
              /\ attempts[b].at \in InUse =>
                    \/ attempts'[b].at \in InUse
                    \/ attempts[b].at = "receiving" /\ ~ attempts[b].aborted
    <2> HIDE DEF S
    <2> QED BY <1>1, AbortsLive
  <1>4. \A id \in Ids : KeepsRecord(id)
    BY <1>1, <1>2 DEF KeepsRecord
  <1>5. TempsAreInUse'
    <2> SUFFICES ASSUME NEW t \in Names \X Ids, temps'[t] # None, Alone(t[2])'
                 PROVE  attempts'[temps'[t]].at \in InUse
      BY DEF TempsAreInUse
    <2> DEFINE b == temps[t]
    <2>1. ~ Cleared(t) /\ temps'[t] = b /\ b # None
      BY <1>1
    <2>2. t[2] \in Ids /\ Alone(t[2])
      BY <1>2, <1>3, SoleStays DEF Alone
    <2>3. b \in Made /\ Temp(b) = t /\ attempts[b].at \in InUse
      BY <1>1, <2>1, <2>2 DEF AloneInv, TempsAreInUse, TempsAreOwn
    <2>4. attempts[b].id = t[2] /\ attempts[b].target = t[1]
      BY <1>1, <2>3, AttemptFacts
    <2>5. ASSUME attempts[b].at = "receiving", ~ attempts[b].aborted PROVE Cleared(t)
      <3>1. Known(t[2]) /\ Live(b)
        BY <1>1, <2>3, <2>4, <2>5 DEF HeldInv, Live
      <3>2. records[t[2]].status \notin Terminal
        BY <2>2, <2>3, <2>4, <2>5, <3>1 DEF AloneInv, WorkIsOpen
      <3>3. records[t[2]].path = t[1]
        BY <2>2, <2>3, <2>4, <3>1 DEF AloneInv, RecordsAim, Aims
      <3> QED
        BY <3>1, <3>2, <3>3
    <2> QED
      BY <1>3, <2>1, <2>3, <2>5
  <1>6. PlacedStays
    BY <1>1, <1>3, PlacedSame
  <1> QED
    BY <1>1, <1>3, <1>4, <1>5, <1>6, KeepsAlone

(* A confirmed deletion is recorded, or another download was made.         *)
LEMMA ConfirmPlaced ==
    ASSUME TypesInv, HeldInv, WorkInv, AloneInv, ConfirmDelete, files' # files
    PROVE  PlacedStays
  <1> SUFFICES ASSUME NEW a \in Made, Placed(a)
               PROVE  \/ Placed(a)'
                      \/ ~ Live(a) /\ records'[attempts[a].id].deleted
    BY DEF PlacedStays
  <1> DEFINE id == staged.id
  <1>1. /\ TypeOK /\ op = None /\ id \in Ids /\ Known(id) /\ records[id].status = "completed"
        /\ attempts' = attempts /\ records' = [records EXCEPT ![id].deleted = TRUE]
        /\ records[id] \in Records /\ records \in [Ids -> Records \union {None}]
        /\ current \in [Ids -> Made \union {None}]
    BY OpFacts, NoneIsNothing DEF ConfirmDelete, Idle, TypesInv, TypeOK, Known
  <1>2. Made' = Made
    BY <1>1 DEF Made
  <1>3. current[id] \in Made /\ attempts[current[id]].id = id
    BY <1>1 DEF WorkInv, HeldInv
  <1>4. CASE \E b \in Made : b # a
    BY <1>2, <1>4 DEF Placed
  <1>5. CASE \A b \in Made : b = a
    <2>1. attempts[a].id = id /\ Alone(id)
      BY <1>1, <1>3, <1>5 DEF Alone, Sole, RetryingOf
    <2>2. ~ Live(a)
      BY <1>1, <2>1 DEF AloneInv, CompletedIsOurs
    <2>3. records'[id].deleted
      <3>1. [records[id] EXCEPT !.deleted = TRUE].deleted
        BY <1>1 DEF Records
      <3> QED
        BY <1>1, <3>1
    <2> QED
      BY <2>1, <2>2, <2>3
  <1> QED
    BY <1>4, <1>5

LEMMA OtherAlone ==
    ASSUME TypesInv, HeldInv, WorkInv, AloneInv,
           FoundStays,
           \/ \E id \in Ids : \/ CancelBegin(id) \/ StageDelete(id)
                             \/ \E answer \in {"overwrite", "keep"} : Resolve(id, answer)
           \/ ConfirmDelete \/ PollDownloads
    PROVE  AloneInv'
  <1>1. /\ TypeOK /\ op = None /\ temps' = temps
        /\ temps \in [Names \X Ids -> Made \union {None}]
    BY DEF CancelBegin, StageDelete, Resolve, ConfirmDelete, PollDownloads, Idle, disk,
           TypesInv, TypeOK
  <1>2. /\ SameAttempts
        /\ \A b \in Made : /\ attempts'[b].at = attempts[b].at
                           /\ attempts'[b].aborted = attempts[b].aborted
    BY <1>1, Resolves, Unchanged
    DEF CancelBegin, StageDelete, ConfirmDelete, PollDownloads
  <1>3. /\ \/ op' = None
           \/ op'.kind = "cancel" /\ op'.id \in Ids /\ Known(op'.id)
              /\ op'.path = records[op'.id].path
        /\ \/ staged' \in {None, staged}
           \/ staged'.id \in Ids /\ Known(staged'.id) /\ staged'.path = records[staged'.id].path
    <2>1. ASSUME NEW id \in Ids, CancelBegin(id)
          PROVE  /\ op'.kind = "cancel" /\ op'.id = id /\ Known(id)
                 /\ op'.path = records[id].path /\ staged' = staged
      BY <2>1 DEF CancelBegin
    <2>2. ASSUME NEW id \in Ids, StageDelete(id)
          PROVE  /\ staged'.id = id /\ Known(id) /\ staged'.path = records[id].path
                 /\ op' = op
      BY <2>2 DEF StageDelete
    <2>3. ASSUME NEW id \in Ids, NEW answer \in {"overwrite", "keep"}, Resolve(id, answer)
          PROVE  op' = op /\ staged' = None
      BY <2>3 DEF Resolve
    <2>4. ASSUME ConfirmDelete \/ PollDownloads PROVE op' = op /\ staged' = None
      BY <2>4 DEF ConfirmDelete, PollDownloads
    <2> QED
      BY <1>1, <2>1, <2>2, <2>3, <2>4
  <1>5. \A id \in Ids : ~ RetryingOf(id) /\ ~ RetryingOf(id)'
    BY <1>1, <1>3 DEF RetryingOf
  <1>6. ASSUME NEW id \in Ids PROVE KeepsRecord(id)
    <2>1. records'[id] # None => /\ Known(id)
                                 /\ records[id].deleted => records'[id].deleted
                                 /\ records'[id].path = records[id].path
                                 /\ records'[id].status = records[id].status
      <3>1. CASE records' = records
        BY <3>1 DEF Known
      <3>2. CASE ConfirmDelete /\ records' = [records EXCEPT ![staged.id].deleted = TRUE]
        <4>1. staged.id \in Ids /\ records[staged.id] \in Records /\ records[staged.id] # None
              /\ records \in [Ids -> Records \union {None}]
          BY <1>1, <3>2, OpFacts DEF ConfirmDelete, TypeOK
        <4>2. /\ [records[staged.id] EXCEPT !.deleted = TRUE].status = records[staged.id].status
              /\ [records[staged.id] EXCEPT !.deleted = TRUE].deleted
              /\ [records[staged.id] EXCEPT !.deleted = TRUE].path = records[staged.id].path
          BY <4>1 DEF Records
        <4> QED
          BY <3>2, <4>1, <4>2 DEF Known
      <3> QED
        BY <3>1, <3>2 DEF CancelBegin, StageDelete, Resolve, ConfirmDelete, PollDownloads
    <2> QED
      BY <1>2, <1>5, <2>1 DEF KeepsRecord, Live
  <1>7. TempsAreInUse'
    <2> SUFFICES ASSUME NEW t \in Names \X Ids, temps'[t] # None, Alone(t[2])'
                 PROVE  attempts'[temps'[t]].at \in InUse
      BY DEF TempsAreInUse
    <2>1. Alone(t[2])
      BY <1>2, <1>5, SoleStays DEF Alone
    <2>2. temps[t] \in Made /\ attempts[temps[t]].at \in InUse
      BY <1>1, <2>1 DEF AloneInv, TempsAreInUse
    <2> QED
      BY <1>1, <1>2, <2>2
  <1>8. PlacedStays
    <2>1. CASE files' = files
      BY <1>2, <2>1, PlacedSame
    <2>2. CASE files' # files
      BY <1>1, <1>2, <2>2, ConfirmPlaced DEF CancelBegin, StageDelete, Resolve, ConfirmDelete,
                                             PollDownloads, disk
    <2> QED
      BY <2>1, <2>2
  <1> QED
    BY <1>1, <1>2, <1>3, <1>6, <1>7, <1>8, KeepsAlone DEF Live

(* What the user makes is where no file was.                               *)
LEMMA UserSavesAlone ==
    ASSUME TypesInv, WorkInv, AloneInv, FoundStays, NEW f \in UserFiles, NEW n \in Names,
           UserSaves(f, n)
    PROVE  AloneInv'
  <1>1. /\ TypeOK /\ attempts' = attempts /\ records' = records /\ temps' = temps
        /\ op' = op /\ staged' = staged /\ files[n] = Absent
        /\ files' = [files EXCEPT ![n] = f]
        /\ temps \in [Names \X Ids -> Made \union {None}]
        /\ files \in [Names -> Made \union UserFiles \union {Absent}]
    BY DEF UserSaves, history, app, TypesInv, TypeOK
  <1>2. SameAttempts
    BY <1>1, Unchanged
  <1>3. \A id \in Ids : KeepsRecord(id)
    BY <1>1 DEF KeepsRecord, RetryingOf, Known, Live
  <1>4. PlacedStays
    <2>1. \A m \in Names : files[m] \in Made => files'[m] \in Made
      BY <1>1, MadeFacts
    <2> QED
      BY <1>2, <2>1, PlacedSame
  <1>5. TempsAreInUse'
    BY <1>1 DEF AloneInv, TempsAreInUse, Alone, Sole, RetryingOf, Made
  <1>6. \A b \in Made : Live(b)' = Live(b)
    BY <1>1 DEF Live
  <1> QED
    BY <1>1, <1>2, <1>3, <1>4, <1>5, <1>6, KeepsAlone

(* A new attempt is the only one of its download, or ends its being alone. *)
LEMMA SpawnAlone ==
    ASSUME TypesInv, WorkInv, AloneInv, NEW me \in Ids, NEW policy \in Policies,
           Spawn(me, policy), files' = files, since' = since, op' = None,
           staged' = None \/ (staged' = staged /\ staged.id # me),
           \A id \in Ids : id # me => records'[id] = records[id] /\ ~ RetryingOf(id),
           \A t \in Names \X Ids : temps'[t] \in {temps[t], None},
           \/ \E a \in Made : attempts[a].id = me
           \/ /\ records'[me].path = TargetFor(policy)
              /\ records'[me].status \in {"prompting", "pending"}
    PROVE  AloneInv'
  <1>1. /\ TypeOK /\ FilesAreOwn /\ TempsAreOwn
        /\ temps \in [Names \X Ids -> Made \union {None}]
    BY DEF TypesInv, TypeOK
  <1>2. /\ Made' = Made \union {Newest} /\ Newest \notin Made
        /\ \A b \in Made : attempts'[b] = attempts[b]
        /\ attempts'[Newest] = NewAttempt(me, policy)
    BY <1>1, Spawns
  <1>3. /\ attempts'[Newest].id = me /\ attempts'[Newest].target = TargetFor(policy)
    BY <1>2 DEF NewAttempt
  <1>4. \A id \in Ids : ~ RetryingOf(id)'
    BY DEF RetryingOf
  <1>5. \A id \in Ids : id # me /\ Sole(id)' => Sole(id) /\ Alone(id)
    BY <1>2 DEF Sole, Alone
  <1>6. ASSUME Sole(me)'
        PROVE  /\ \A a \in Made : attempts[a].id # me
               /\ records'[me].path = TargetFor(policy)
               /\ records'[me].status \in {"prompting", "pending"}
    <2>1. \A a \in Made : attempts[a].id # me
      <3> SUFFICES ASSUME NEW a \in Made, attempts[a].id = me PROVE FALSE
        OBVIOUS
      <3>1. a \in Made' /\ Newest \in Made' /\ attempts'[a].id = me /\ a # Newest
        BY <1>2
      <3> QED
        BY <1>3, <1>6, <3>1 DEF Sole
    <2> QED
      BY <2>1
  <1>8. RecordsAim'
    <2> SUFFICES ASSUME NEW id \in Ids, records'[id] # None, Sole(id)'
                 PROVE  Aims(id, records[id].path)'
      BY DEF RecordsAim, Known, Alone
    <2>1. CASE id = me
      BY <1>2, <1>3, <1>6, <2>1 DEF Aims
    <2>2. CASE id # me
      <3>1. Aims(id, records[id].path) /\ records'[id] = records[id]
        BY <1>5, <2>2 DEF AloneInv, RecordsAim, Known
      <3> QED
        BY <1>2, <1>3, <2>2, <3>1 DEF Aims
    <2> QED
      BY <2>1, <2>2
  <1>9. StagedAims'
    <2> SUFFICES ASSUME (staged # None)', Sole(staged.id)' PROVE Aims(staged.id, staged.path)'
      BY DEF StagedAims
    <2>1. staged' = staged /\ staged # None /\ staged.id # me /\ staged.id \in Ids
      BY OpFacts
    <2>2. Sole(staged.id)
      BY <1>2, <2>1 DEF Sole
    <2>3. Aims(staged.id, staged.path)
      BY <2>1, <2>2 DEF AloneInv, StagedAims
    <2> QED
      BY <1>2, <1>3, <2>1, <2>3 DEF Aims
  <1>10. WorkIsOpen'
    <2> SUFFICES ASSUME NEW id \in Ids, records'[id] # None, Sole(id)',
                        NEW a \in Made', attempts'[a].id = id, Live(a)', ~ attempts'[a].aborted
                 PROVE  records'[id].status \notin Terminal
      BY DEF WorkIsOpen, Known, Alone
    <2>1. CASE id = me
      BY <1>6, <2>1 DEF Terminal
    <2>2. CASE id # me
      <3>1. a \in Made /\ attempts'[a] = attempts[a] /\ records'[id] = records[id]
        BY <1>2, <1>3, <2>2
      <3> QED
        BY <1>5, <2>2, <3>1 DEF AloneInv, WorkIsOpen, Known, Live
    <2> QED
      BY <2>1, <2>2
  <1>11. TempsAreInUse'
    <2> SUFFICES ASSUME NEW t \in Names \X Ids, temps'[t] # None, Sole(t[2])'
                 PROVE  attempts'[temps'[t]].at \in InUse
      BY DEF TempsAreInUse, Alone
    <2>1. /\ temps'[t] = temps[t] /\ temps[t] \in Made /\ Temp(temps[t]) = t
          /\ attempts[temps[t]].id = t[2]
      BY <1>1, AttemptFacts DEF TempsAreOwn
    <2>2. t[2] \in Ids /\ t[2] # me
      BY <1>6, <2>1
    <2>3. attempts[temps[t]].at \in InUse
      BY <1>5, <2>1, <2>2 DEF AloneInv, TempsAreInUse
    <2> QED
      BY <1>2, <2>1, <2>3
  <1>12. CompletedIsOurs'
    <2> SUFFICES ASSUME NEW id \in Ids, NEW a \in Made', records'[id] # None, Sole(id)',
                        records'[id].status = "completed", attempts'[a].id = id
                 PROVE  /\ ~ Live(a)'
                        /\ ~ Found(a, attempts[a].target)'
                        /\ records'[id].deleted \/ Placed(a)'
      BY DEF CompletedIsOurs, Known, Alone
    <2>1. id # me
      BY <1>6
    <2>2. a \in Made /\ attempts'[a] = attempts[a]
      BY <1>2, <1>3, <2>1
    <2>3. /\ ~ Live(a) /\ ~ Found(a, attempts[a].target)
          /\ records[id].deleted \/ Placed(a)
      BY <1>5, <2>1, <2>2 DEF AloneInv, CompletedIsOurs, Known
    <2> QED
      BY <1>2, <2>1, <2>2, <2>3 DEF Live, Found, Placed
  <1>13. CancelAims'
    BY DEF CancelAims
  <1>14. MovedIsPlaced'
    <2> SUFFICES ASSUME NEW a \in Made', attempts'[a].at = "moved" PROVE Placed(a)'
      BY DEF MovedIsPlaced
    <2>1. a \in Made
      BY <1>2 DEF NewAttempt
    <2>2. Placed(a)
      BY <1>2, <2>1 DEF AloneInv, MovedIsPlaced
    <2> QED
      BY <1>2, <2>1, <2>2 DEF Placed
  <1> QED
    BY <1>8, <1>9, <1>10, <1>11, <1>12, <1>13, <1>14 DEF AloneInv

LEMMA StartAlone ==
    ASSUME TypesInv, WorkInv, AloneInv, NEW me \in Ids, NEW policy \in Policies,
           Start(me, policy)
    PROVE  AloneInv'
  <1>1. /\ Spawn(me, policy) /\ files' = files /\ since' = since /\ temps' = temps
        /\ op = None /\ op' = None
        /\ staged' \in {None, staged} /\ records[me] = None
        /\ records' = [records EXCEPT ![me] =
              [status |-> IF NeedsPrompt(policy) THEN "prompting" ELSE "pending",
               path |-> TargetFor(policy), deleted |-> FALSE]]
        /\ records \in [Ids -> Records \union {None}]
    BY DEF Start, Idle, Known, disk, TypesInv, TypeOK
  <1>2. staged # None => staged.id # me
    BY <1>1, OpFacts
  <1>3. \A id \in Ids : ~ RetryingOf(id)
    BY <1>1 DEF RetryingOf
  <1>4. /\ records'[me].path = TargetFor(policy)
        /\ records'[me].status \in {"prompting", "pending"}
        /\ \A id \in Ids : id # me => records'[id] = records[id]
    BY <1>1
  <1> QED
    BY <1>1, <1>2, <1>3, <1>4, SpawnAlone

LEMMA RetryEndAlone ==
    ASSUME TypesInv, HeldInv, WorkInv, AloneInv, RetryEnd
    PROVE  AloneInv'
  <1> DEFINE me == op.id
             policy == requests[me]
  <1>1. /\ me \in Ids /\ policy \in Policies /\ Spawn(me, policy)
        /\ files' = files /\ since' = since
        /\ op # None /\ op' = None /\ staged' = None
        /\ records' \in {records, Transition(records, me, "prompting")}
        /\ temps' = [temps EXCEPT ![<<op.path, me>>] = None,
                                  ![<<TargetFor(policy), me>>] = None]
        /\ Known(me)
    BY OpFacts DEF RetryEnd, TypesInv, OpIsOpen
  <1>2. /\ TypeOK /\ records \in [Ids -> Records \union {None}] /\ "prompting" \in Statuses
        /\ temps \in [Names \X Ids -> Made \union {None}]
    BY DEF TypesInv, TypeOK, Statuses
  <1>3. \A id \in Ids : id # me => ~ RetryingOf(id)
    BY DEF RetryingOf
  <1> HIDE DEF me, policy
  <1>4. \A id \in Ids : id # me => records'[id] = records[id]
    BY <1>1, <1>2, Transits
  <1>5. \A t \in Names \X Ids : temps'[t] \in {temps[t], None}
    BY <1>1, <1>2
  <1>6. current[me] \in Made /\ attempts[current[me]].id = me
    BY <1>1, <1>2 DEF WorkInv, HeldInv, TypeOK
  <1> QED
    BY <1>1, <1>3, <1>4, <1>5, <1>6, SpawnAlone

LEMMA NextAlone == TypesInv /\ HeldInv /\ WorkInv /\ AloneInv /\ [Next]_vars => AloneInv'
  <1> SUFFICES ASSUME TypesInv, HeldInv, WorkInv, AloneInv, [Next]_vars PROVE AloneInv'
    OBVIOUS
  <1>1. FoundStays
    BY NextFound
  <1>2. ASSUME NEW a \in Made, AttemptStep(a) PROVE AloneInv'
    <2>1. GoesOn(a)
      BY <1>2, AttemptEffect DEF TypesInv
    <2> QED
      BY <1>1, <2>1, AttemptAlone
  <1>3. CASE UNCHANGED vars
    BY <1>3 DEF vars, AloneInv, RecordsAim, CancelAims, StagedAims, WorkIsOpen, TempsAreInUse,
                MovedIsPlaced, CompletedIsOurs, Known, Made, Alone, Sole, Aims, RetryingOf, Live,
                Placed, Found
  <1>4. ASSUME NEW f \in UserFiles, NEW n \in Names, UserSaves(f, n) PROVE AloneInv'
    BY <1>1, <1>4, UserSavesAlone
  <1> QED
    BY <1>1, <1>2, <1>3, <1>4, StartAlone, RetryEndAlone, CancelEndAlone, RetryBeginAlone,
       ShutdownAlone, OtherAlone
    DEF Next, AppStep

(* One attempt is a set with one element.                                  *)
LEMMA OnceIsSole ==
    ASSUME TypeOK, NEW id, Once(id)
    PROVE  Sole(id) /\ \E a \in Made : attempts[a].id = id
  <1> DEFINE S == {a \in Made : attempts[a].id = id}
  <1>1. Cardinality(S) = 1
    BY DEF Once
  <1>2. \E a : S = {a}
    <2>1. IsFiniteSet(S)
      <3>1. IsFiniteSet(Made)
        BY MadeIsFinite
      <3> QED
        BY <3>1, FS_Subset
    <2> HIDE DEF S
    <2> QED BY <1>1, <2>1, FS_Singleton
  <1> QED
    BY <1>2 DEF Sole

-----------------------------------------------------------------------------
(* A deletion is staged of a file that is not recorded as deleted.         *)
StagedInv == staged # None => ~ records[staged.id].deleted

LEMMA NextStaged == TypesInv /\ StagedInv /\ [Next]_vars => StagedInv'
  <1> SUFFICES ASSUME TypesInv, StagedInv, [Next]_vars, staged' # None
               PROVE  ~ records'[staged'.id].deleted
    BY DEF StagedInv
  <1>1. /\ TypeOK /\ records \in [Ids -> Records \union {None}]
        /\ staged # None => /\ staged.id \in Ids /\ records[staged.id] \in Records
                            /\ records[staged.id] # None /\ ~ records[staged.id].deleted
    BY OpFacts, NoneIsNothing DEF TypesInv, TypeOK, StagedInv
  <1>2. ASSUME NEW a \in Made, AttemptStep(a) PROVE ~ records'[staged'.id].deleted
    <2>1. RecordGoesOn(a) /\ staged' = staged
      BY <1>1, <1>2, AttemptEffect DEF GoesOn, app
    <2> QED
      BY <1>1, <2>1 DEF RecordGoesOn, Known
  <1>3. ASSUME NEW id \in Ids, NEW policy \in Policies, Start(id, policy)
        PROVE  ~ records'[staged'.id].deleted
    <2>1. /\ staged' = staged /\ records[id] = None
          /\ \A j \in Ids : j # id => records'[j] = records[j]
      BY <1>1, <1>3 DEF Start, Known
    <2> QED
      BY <1>1, <2>1
  <1>4. ASSUME NEW id \in Ids, RetryBegin(id) PROVE ~ records'[staged'.id].deleted
    <2> DEFINE record == [records[id] EXCEPT !.status = "pending", !.path = 0, !.deleted = FALSE]
    <2>1. /\ staged' = staged /\ records[id] \in Records
          /\ records' = [records EXCEPT ![id] = record]
      BY <1>1, <1>4 DEF RetryBegin, Known
    <2>2. ~ record.deleted
      BY <2>1 DEF Records
    <2> HIDE DEF record
    <2> QED
      BY <1>1, <2>1, <2>2
  <1>5. ASSUME NEW id \in Ids, StageDelete(id) PROVE ~ records'[staged'.id].deleted
    BY <1>5 DEF StageDelete
  <1>6. CASE \/ \E id \in Ids : CancelBegin(id)
             \/ UNCHANGED vars
             \/ \E f \in UserFiles, n \in Names : UserSaves(f, n)
    BY <1>1, <1>6 DEF CancelBegin, UserSaves, history, app, vars
  <1> QED
    BY <1>2, <1>3, <1>4, <1>5, <1>6
    DEF Next, AppStep, Resolve, CancelEnd, RetryEnd, ConfirmDelete, PollDownloads, Shutdown

-----------------------------------------------------------------------------
(* The invariant.                                                          *)
IndInv ==
    /\ TypesInv /\ HeldInv /\ PromptInv /\ ConsentInv /\ WorkInv
    /\ AloneInv /\ StagedInv

LEMMA Invariance == Spec => []IndInv
  <1>1. Init => IndInv
    BY InitTypes, InitHeld, InitPrompts, InitConsent, InitWork, InitAlone
    DEF IndInv, Init, StagedInv
  <1>2. IndInv /\ [Next]_vars => IndInv'
    BY NextTypes, NextHeld, NextPrompts, NextConsent, NextWork, NextAlone, NextStaged DEF IndInv
  <1> QED
    BY <1>1, <1>2, PTL DEF Spec

(* The records, handles, prompts, attempts, files and events are what the  *)
(* types of the code say they are, and a file or a temporary file is one   *)
(* of an attempt.                                                          *)
THEOREM TypeCorrect == Spec => []TypeOK
  <1>1. IndInv => TypeOK
    BY DEF IndInv, TypesInv
  <1> QED
    BY <1>1, Invariance, PTL

(* No attempt escapes: each that is at work was aborted, or the manager    *)
(* still has the handle and the flag to stop it (spawn_task, cancel, retry *)
(* and shutdown in src/src/media/download.rs).                             *)
THEOREM AttemptsAreHeld == Spec => []EveryAttemptIsHeld
  <1>1. IndInv => EveryAttemptIsHeld
    BY DEF IndInv, HeldInv
  <1> QED
    BY <1>1, Invariance, PTL

(* A record that asks always has an attempt that waits for the answer, or  *)
(* that was given it (start, retry, resolve_collision).                    *)
THEOREM PromptsHaveTheirAttempt == Spec => []PromptsAreAnswerable
  <1>1. IndInv => PromptsAreAnswerable
    BY DEF IndInv, PromptInv, Prompting, Answerable, PromptsAreAnswerable, Live
  <1> QED
    BY <1>1, Invariance, PTL

(* Whatever is put in place of a file that the user, or another program,   *)
(* made before the attempt is put there by an attempt that was told to     *)
(* overwrite, or whose request was made with that policy (start, retry,    *)
(* resolve_collision, run_download).  Files made later are not safe: the   *)
(* rename does not look again.                                             *)
THEOREM ReplacementIsAgreed == Spec => FoundFilesAreSafe
  <1>1. IndInv /\ [Next]_vars =>
            [\A n \in Names : files[n] \in UserFiles /\ files'[n] \in Attempts =>
                \E a \in Made : Moves(a, n) /\ (since[files[n]] < a => Agreed(a))]_vars
    BY NextReplaces DEF IndInv
  <1> QED
    BY <1>1, Invariance, PTL DEF Spec, FoundFilesAreSafe

(* When every attempt has ended and no operation is under way, a download  *)
(* with one attempt has left no temporary file, whether it ended by        *)
(* itself, was cancelled or was shut down (cancel, shutdown and the clean- *)
(* up in run_download).                                                    *)
THEOREM TempsAreNotLeft == Spec => []TempsAreCleaned
  <1>1. IndInv => TempsAreCleaned
    <2> SUFFICES ASSUME IndInv, op = None, \A a \in Made : ~ Live(a),
                        NEW t \in DOMAIN temps, Once(t[2]), temps[t] # None
                 PROVE  FALSE
      BY DEF TempsAreCleaned
    <2>1. /\ TypeOK /\ t \in Names \X Ids /\ temps[t] \in Made
          /\ TempsAreInUse
      BY DEF IndInv, TypesInv, TypeOK, AloneInv
    <2>2. Alone(t[2])
      BY <2>1, OnceIsSole DEF Alone, RetryingOf
    <2>3. attempts[temps[t]].at \in InUse
      BY <2>1, <2>2 DEF TempsAreInUse
    <2> QED
      BY <2>1, <2>3 DEF Live, InUse
  <1> QED
    BY <1>1, Invariance, PTL

(* The step that removes a file of the user is a confirmed deletion of a   *)
(* download that was retried, or that had moved its file before that of    *)
(* the user came, where another download was made.                         *)
LEMMA NextDeletes ==
    ASSUME IndInv, [Next]_vars, NEW n \in Names, files[n] \in UserFiles, files'[n] = Absent
    PROVE  /\ staged # None
           /\ Once(staged.id) =>
                 \E a, b \in Made :
                     /\ attempts[a].id = staged.id /\ since[files[n]] >= a
                     /\ attempts[b].id # staged.id
  <1>1. /\ TypeOK /\ FilesAreOwn /\ Absent \notin UserFiles /\ Absent \notin Made
        /\ UserFiles \intersect Made = {}
        /\ files \in [Names -> Made \union UserFiles \union {Absent}]
    BY MadeFacts DEF IndInv, TypesInv, TypeOK
  <1>2. ConfirmDelete /\ files' # files
    <2>1. ASSUME NEW a \in Made, AttemptStep(a) PROVE FALSE
      <3>1. PlaceGoesOn(a) /\ DiskGoesOn(a)
        BY <1>1, <2>1, AttemptEffect DEF GoesOn
      <3>2. /\ files' = [files EXCEPT ![attempts[a].target] = temps[Temp(a)]]
            /\ temps[Temp(a)] # None
        BY <1>1, <3>1 DEF PlaceGoesOn, DiskGoesOn
      <3>3. temps[Temp(a)] \in Made
        BY <1>1, <3>2, AttemptFacts DEF TypeOK
      <3> QED
        BY <1>1, <3>2, <3>3
    <2>2. ASSUME NEW f \in UserFiles, NEW m \in Names, UserSaves(f, m) PROVE FALSE
      BY <1>1, <2>2 DEF UserSaves
    <2> QED
      BY <1>1, <2>1, <2>2
      DEF Next, AppStep, Start, CancelBegin, RetryBegin, StageDelete, Resolve, CancelEnd,
          RetryEnd, PollDownloads, Shutdown, disk, vars
  <1>3. /\ op = None /\ staged # None /\ records[staged.id].status = "completed"
        /\ files' = [files EXCEPT ![staged.path] = Absent]
    BY <1>2 DEF ConfirmDelete, Idle
  <1>4. staged.path = n /\ staged.id \in Ids /\ Known(staged.id)
    BY <1>1, <1>3, OpFacts, NoneIsNothing DEF IndInv, Known
  <1>5. ASSUME Once(staged.id)
        PROVE  \E a, b \in Made :
                   /\ attempts[a].id = staged.id /\ since[files[n]] >= a
                   /\ attempts[b].id # staged.id
    <2>1. Sole(staged.id) /\ Alone(staged.id)
      BY <1>1, <1>3, <1>5, OnceIsSole DEF Alone, RetryingOf
    <2>2. PICK a \in Made : attempts[a].id = staged.id
      BY <1>1, <1>5, OnceIsSole
    <2>3. attempts[a].target = n
      BY <1>3, <1>4, <2>1, <2>2 DEF IndInv, AloneInv, StagedAims, Aims
    <2>4. ~ Found(a, n) /\ Placed(a)
      BY <1>3, <1>4, <2>1, <2>2, <2>3 DEF IndInv, AloneInv, CompletedIsOurs, StagedInv
    <2>5. since[files[n]] >= a
      <3>1. since[files[n]] \in 0 .. Len(attempts) /\ a \in Nat
        BY <1>1, MadeFacts DEF TypeOK, FilesAreOwn
      <3> QED
        BY <2>4, <3>1, MadeFacts DEF Found
    <2>6. PICK b \in Made : b # a
      BY <1>1, <2>3, <2>4 DEF Placed
    <2>7. attempts[b].id # staged.id
      BY <2>1, <2>2, <2>6 DEF Sole
    <2> QED
      BY <2>2, <2>5, <2>7
  <1> QED
    BY <1>3, <1>5

(* A confirmed deletion of a download with one attempt does not remove a   *)
(* file of the user that was there before the attempt, nor, when no other  *)
(* download was made, one that came later (downloads_command and           *)
(* confirm_pending in src/src/app/mod.rs).                                 *)
THEOREM DeletionsSpareTheUser == Spec => UserFilesAreKept
  <1>1. IndInv /\ [Next]_vars =>
            [\A n \in Names :
                files[n] \in UserFiles /\ files'[n] = Absent =>
                    /\ staged # None
                    /\ Once(staged.id) =>
                          \E a, b \in Made :
                              /\ attempts[a].id = staged.id /\ since[files[n]] >= a
                              /\ attempts[b].id # staged.id]_vars
    BY NextDeletes
  <1> QED
    BY <1>1, Invariance, PTL DEF Spec, UserFilesAreKept
=============================================================================
