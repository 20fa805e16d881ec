------------------------ MODULE ProjectStore_proofs ------------------------
(***************************************************************************)
(* What holds of the project on disk for any number of edits.  The files   *)
(* do not say by themselves that they only get newer: SaveInv relates them *)
(* to the scene, to what the running save generated and to the temporary   *)
(* file, at every step of a save.  That holds for one save at a time, and  *)
(* on it rests the refinement of ProjectFile; of saves that overlap it is  *)
(* shown what they can damage, and by what only.                           *)
(***************************************************************************)
EXTENDS ProjectStore, TLAPS

LEMMA TypeStep == TypeOK /\ [Next]_vars => TypeOK'
<1> SUFFICES ASSUME TypeOK, [Next]_vars PROVE TypeOK'
  OBVIOUS
<1> USE EditsAssumption, FileAssumption DEF TypeOK, Projects, Places, Writing, Editors,
   Savers, Contents
<1>1. ASSUME Load PROVE TypeOK'
  <2>1. json' \in Contents /\ bak' \in Contents
    BY <1>1 DEF Load
  <2>2. scene' \in 0 .. edits
    BY <1>1, <2>1 DEF Load, Valid
  <2> QED BY <1>1, <2>1, <2>2 DEF Load
<1>2. ASSUME Crash \/ ShutdownProcess PROVE TypeOK'
  BY <1>2 DEF Crash, ShutdownProcess, Terminate
<1>3. ASSUME NEW s \in Editors, EditScene(s) PROVE TypeOK'
  <2>1. edits' \in Projects /\ edits < edits'
    BY <1>3 DEF EditScene
  <2> QED BY <1>3, <2>1 DEF EditScene
<1>4. ASSUME OnRemoteDisconnect PROVE TypeOK'
  BY <1>4 DEF OnRemoteDisconnect, Go
<1>5. ASSUME NEW s \in Savers, SaveProject(s) PROVE TypeOK'
  <2>1. ASSUME SaveProjectEarly(s) \/ GenerateSaveData(s) \/ OpenFails(s) PROVE TypeOK'
    BY <1>5, <2>1 DEF SaveProjectEarly, GenerateSaveData, OpenFails, Go, Done
  <2>2. ASSUME OpenTmp(s) PROVE TypeOK'
    <3>1. saver[s] = "open" /\ saver' = [saver EXCEPT ![s] = "write"]
      BY <2>2 DEF OpenTmp, Go
    <3>2. saver' \in [Savers -> Places] /\ saver'[s] = "write"
      BY <1>5, <3>1
    <3>3. data[s] \in 0 .. edits /\ mix' = mix \cup {data[s]}
      BY <1>5, <2>2 DEF OpenTmp
    <3>4. mix' \subseteq 0 .. edits /\ (mix' = {} <=> \A t \in Savers : ~Writing(t)')
      BY <1>5, <3>2, <3>3
    <3>5. mixed' \in BOOLEAN /\ tmp' \in Contents
      BY <2>2 DEF OpenTmp, UsedByOthers
    <3>6. UNCHANGED <<is_initialize_, edits, scene, overlapped>>
      BY <2>2 DEF OpenTmp, Go
    <3>7. UNCHANGED <<data, json, bak, saved, ignored>>
      BY <2>2 DEF OpenTmp
    <3> QED BY <3>2, <3>4, <3>5, <3>6, <3>7
  <2>3. ASSUME WriteTmp(s) PROVE TypeOK'
    BY <1>5, <2>3 DEF WriteTmp, Go, OthersWriting
  <2>4. ASSUME WriteFails(s) \/ FlushFails(s) PROVE TypeOK'
    BY <1>5, <2>4 DEF WriteFails, FlushFails, Go, OthersWriting, Done
  <2>5. ASSUME BackUp(s) \/ ReplaceFails(s) PROVE TypeOK'
    BY <1>5, <2>5 DEF BackUp, ReplaceFails, Go, Done
  <2>6. ASSUME Move(s) \/ MoveFileEx(s) PROVE TypeOK'
    <3>1. saved' \in 0 .. edits
      BY <1>5, <2>6 DEF Move, MoveFileEx
    <3>2. saver' \in [Savers -> Places] /\ (mix = {} <=> \A t \in Savers : ~Writing(t)')
      BY <1>5, <2>6 DEF Move, MoveFileEx, Go, Done
    <3> QED BY <1>5, <2>6, <3>1, <3>2 DEF Move, MoveFileEx, Go
  <2> HIDE DEF TypeOK
  <2> QED BY <1>5, <2>1, <2>2, <2>3, <2>4, <2>5, <2>6 DEF SaveProject
<1>6. ASSUME UNCHANGED vars PROVE TypeOK'
  BY <1>6 DEF vars
<1> HIDE DEF TypeOK
<1> QED BY <1>1, <1>2, <1>3, <1>4, <1>5, <1>6 DEF Next

(* The files and the savers keep their types for any number of edits, and  *)
(* the temporary file is open exactly while some saver writes it.          *)
THEOREM TypeCorrect == Spec => []TypeOK
<1>1. Init => TypeOK
  <2> SUFFICES ASSUME Init PROVE TypeOK
    OBVIOUS
  <2>1. 0 \in Projects /\ 0 \in 0 .. edits
    BY EditsAssumption DEF Init, Projects
  <2>2. saver \in [Savers -> Places] /\ data \in [Savers -> 0 .. edits]
    BY <2>1 DEF Init, Places
  <2> QED BY <2>1, <2>2 DEF Init, TypeOK, Writing, Contents, Savers
<1> QED BY <1>1, TypeStep, PTL DEF Spec
-----------------------------------------------------------------------------
(* Saves that do not overlap.                                              *)
OneSaver == \A s, t \in Savers : Busy(s) /\ Busy(t) => s = t

(* The scene is not older than the files, what is being saved lies between *)
(* the two, and tmp holds it from the end of the write on.                 *)
Fresh ==
  /\ json # Torn /\ bak # Torn
  /\ saved <= Recoverable
  /\ is_initialize_ => Recoverable <= scene
  /\ \A s \in Savers : Busy(s) =>
       is_initialize_ /\ Recoverable <= data[s] /\ data[s] <= scene
  /\ \A s \in Savers : saver[s] = "write" => mix = {data[s]}
  /\ \A s \in Savers : saver[s] \in {"replace", "move"} => tmp = data[s]

SaveInv == overlapped \/ (OneSaver /\ (Fresh \/ ignored))

NotOlder == Recoverable' >= Recoverable \/ ignored' \/ overlapped'

LEMMA OneSaverStep ==
  ASSUME TypeOK, OneSaver, [Next]_vars
  PROVE  OneSaver' \/ overlapped'
<1> USE DEF OneSaver, Busy, TypeOK
<1>1. CASE Load \/ UNCHANGED vars
  BY <1>1 DEF Load, vars
<1>2. CASE Crash \/ ShutdownProcess
  BY <1>2 DEF Crash, ShutdownProcess, Terminate
<1>3. CASE \E s \in Editors : EditScene(s)
  BY <1>3 DEF EditScene, Savers
<1>4. CASE OnRemoteDisconnect
  BY <1>4 DEF OnRemoteDisconnect, Go, Savers
<1>5. ASSUME NEW s \in Savers, SaveProject(s) PROVE OneSaver' \/ overlapped'
  <2>1. CASE GenerateSaveData(s)
    BY <2>1 DEF GenerateSaveData, Go
  <2>2. CASE SaveProjectEarly(s) \/ OpenFails(s) \/ WriteFails(s) \/ ReplaceFails(s)
    BY <2>2 DEF SaveProjectEarly, OpenFails, WriteFails, ReplaceFails, Go, Done
  <2>3. CASE OpenTmp(s) \/ WriteTmp(s) \/ FlushFails(s) \/ BackUp(s)
    BY <2>3 DEF OpenTmp, WriteTmp, FlushFails, BackUp, Go
  <2>4. CASE Move(s) \/ MoveFileEx(s)
    BY <2>4 DEF Move, MoveFileEx, Go, Done
  <2> QED BY <1>5, <2>1, <2>2, <2>3, <2>4 DEF SaveProject
<1> HIDE DEF OneSaver
<1> QED BY <1>1, <1>2, <1>3, <1>4, <1>5 DEF Next

LEMMA FreshStep ==
  ASSUME TypeOK, OneSaver, OneSaver', Fresh, [Next]_vars
  PROVE  (Fresh' /\ Recoverable' >= Recoverable) \/ ignored'
<1> USE FileAssumption DEF Fresh, Busy, TypeOK, Contents, Recoverable, Valid
<1>1. CASE Load
  BY <1>1 DEF Load
<1>2. CASE Crash \/ ShutdownProcess
  BY <1>2 DEF Crash, ShutdownProcess, Terminate
<1>3. ASSUME NEW s \in Editors, EditScene(s) PROVE Fresh' /\ Recoverable' >= Recoverable
  BY <1>3 DEF EditScene, Editors, Savers, Projects
<1>4. CASE OnRemoteDisconnect
  BY <1>4 DEF OnRemoteDisconnect, Go, Savers
<1>5. ASSUME NEW s \in Savers, SaveProject(s)
      PROVE  (Fresh' /\ Recoverable' >= Recoverable) \/ ignored'
  <2>1. CASE GenerateSaveData(s)
    BY <2>1 DEF GenerateSaveData, Go
  <2>2. CASE SaveProjectEarly(s) \/ OpenFails(s)
    BY <2>2 DEF SaveProjectEarly, OpenFails, Go, Done
  <2>3. CASE OpenTmp(s)
    <3>1. \A r \in Savers : Busy(r) => r = s
      BY <2>3 DEF OpenTmp, Go, OneSaver
    <3>2. mix = {}
      BY <2>3, <3>1 DEF OpenTmp, Go, Writing
    <3>3. \A r \in Savers : saver'[r] \notin {"replace", "move"} /\ (saver'[r] = "write" => r = s)
      BY <2>3, <3>1 DEF OpenTmp, Go
    <3>4. mix' = {data[s]}
      BY <2>3, <3>2 DEF OpenTmp
    <3> QED BY <2>3, <3>1, <3>3, <3>4 DEF OpenTmp, Go
  <2>4. CASE WriteTmp(s)
    BY <2>4 DEF WriteTmp, Go, OneSaver
  <2>5. CASE WriteFails(s)
    BY <2>5 DEF WriteFails, Go, Done, OneSaver
  <2>6. CASE FlushFails(s)
    BY <2>6 DEF FlushFails
  <2>7. CASE BackUp(s)
    BY <2>7 DEF BackUp, Go
  <2>8. CASE Move(s) \/ MoveFileEx(s)
    BY <2>8 DEF Move, MoveFileEx, Go, Done, OneSaver
  <2>9. CASE ReplaceFails(s)
    BY <2>9 DEF ReplaceFails, Go, Done
  <2> QED BY <1>5, <2>1, <2>2, <2>3, <2>4, <2>5, <2>6, <2>7, <2>8, <2>9 DEF SaveProject
<1>6. CASE UNCHANGED vars
  BY <1>6 DEF vars
<1> HIDE DEF Fresh, Recoverable
<1> QED BY <1>1, <1>2, <1>3, <1>4, <1>5, <1>6 DEF Next

LEMMA IgnoredStays == ignored /\ [Next]_vars => ignored'
BY DEF Next, Load, Crash, ShutdownProcess, Terminate, EditScene, OnRemoteDisconnect,
       SaveProject, SaveProjectEarly, GenerateSaveData, OpenTmp, OpenFails, WriteTmp,
       WriteFails, FlushFails, BackUp, Move, MoveFileEx, ReplaceFails, vars

LEMMA OverlappedStays == TypeOK /\ overlapped /\ [Next]_vars => overlapped'
<1> SUFFICES ASSUME TypeOK, overlapped, [Next]_vars PROVE overlapped'
  OBVIOUS
<1>1. overlapped = TRUE
  BY DEF TypeOK
<1>2. ASSUME NEW s, NEW here, NEW there, Go(s, here, there) PROVE overlapped'
  BY <1>1, <1>2 DEF Go
<1>3. ASSUME NEW s \in Savers, SaveProject(s) PROVE overlapped'
  BY <1>2, <1>3 DEF SaveProject, SaveProjectEarly, GenerateSaveData, OpenTmp, OpenFails,
       WriteTmp, WriteFails, FlushFails, BackUp, Move, MoveFileEx, ReplaceFails
<1>4. CASE OnRemoteDisconnect
  BY <1>2, <1>4 DEF OnRemoteDisconnect
<1>5. CASE Load \/ Crash \/ ShutdownProcess \/ (\E s \in Editors : EditScene(s)) \/ UNCHANGED vars
  BY <1>1, <1>5 DEF Load, Crash, ShutdownProcess, Terminate, EditScene, vars
<1> QED BY <1>3, <1>4, <1>5 DEF Next

LEMMA SaveStep ==
  TypeOK /\ SaveInv /\ [Next]_vars => SaveInv' /\ [NotOlder]_vars
<1> SUFFICES ASSUME TypeOK, SaveInv, [Next]_vars PROVE SaveInv' /\ NotOlder
  OBVIOUS
<1>1. CASE overlapped \/ overlapped'
  BY <1>1, OverlappedStays DEF SaveInv, NotOlder
<1>2. CASE ~overlapped /\ ~overlapped'
  <2>1. OneSaver /\ (Fresh \/ ignored)
    BY <1>2 DEF SaveInv
  <2>2. OneSaver'
    BY <1>2, <2>1, OneSaverStep
  <2>3. CASE Fresh
    BY <2>1, <2>2, <2>3, FreshStep DEF SaveInv, NotOlder
  <2>4. CASE ignored
    BY <2>2, <2>4, IgnoredStays DEF SaveInv, NotOlder
  <2> QED BY <2>1, <2>3, <2>4
<1> QED BY <1>1, <1>2

LEMMA SaveCorrect == Spec => []SaveInv /\ [][NotOlder]_vars
<1>1. Init => SaveInv
  <2> SUFFICES ASSUME Init PROVE OneSaver /\ Fresh
    BY DEF SaveInv
  <2>1. Recoverable = 0 /\ json # Torn /\ bak # Torn
    BY FileAssumption DEF Init, Recoverable, Valid
  <2> QED BY <2>1 DEF Init, OneSaver, Fresh, Busy
<1> QED BY <1>1, TypeCorrect, SaveStep, PTL DEF Spec

(* As long as saves do not overlap, the project the next run would find    *)
(* never gets older, wherever the process ends and whatever call fails,    *)
(* but for the failures that the code ignores.                             *)
THEOREM SerialSavesNeverOlder == Spec => NeverOlder
<1>1. NotOlder <=> (Recoverable' >= Recoverable \/ ignored' \/ overlapped')
  BY DEF NotOlder
<1> QED BY <1>1, SaveCorrect, PTL DEF NeverOlder

(* Nor is it older than any project that SaveProject reported as saved.    *)
THEOREM SerialSavesStay == Spec => []SavedIsRecoverable
<1>1. SaveInv => SavedIsRecoverable
  BY DEF SaveInv, Fresh, SavedIsRecoverable
<1> QED BY <1>1, SaveCorrect, PTL

(* Both: what was saved in turn stays.                                     *)
THEOREM SerialSavesAreKept == Spec => SavesAreKept
BY SerialSavesNeverOlder, SerialSavesStay, PTL DEF SavesAreKept

-----------------------------------------------------------------------------
(* The refinement.  What is pending is what the one busy saver generated,  *)
(* and while nothing overlapped and no failure was ignored every step is   *)
(* one of ProjectFile or leaves its variables alone.                       *)
Calm == ~overlapped /\ ~ignored

LEMMA NothingPending == (\A s \in Savers : ~Busy(s)) => Pending = {}
BY DEF Pending

LEMMA OnePending == OneSaver => \A s \in Savers : Busy(s) => Pending = {data[s]}
BY DEF Pending, OneSaver

LEMMA NothingPendingNext == (\A s \in Savers : ~Busy(s))' => (Pending = {})'
BY NothingPending, PTL

LEMMA OnePendingNext == OneSaver' => (\A s \in Savers : Busy(s) => Pending = {data[s]})'
BY OnePending, PTL

(* While the saver that is busy stays so, the same project is pending.     *)
LEMMA SamePending ==
  ASSUME TypeOK, NEW s \in Savers, Busy(s), OneSaver, OneSaver', UNCHANGED data,
         NEW there \in {"open", "write", "replace", "move"}, saver' = [saver EXCEPT ![s] = there]
  PROVE  Pending' = Pending
<1>1. Busy(s)'
  BY DEF Busy, TypeOK
<1>2. Pending = {data[s]}
  BY OnePending
<1>3. Pending' = {data'[s]}
  BY <1>1, OnePendingNext
<1> QED BY <1>2, <1>3

(* And when it is done, or ends with the program, none is.                 *)
LEMMA PendingEnds ==
  ASSUME TypeOK, NEW s \in Savers, Busy(s), OneSaver, saver' = [saver EXCEPT ![s] = Done(s)]
  PROVE  Pending = {data[s]} /\ Pending' = {}
<1>1. \A t \in Savers : ~Busy(t)'
  BY DEF TypeOK, OneSaver, Busy, Done
<1> QED BY <1>1, OnePending, NothingPendingNext

(* A step of a saver that was not busy and is not.                         *)
LEMMA StillPending ==
  ASSUME TypeOK, NEW s \in Savers, ~Busy(s), UNCHANGED data,
         NEW there \in Places \ {"open", "write", "replace", "move"},
         saver' = [saver EXCEPT ![s] = there]
  PROVE  Pending' = Pending
<1>1. \A t \in Savers : Busy(t)' <=> Busy(t)
  BY DEF TypeOK, Busy
<1> QED BY <1>1 DEF Pending

LEMMA CalmBefore ==
  ASSUME TypeOK, SaveInv, [Next]_vars, Calm'
  PROVE  Calm /\ OneSaver /\ OneSaver' /\ Fresh /\ Fresh'
<1>1. Calm
  BY OverlappedStays, IgnoredStays DEF Calm
<1>2. OneSaver /\ Fresh
  BY <1>1 DEF Calm, SaveInv
<1>3. OneSaver'
  BY <1>2, OneSaverStep DEF Calm
<1>4. Fresh'
  BY <1>2, <1>3, FreshStep DEF Calm
<1> QED BY <1>1, <1>2, <1>3, <1>4

LEMMA ProjectFileStep ==
  ASSUME TypeOK, SaveInv, [Next]_vars
  PROVE  [File!Next]_(File!vars)
<1>1. CASE ~Calm'
  <2>1. (overlapped \/ ignored)' = TRUE
    <3>1. TypeOK'
      BY TypeStep
    <3> QED BY <1>1, <3>1, Zenon DEF Calm, TypeOK
  <2> QED BY <2>1 DEF File!Next, File!Uncovered
<1>2. CASE Calm'
  <2>1. Calm /\ OneSaver /\ OneSaver' /\ Fresh /\ Fresh'
    BY <1>2, CalmBefore
  <2>v. (overlapped \/ ignored)' = (overlapped \/ ignored)
    BY <1>2, <2>1 DEF Calm
  <2>2. CASE Load
    <3>1. /\ json \in Nat \cup {Absent} /\ bak \in Nat \cup {Absent}
      BY <2>1 DEF Fresh, TypeOK, Contents
    <3>2. scene' = Recoverable /\ Recoverable' = Recoverable
      BY <1>2, <2>2, <3>1, FileAssumption DEF Load, Recoverable, Valid, Calm
    <3>3. Pending' = Pending
      BY <2>2 DEF Load, Pending, Busy
    <3>4. File!Start
      BY <2>2, <2>v, <3>2, <3>3 DEF Load, File!Start, TypeOK
    <3> QED BY <3>4 DEF File!Next
  <2>3. CASE Crash \/ ShutdownProcess
    <3>1. /\ is_initialize_' = FALSE /\ saver' = [s \in Savers |-> "idle"]
          /\ UNCHANGED <<edits, scene, json, bak, saved>>
      BY <2>3 DEF Crash, ShutdownProcess, Terminate
    <3>2. \A s \in Savers : ~Busy(s)'
      BY <3>1 DEF Busy
    <3>3. Pending' = {} /\ Recoverable' = Recoverable
      BY <3>1, <3>2, NothingPendingNext DEF Recoverable
    <3>4. CASE is_initialize_
      <4>1. File!End
        BY <2>v, <3>1, <3>3, <3>4 DEF File!End
      <4> QED BY <4>1 DEF File!Next
    <3>5. CASE ~is_initialize_
      <4>1. \A s \in Savers : ~Busy(s)
        BY <2>1, <3>5 DEF Fresh
      <4>2. Pending = {}
        BY <4>1, NothingPending
      <4>3. is_initialize_' = is_initialize_
        BY <3>1, <3>5 DEF TypeOK
      <4> QED BY <2>v, <3>1, <3>3, <4>2, <4>3 DEF File!vars
    <3> QED BY <3>4, <3>5
  <2>4. ASSUME NEW s \in Editors, EditScene(s) PROVE File!Next
    <3>1. s \in Savers /\ ~Busy(s) /\ "save" \in Places \ {"open", "write", "replace", "move"}
      BY <2>4 DEF EditScene, Savers, Busy, Places
    <3>2. saver' = [saver EXCEPT ![s] = "save"] /\ UNCHANGED data
      BY <2>4 DEF EditScene
    <3>3. Pending' = Pending
      BY <3>1, <3>2, StillPending
    <3>4. Recoverable' = Recoverable
      BY <2>4 DEF EditScene, Recoverable
    <3>5. File!Edit
      BY <2>4, <2>v, <3>3, <3>4 DEF EditScene, File!Edit
    <3> QED BY <3>5 DEF File!Next
  <2>5. CASE OnRemoteDisconnect
    <3>1. "mojo" \in Savers /\ ~Busy("mojo") /\ "save" \in Places \ {"open", "write", "replace", "move"}
      BY <2>5 DEF OnRemoteDisconnect, Go, Savers, Busy, Places
    <3>2. saver' = [saver EXCEPT !["mojo"] = "save"] /\ UNCHANGED data
      BY <2>5 DEF OnRemoteDisconnect, Go
    <3>3. Pending' = Pending
      BY <3>1, <3>2, StillPending
    <3> QED BY <2>5, <2>v, <3>3 DEF OnRemoteDisconnect, Go, Recoverable, File!vars
  <2>6. ASSUME NEW s \in Savers, SaveProject(s) PROVE [File!Next]_(File!vars)
    <3>1. CASE SaveProjectEarly(s)
      <4>1. ~Busy(s) /\ Done(s) \in Places \ {"open", "write", "replace", "move"}
        BY <3>1 DEF SaveProjectEarly, Go, Busy, Places, Done
      <4>2. saver' = [saver EXCEPT ![s] = Done(s)] /\ UNCHANGED data
        BY <3>1 DEF SaveProjectEarly, Go
      <4>3. Pending' = Pending
        BY <4>1, <4>2, StillPending
      <4> QED BY <3>1, <2>v, <4>3 DEF SaveProjectEarly, Go, Recoverable, File!vars
    <3>2. CASE GenerateSaveData(s)
      <4>1. \A t \in Savers : ~Busy(t)
        BY <1>2, <3>2 DEF GenerateSaveData, Go, Busy, Calm
      <4>2. Busy(s)' /\ data'[s] = scene
        BY <3>2 DEF GenerateSaveData, Go, Busy, TypeOK
      <4>3. Pending = {} /\ Pending' = {scene}
        BY <2>1, <4>1, <4>2, NothingPending, OnePendingNext
      <4>4. File!SaveBegins
        BY <3>2, <2>v, <4>3 DEF GenerateSaveData, Go, Recoverable, File!SaveBegins
      <4> QED BY <4>4 DEF File!Next
    <3>3. CASE OpenTmp(s) \/ WriteTmp(s)
      <4>1. /\ Busy(s) /\ UNCHANGED data
            /\ \E there \in {"open", "write", "replace", "move"} :
                 saver' = [saver EXCEPT ![s] = there]
        BY <3>3 DEF OpenTmp, WriteTmp, Go, Busy
      <4>2. Pending' = Pending
        BY <2>1, <4>1, SamePending
      <4> QED BY <3>3, <2>v, <4>2 DEF OpenTmp, WriteTmp, Go, Recoverable, File!vars
    <3>4. CASE FlushFails(s)
      BY <1>2, <3>4 DEF FlushFails, Calm
    <3>5. CASE BackUp(s)
      <4>1. Busy(s) /\ UNCHANGED data /\ saver' = [saver EXCEPT ![s] = "move"]
        BY <3>5 DEF BackUp, Go, Busy
      <4>2. Pending' = Pending
        BY <2>1, <4>1, SamePending
      <4>3. json \in Nat /\ json' = Absent /\ bak' = json
        BY <2>1, <3>5 DEF BackUp, Fresh, TypeOK, Contents
      <4>4. Recoverable' = Recoverable
        BY <4>3, FileAssumption DEF Recoverable, Valid
      <4> QED BY <3>5, <2>v, <4>2, <4>4 DEF BackUp, Go, File!vars
    <3>6. CASE OpenFails(s) \/ WriteFails(s) \/ ReplaceFails(s)
      <4>1. Busy(s) /\ saver' = [saver EXCEPT ![s] = Done(s)]
        BY <3>6 DEF OpenFails, WriteFails, ReplaceFails, Go, Busy
      <4>2. Pending # {} /\ Pending' = {}
        BY <2>1, <4>1, PendingEnds
      <4>3. UNCHANGED <<is_initialize_, edits, scene, json, bak, saved>>
        BY <3>6 DEF OpenFails, WriteFails, ReplaceFails, Go
      <4>4. File!SaveFails
        BY <2>v, <4>2, <4>3 DEF Recoverable, File!SaveFails
      <4> QED BY <4>4 DEF File!Next
    <3>7. CASE Move(s) \/ MoveFileEx(s)
      <4>1. Busy(s) /\ saver' = [saver EXCEPT ![s] = Done(s)]
        BY <3>7 DEF Move, MoveFileEx, Go, Busy
      <4>2. Pending = {data[s]} /\ Pending' = {}
        BY <2>1, <4>1, PendingEnds
      <4>3. tmp = data[s] /\ data[s] \in Nat /\ saved <= Recoverable /\ Recoverable <= data[s]
        BY <2>1, <3>7, <4>1 DEF Move, MoveFileEx, Go, Fresh, TypeOK
      <4>4. json' = data[s] /\ saved' = IF data[s] > saved THEN data[s] ELSE saved
        BY <3>7, <4>3 DEF Move, MoveFileEx
      <4>5. Recoverable' = data[s]
        BY <4>3, <4>4 DEF Recoverable, Valid
      <4>6. saved' = data[s]
        <5>1. saved \in Nat /\ Recoverable \in Nat
          BY <2>1 DEF TypeOK, Recoverable, Valid
        <5> QED BY <4>3, <4>4, <5>1
      <4>7. UNCHANGED <<is_initialize_, edits, scene>>
        BY <3>7 DEF Move, MoveFileEx, Go
      <4>8. File!Saved
        BY <2>v, <4>2, <4>5, <4>6, <4>7 DEF File!Saved
      <4> QED BY <4>8 DEF File!Next
    <3> QED BY <2>6, <3>1, <3>2, <3>3, <3>4, <3>5, <3>6, <3>7 DEF SaveProject
  <2>7. CASE UNCHANGED vars
    BY <2>7 DEF vars, File!vars, Pending, Busy, Recoverable
  <2> QED BY <2>2, <2>3, <2>4, <2>5, <2>6, <2>7 DEF Next
<1> QED BY <1>1, <1>2

LEMMA InitProjectFile == Init => File!Init
<1> SUFFICES ASSUME Init PROVE File!Init
  OBVIOUS
<1>1. Recoverable = 0
  BY FileAssumption DEF Init, Recoverable, Valid
<1>2. Pending = {}
  BY NothingPending DEF Init, Busy
<1>3. (overlapped \/ ignored) = FALSE
  BY DEF Init
<1> QED BY <1>1, <1>2, <1>3 DEF Init, File!Init

(* The files implement the abstract project.                               *)
THEOREM ProjectIsImplemented == Spec => ImplementsProject
<1>1. Spec => []TypeOK /\ []SaveInv
  BY TypeCorrect, SaveCorrect
<1>2. TypeOK /\ SaveInv /\ [Next]_vars => [File!Next]_(File!vars)
  BY ProjectFileStep
<1> QED BY <1>1, <1>2, InitProjectFile, PTL DEF Spec, ImplementsProject, File!Spec

(* What ProjectFile keeps by itself.                                       *)
Promised ==
  \/ overlapped \/ ignored
  \/ /\ edits \in Nat /\ scene \in Nat /\ Recoverable \in Nat
     /\ saved = Recoverable /\ scene <= edits
     /\ is_initialize_ => Recoverable <= scene
     /\ Recoverable <= edits
     /\ \A p \in Pending : is_initialize_ /\ p \in Nat /\ Recoverable <= p /\ p <= scene

LEMMA PromiseStep ==
  ASSUME Promised, [File!Next]_(File!vars)
  PROVE  Promised' /\ NotOlder
<1>1. CASE UNCHANGED File!vars
  BY <1>1 DEF File!vars, Promised, NotOlder
<1>2. CASE File!Uncovered
  BY <1>2 DEF File!Uncovered, Promised, NotOlder
<1>3. CASE File!Start \/ File!End \/ File!Edit \/ File!SaveBegins \/ File!SaveFails \/ File!Saved
  <2>1. (overlapped \/ ignored)' = (overlapped \/ ignored)
    BY <1>3 DEF File!Start, File!End, File!Edit, File!SaveBegins, File!SaveFails, File!Saved
  <2>2. CASE overlapped \/ ignored
    BY <2>1, <2>2 DEF Promised, NotOlder
  <2>3. CASE ~(overlapped \/ ignored)
    <3>1. /\ edits \in Nat /\ scene \in Nat /\ Recoverable \in Nat
          /\ saved = Recoverable /\ scene <= edits /\ Recoverable <= edits
          /\ is_initialize_ => Recoverable <= scene
          /\ \A p \in Pending : is_initialize_ /\ p \in Nat /\ Recoverable <= p /\ p <= scene
      BY <2>3 DEF Promised
    <3>2. CASE File!Start \/ File!End
      BY <3>1, <3>2 DEF File!Start, File!End, Promised, NotOlder
    <3>5. CASE File!Edit
      <4>1. /\ edits' = edits + 1 /\ scene' = edits' /\ is_initialize_' = is_initialize_
            /\ UNCHANGED <<Pending, Recoverable, saved>>
        BY <3>5 DEF File!Edit
      <4>2. edits' \in Nat /\ scene' \in Nat /\ scene' <= edits' /\ edits <= scene'
        BY <3>1, <4>1
      <4>3. \A p \in Pending' : is_initialize_' /\ p \in Nat /\ Recoverable' <= p /\ p <= scene'
        BY <3>1, <4>1, <4>2
      <4> QED BY <3>1, <4>1, <4>2, <4>3 DEF Promised, NotOlder
    <3>3. CASE File!SaveBegins \/ File!SaveFails
      BY <3>1, <3>3 DEF File!SaveBegins, File!SaveFails, Promised, NotOlder
    <3>4. CASE File!Saved
      BY <3>1, <3>4 DEF File!Saved, Promised, NotOlder
    <3> QED BY <1>3, <3>2, <3>3, <3>4, <3>5
  <2> QED BY <2>2, <2>3
<1> QED BY <1>1, <1>2, <1>3 DEF File!Next

(* What is a project to those who save in turn keeps what was saved.       *)
THEOREM ProjectKeepsSaves == ImplementsProject => SavesAreKept
<1>1. File!Init => Promised
  BY DEF File!Init, Promised
<1>2. Promised /\ [File!Next]_(File!vars) => Promised' /\ NotOlder
  BY PromiseStep
<1>3. Promised' => SavedIsRecoverable'
  BY DEF Promised, SavedIsRecoverable
<1>4. NotOlder <=> (Recoverable' >= Recoverable \/ ignored' \/ overlapped')
  BY DEF NotOlder
<1> QED
  BY <1>1, <1>2, <1>3, <1>4, PTL DEF ImplementsProject, File!Spec, SavesAreKept, NeverOlder

-----------------------------------------------------------------------------
(* Saves that do overlap.  As long as none opens tmp between another's     *)
(* opening it and replacing it, tmp belongs to one saver at a time, and    *)
(* what that saver puts in the place of default.json is a whole project.   *)
UsesTmp(s) == saver[s] \in {"write", "replace", "move"}

OneUser == \A s, t \in Savers : UsesTmp(s) /\ UsesTmp(t) => s = t

Whole ==
  /\ \A s \in Savers : saver[s] = "write" => mix = {data[s]}
  /\ \A s \in Savers : saver[s] \in {"replace", "move"} => Valid(tmp)
  /\ json # Torn /\ bak # Torn
  /\ saved > 0 => Valid(json) \/ Valid(bak)

DamageInv == mixed \/ (OneUser /\ (Whole \/ ignored))

LEMMA OneUserStep ==
  ASSUME TypeOK, OneUser, [Next]_vars
  PROVE  OneUser' \/ mixed'
<1> USE DEF OneUser, UsesTmp, TypeOK
<1>1. CASE Load \/ UNCHANGED vars
  BY <1>1 DEF Load, vars
<1>2. CASE Crash \/ ShutdownProcess
  BY <1>2 DEF Crash, ShutdownProcess, Terminate
<1>3. CASE \E s \in Editors : EditScene(s)
  BY <1>3 DEF EditScene, Savers
<1>4. CASE OnRemoteDisconnect
  BY <1>4 DEF OnRemoteDisconnect, Go, Savers
<1>5. ASSUME NEW s \in Savers, SaveProject(s) PROVE OneUser' \/ mixed'
  <2>1. CASE OpenTmp(s)
    BY <2>1 DEF OpenTmp, Go, UsedByOthers
  <2>2. CASE SaveProjectEarly(s) \/ GenerateSaveData(s) \/ OpenFails(s) \/ WriteFails(s) \/ ReplaceFails(s)
    BY <2>2 DEF SaveProjectEarly, GenerateSaveData, OpenFails, WriteFails, ReplaceFails, Go, Done
  <2>3. CASE WriteTmp(s) \/ FlushFails(s) \/ BackUp(s)
    BY <2>3 DEF WriteTmp, FlushFails, BackUp, Go
  <2>4. CASE Move(s) \/ MoveFileEx(s)
    BY <2>4 DEF Move, MoveFileEx, Go, Done
  <2> QED BY <1>5, <2>1, <2>2, <2>3, <2>4 DEF SaveProject
<1> HIDE DEF OneUser
<1> QED BY <1>1, <1>2, <1>3, <1>4, <1>5 DEF Next

LEMMA WholeStep ==
  ASSUME TypeOK, OneUser, OneUser', Whole, [Next]_vars
  PROVE  Whole' \/ ignored'
<1> USE FileAssumption DEF Whole, TypeOK, Contents, Valid
<1>1. CASE Load
  BY <1>1 DEF Load
<1>2. CASE Crash \/ ShutdownProcess
  BY <1>2 DEF Crash, ShutdownProcess, Terminate
<1>3. ASSUME NEW s \in Editors, EditScene(s) PROVE Whole'
  BY <1>3 DEF EditScene, Editors, Savers
<1>4. CASE OnRemoteDisconnect
  BY <1>4 DEF OnRemoteDisconnect, Go, Savers
<1>5. ASSUME NEW s \in Savers, SaveProject(s) PROVE Whole' \/ ignored'
  <2>1. CASE GenerateSaveData(s)
    BY <2>1 DEF GenerateSaveData, Go
  <2>2. CASE SaveProjectEarly(s) \/ OpenFails(s)
    BY <2>2 DEF SaveProjectEarly, OpenFails, Go, Done
  <2>3. CASE OpenTmp(s)
    <3>1. \A r \in Savers : UsesTmp(r)' => r = s
      BY <2>3 DEF OpenTmp, Go, OneUser, UsesTmp
    <3>2. \A r \in Savers : ~Writing(r)
      BY <2>3, <3>1 DEF OpenTmp, Go, UsesTmp, Writing
    <3>3. mix' = {data[s]}
      BY <2>3, <3>2 DEF OpenTmp
    <3> QED BY <2>3, <3>1, <3>3 DEF OpenTmp, Go, UsesTmp
  <2>4. CASE WriteTmp(s)
    <3>1. mix = {data[s]}
      BY <2>4 DEF WriteTmp, Go
    <3>2. tmp' = data[s] /\ tmp' \in Nat
      BY <2>4, <3>1 DEF WriteTmp
    <3> QED BY <2>4, <3>2 DEF WriteTmp, Go, OneUser, UsesTmp
  <2>5. CASE WriteFails(s)
    BY <2>5 DEF WriteFails, Go, Done, OneUser, UsesTmp
  <2>6. CASE FlushFails(s)
    BY <2>6 DEF FlushFails
  <2>7. CASE BackUp(s)
    BY <2>7 DEF BackUp, Go
  <2>8. CASE Move(s) \/ MoveFileEx(s)
    BY <2>8 DEF Move, MoveFileEx, Go, Done, OneUser, UsesTmp
  <2>9. CASE ReplaceFails(s)
    BY <2>9 DEF ReplaceFails, Go, Done
  <2> QED BY <1>5, <2>1, <2>2, <2>3, <2>4, <2>5, <2>6, <2>7, <2>8, <2>9 DEF SaveProject
<1>6. CASE UNCHANGED vars
  BY <1>6 DEF vars
<1> HIDE DEF Whole
<1> QED BY <1>1, <1>2, <1>3, <1>4, <1>5, <1>6 DEF Next

LEMMA MixedStays == TypeOK /\ mixed /\ [Next]_vars => mixed'
BY DEF TypeOK, Next, Load, Crash, ShutdownProcess, Terminate, EditScene, OnRemoteDisconnect,
       SaveProject, SaveProjectEarly, GenerateSaveData, OpenTmp, OpenFails, WriteTmp,
       WriteFails, FlushFails, BackUp, Move, MoveFileEx, ReplaceFails, vars

LEMMA DamageStep == TypeOK /\ DamageInv /\ [Next]_vars => DamageInv'
BY OneUserStep, WholeStep, IgnoredStays, MixedStays, Zenon DEF DamageInv

(* Wherever the process ends and whatever fails that the code takes notice *)
(* of, a project once saved is found whole in one of the two files, and    *)
(* neither ever holds half a one, unless a save opened the temporary file  *)
(* while another was between opening and replacing it.                     *)
THEOREM UnmixedSavesDoNoDamage == Spec => []DamageNeedsMixedWrites
<1>1. Init => DamageInv
  BY FileAssumption DEF Init, DamageInv, OneUser, UsesTmp, Whole
<1>2. DamageInv => DamageNeedsMixedWrites
  BY DEF DamageInv, Whole, DamageNeedsMixedWrites, LossNeedsMixedWrites, TornNeedsMixedWrites
<1> QED BY <1>1, <1>2, TypeCorrect, DamageStep, PTL DEF Spec
=============================================================================
