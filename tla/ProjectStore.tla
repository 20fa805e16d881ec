---------------------------- MODULE ProjectStore ----------------------------
(***************************************************************************)
(* The project on disk: FLOBSManager::SaveProject and Load, with the parts *)
(* of libobs they rest on (obs_data_save_json_safe and                     *)
(* obs_data_create_from_json_file_safe) and the Windows calls under those. *)
(*                                                                         *)
(* The UI thread saves the whole project when it has added a source, the   *)
(* pool worker when it has removed or edited one (SceneManager says which  *)
(* edits), and the mojo thread once more when the host goes away, after    *)
(* which it terminates the process.  A save writes default.json.tmp and    *)
(* then replaces default.json by it, keeping the old file as               *)
(* default.json.bak; all threads share the three names and no lock is      *)
(* taken.                                                                  *)
(*                                                                         *)
(* A project is the number of the edit it contains last; 0 is the default  *)
(* scene, which is never saved: Load calls SaveProject for it before       *)
(* is_initialize_ is set, and that call does nothing.                      *)
(***************************************************************************)
EXTENDS Naturals

CONSTANTS
  Absent, Torn,   \* what a file holds when it is not there, or not a project
  MaxEdits,       \* bound: edits made in a behaviour
  MayFail         \* may writing or moving a file fail?

ASSUME EditsAssumption == MaxEdits \in Nat
ASSUME FileAssumption == Absent \notin Nat /\ Torn \notin Nat /\ Absent # Torn
ASSUME SwitchAssumption == MayFail \in BOOLEAN

Editors == {"ui", "pool"}
Savers == Editors \cup {"mojo"}
Projects == 0 .. MaxEdits

VARIABLES
  is_initialize_,
  edits,   \* edits made so far, in all runs of the program
  scene,   \* the scene in memory: the last edit it contains
  saver,   \* where each saver is in SaveProject
  data,    \* the project each saver generated
  json, bak, tmp,  \* default.json and its .bak and .tmp
  mix,     \* the projects being written into tmp since it was last closed
  saved,   \* history: the newest project for which SaveProject returned true
  overlapped,  \* history: a save began while another ran
  mixed,   \* history: a save opened tmp while another was using it
  ignored  \* history: a file operation failed and the code took no notice

vars == <<is_initialize_, edits, scene, saver, data, json, bak, tmp, mix,
          saved, overlapped, mixed, ignored>>

Places == {"idle", "save", "open", "write", "replace", "move", "exit"}
Writing(s) == saver[s] = "write"
Busy(s) == saver[s] \in {"open", "write", "replace", "move"}
Valid(file) == file \in Nat

Init ==
  /\ is_initialize_ = FALSE
  /\ edits = 0
  /\ scene = 0
  /\ saver = [s \in Savers |-> "idle"]
  /\ data = [s \in Savers |-> 0]
  /\ json = Absent /\ bak = Absent /\ tmp = Absent
  /\ mix = {}
  /\ saved = 0 /\ overlapped = FALSE /\ mixed = FALSE /\ ignored = FALSE

-----------------------------------------------------------------------------
(* The program starts and ends.                                            *)

(* OBSInit, as far as the project is concerned.  A default.json that does  *)
(* not parse is replaced by the backup, if there is one; the result of the *)
(* rename is not looked at.                                                *)
Load ==
  /\ ~is_initialize_
  /\ is_initialize_' = TRUE
  /\ \/ /\ Valid(json) \/ bak = Absent
        /\ UNCHANGED <<json, bak, ignored>>
     \/ /\ ~Valid(json) /\ bak # Absent
        /\ json' = bak /\ bak' = Absent
        /\ UNCHANGED ignored
     \/ /\ MayFail /\ ~Valid(json) /\ bak # Absent
        /\ ignored' = TRUE
        /\ UNCHANGED <<json, bak>>
  /\ scene' = IF Valid(json') THEN json' ELSE 0
  /\ UNCHANGED <<edits, saver, data, tmp, mix, saved, overlapped, mixed>>

(* The process ends, with or without its threads' consent.                 *)
Terminate ==
  /\ is_initialize_' = FALSE
  /\ saver' = [s \in Savers |-> "idle"]
  /\ mix' = {}
  /\ UNCHANGED <<edits, scene, data, json, bak, tmp, saved, overlapped, mixed, ignored>>

Crash == is_initialize_ /\ Terminate

ShutdownProcess == saver["mojo"] = "exit" /\ Terminate

-----------------------------------------------------------------------------
(* SaveProject.                                                            *)
Go(s, here, there) ==
  /\ saver[s] = here
  /\ saver' = [saver EXCEPT ![s] = there]
  /\ overlapped' = (overlapped \/ (there = "open" /\ \E t \in Savers \ {s} : Busy(t)))
  /\ UNCHANGED <<is_initialize_, edits, scene>>

Done(s) == IF s = "mojo" THEN "exit" ELSE "idle"

(* An operation of the UI thread or the pool changes the scene.            *)
EditScene(s) ==
  /\ is_initialize_ /\ edits < MaxEdits
  /\ saver[s] = "idle"
  /\ saver' = [saver EXCEPT ![s] = "save"]
  /\ edits' = edits + 1
  /\ scene' = edits'
  /\ UNCHANGED <<is_initialize_, data, json, bak, tmp, mix, saved, overlapped, mixed,
                 ignored>>

(* The host goes away.                                                     *)
OnRemoteDisconnect ==
  /\ Go("mojo", "idle", "save")
  /\ UNCHANGED <<data, json, bak, tmp, mix, saved, mixed, ignored>>

SaveProjectEarly(s) ==
  /\ ~is_initialize_
  /\ Go(s, "save", Done(s))
  /\ UNCHANGED <<data, json, bak, tmp, mix, saved, mixed, ignored>>

GenerateSaveData(s) ==
  /\ is_initialize_
  /\ Go(s, "save", "open")
  /\ data' = [data EXCEPT ![s] = scene]
  /\ UNCHANGED <<json, bak, tmp, mix, saved, mixed, ignored>>

(* Another saver has tmp open or has yet to move what it wrote.            *)
UsedByOthers(s) == \E t \in Savers \ {s} : saver[t] \in {"write", "replace"}

(* Mutant of OpenTmp: the project is written over the one it replaces.     *)
OpenInPlace(s) ==
  /\ Go(s, "open", "write")
  /\ json' = Torn /\ tmp' = Torn
  /\ mix' = mix \cup {data[s]}
  /\ mixed' = (mixed \/ UsedByOthers(s))
  /\ UNCHANGED <<data, bak, saved, ignored>>

(* The temporary file is truncated, whoever else has it open; while it is  *)
(* being moved it cannot be opened.                                        *)
OpenTmp(s) ==
  /\ \A t \in Savers : saver[t] # "move"
  /\ Go(s, "open", "write")
  /\ tmp' = Torn
  /\ mix' = mix \cup {data[s]}
  /\ mixed' = (mixed \/ UsedByOthers(s))
  /\ UNCHANGED <<data, json, bak, saved, ignored>>

OpenFails(s) ==
  /\ MayFail \/ \E t \in Savers : saver[t] = "move"
  /\ Go(s, "open", Done(s))
  /\ UNCHANGED <<data, json, bak, tmp, mix, saved, mixed, ignored>>

OthersWriting(s) == \E t \in Savers \ {s} : Writing(t)

(* What two savers write at once is either of the two, or neither.         *)
WriteTmp(s) ==
  /\ Go(s, "write", "replace")
  /\ tmp' \in IF mix = {data[s]} THEN mix ELSE mix \cup {Torn}
  /\ mix' = IF OthersWriting(s) THEN mix ELSE {}
  /\ UNCHANGED <<data, json, bak, saved, mixed, ignored>>

(* Mutant of WriteFails: the failure goes unnoticed.                       *)
WriteFailsUnnoticed(s) ==
  /\ MayFail
  /\ Go(s, "write", "replace")
  /\ tmp' = Torn
  /\ mix' = IF OthersWriting(s) THEN mix ELSE {}
  /\ UNCHANGED <<data, json, bak, saved, mixed, ignored>>

WriteFails(s) ==
  /\ MayFail
  /\ Go(s, "write", Done(s))
  /\ tmp' = Torn
  /\ mix' = IF OthersWriting(s) THEN mix ELSE {}
  /\ UNCHANGED <<data, json, bak, saved, mixed, ignored>>

(* fwrite leaves the end of the file in a buffer; nobody looks at what     *)
(* fflush and fclose return.                                               *)
FlushFails(s) ==
  /\ MayFail
  /\ Go(s, "write", "replace")
  /\ tmp' = Torn
  /\ mix' = IF OthersWriting(s) THEN mix ELSE {}
  /\ ignored' = TRUE
  /\ UNCHANGED <<data, json, bak, saved, mixed>>

(* ReplaceFileW in its two halves, between which the process may end.  It  *)
(* fails if the temporary file is open or gone.                            *)
Movable == tmp # Absent /\ \A t \in Savers : saver[t] \notin {"write", "move"}

BackUp(s) ==
  /\ Movable /\ json # Absent
  /\ Go(s, "replace", "move")
  /\ bak' = json /\ json' = Absent
  /\ UNCHANGED <<data, tmp, mix, saved, mixed, ignored>>

Move(s) ==
  /\ Go(s, "move", Done(s))
  /\ json' = tmp /\ tmp' = Absent
  /\ saved' = IF data[s] > saved THEN data[s] ELSE saved
  /\ UNCHANGED <<data, bak, mix, mixed, ignored>>

(* Without a default.json there is nothing to back up.                     *)
MoveFileEx(s) ==
  /\ Movable /\ json = Absent
  /\ Go(s, "replace", Done(s))
  /\ json' = tmp /\ tmp' = Absent
  /\ saved' = IF data[s] > saved THEN data[s] ELSE saved
  /\ UNCHANGED <<data, bak, mix, mixed, ignored>>

ReplaceFails(s) ==
  /\ \/ Go(s, "replace", Done(s)) /\ (~Movable \/ MayFail)
     \/ Go(s, "move", Done(s)) /\ MayFail
  /\ UNCHANGED <<data, json, bak, tmp, mix, saved, mixed, ignored>>

SaveProject(s) ==
  \/ SaveProjectEarly(s) \/ GenerateSaveData(s)
  \/ OpenTmp(s) \/ OpenFails(s) \/ WriteTmp(s) \/ WriteFails(s) \/ FlushFails(s)
  \/ BackUp(s) \/ Move(s) \/ MoveFileEx(s) \/ ReplaceFails(s)

Next ==
  \/ Load \/ Crash \/ ShutdownProcess
  \/ \E s \in Editors : EditScene(s)
  \/ OnRemoteDisconnect
  \/ \E s \in Savers : SaveProject(s)

Spec == Init /\ [][Next]_vars

-----------------------------------------------------------------------------
(* Properties.                                                             *)

(* What a file can hold: a project made so far, or none.                   *)
Contents == 0 .. edits \cup {Absent, Torn}

(* The files hold what they can hold, and tmp is shared by those that      *)
(* write it.                                                               *)
TypeOK ==
  /\ is_initialize_ \in BOOLEAN /\ overlapped \in BOOLEAN /\ mixed \in BOOLEAN /\ ignored \in BOOLEAN
  /\ edits \in Projects /\ scene \in 0 .. edits /\ saved \in 0 .. edits
  /\ saver \in [Savers -> Places]
  /\ data \in [Savers -> 0 .. edits]
  /\ json \in Contents /\ bak \in Contents /\ tmp \in Contents
  /\ mix \subseteq 0 .. edits
  /\ mix = {} <=> \A s \in Savers : ~Writing(s)

(* What Load would find if the process ended now.                          *)
Recoverable == IF Valid(json) THEN json ELSE IF Valid(bak) THEN bak ELSE 0

(* As long as no two saves overlapped: wherever the process ends, and      *)
(* whatever fails that the code takes notice of, the project found by the  *)
(* next run is not older than what was there before, and not older than    *)
(* any SaveProject said it had saved.                                      *)
NeverOlder == [][Recoverable' >= Recoverable \/ ignored' \/ overlapped']_vars
SavedIsRecoverable == saved <= Recoverable \/ ignored \/ overlapped

(* Together: what was saved once is found again, or something newer is.    *)
SavesAreKept == NeverOlder /\ [][SavedIsRecoverable']_vars

(* What the savers are saving.                                             *)
Pending == {data[s] : s \in {t \in Savers : Busy(t)}}

File == INSTANCE ProjectFile WITH
  up <- is_initialize_,
  pending <- Pending,
  stable <- Recoverable,
  told <- saved,
  void <- overlapped \/ ignored

(* Three files, two renames and any number of ends in between are one      *)
(* stable project to those who save in turn: it changes only when a save   *)
(* succeeds, to the scene that save began with, and every start begins     *)
(* with it.  SavesAreKept follows.                                         *)
ImplementsProject == File!Spec

(* Saves that do overlap may put an older project over a newer one, but    *)
(* never lose both files of a project that was once saved, as long as none *)
(* opened the temporary file between another's opening and replacing it    *)
(* and no failure is ignored.                                              *)
LossNeedsMixedWrites ==
  (saved > 0 /\ ~Valid(json) /\ ~Valid(bak)) => mixed \/ ignored

(* Nor does a file that is not a whole project take the place of one.      *)
TornNeedsMixedWrites == (json = Torn \/ bak = Torn) => mixed \/ ignored

(* Together: a project is damaged only by saves that mix what they write.  *)
DamageNeedsMixedWrites == LossNeedsMixedWrites /\ TornNeedsMixedWrites

(* What libobs documents of obs_data_save_json_safe: the data is saved to  *)
(* the file as Json text, and the old file is kept as the backup against a *)
(* new one that is corrupted.  Not when two threads save at once: a save   *)
(* succeeds and there is no whole project on disk.  The shortest trace is  *)
(* a first save, with no old file yet, so the clause it breaks is that the *)
(* file holds the data; a backup was not to be expected of it.             *)
BackupSurvives == saved > 0 => Valid(json) \/ Valid(bak)
=============================================================================
