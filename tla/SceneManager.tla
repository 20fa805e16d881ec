---------------------------- MODULE SceneManager ----------------------------
(***************************************************************************)
(* The sources of the scene: FLOBSManager::AddSourceData and               *)
(* EditSourceItem, with what they keep beside libobs' scene.               *)
(*                                                                         *)
(* The UI thread adds items and edits them, the one pool worker removes    *)
(* and renames them; both report to the host and save the project.  No     *)
(* lock is held across a request: m_currentSceneData.sceneItem, the        *)
(* temporary display and its camera_name_ are shared as they are.  The     *)
(* module begins when OBSInit has set is_initialize_, with an empty scene. *)
(***************************************************************************)
EXTENDS Naturals

CONSTANTS
  MaxItems,     \* bound: items added in a behaviour
  MaxEdits,     \* bound: other requests in a behaviour
  Names,        \* source names
  None          \* no item, no name, no display

ASSUME ItemsAssumption == MaxItems \in Nat /\ MaxEdits \in Nat
ASSUME NoneAssumption == None \notin Nat \cup Names

Ids == 1 .. MaxItems
Kinds == {"text", "media", "capture", "phone", "camera"}
UiSteps == {"idle", "attach", "push", "read", "send", "find", "display",
            "return", "save", "write", "crashed"}
PoolSteps == {"idle", "detach", "erase", "read", "send", "save", "write"}

VARIABLES
  edits,      \* requests made, but for additions
  added,      \* id_counter of the scene
  name, kind, \* of each source; a rename changes the name
  scene,      \* the items attached to the scene
  sceneItem,  \* m_currentSceneData.sceneItem
  camera_display_, \* the item whose source it draws; 0 if it draws none
  camera_name_,
  host,       \* the name last reported to the host for each item
  saved,      \* the items in the project on disk
  ui, pool,   \* where each thread is, its request: kind, item and name given,
              \* the name read for the report, the data to be written
  unsaved,    \* history: added by a request that did not save
  renamed,    \* history: items renamed
  hurried,    \* history: removed while a camera request used it
  overtaken,  \* history: renamed while the UI was reporting it
  misdirected,\* history: edits by name that reached another item or none
  raced,      \* history: the list was appended to during an erase
  crossed     \* history: two saves overlapped

items == <<edits, added, name, kind, scene>>
local == <<sceneItem, camera_display_, camera_name_>>
history == <<unsaved, renamed, hurried, overtaken, misdirected, raced, crossed>>
vars == <<items, local, host, saved, ui, pool, history>>

UiIdle == [at |-> "idle", kind |-> "text", item |-> 0,
           asked |-> None, seen |-> None, data |-> {}]
PoolIdle == [at |-> "idle", item |-> 0, seen |-> None, data |-> {}]

Init ==
  /\ edits = 0 /\ added = 0
  /\ name = [i \in Ids |-> None]
  /\ kind = [i \in Ids |-> "text"]
  /\ scene = {} /\ sceneItem = {} /\ saved = {}
  /\ camera_display_ = None /\ camera_name_ = None
  /\ host = [i \in Ids |-> None]
  /\ ui = UiIdle /\ pool = PoolIdle
  /\ unsaved = {} /\ renamed = {} /\ hurried = {} /\ overtaken = {}
  /\ misdirected = {}
  /\ raced = FALSE /\ crossed = FALSE

(* A source lives as long as its item is in the scene or in the list, or   *)
(* the UI's request holds it.                                              *)
Alive(i) == i \in scene \cup sceneItem \/ (ui.at # "idle" /\ ui.item = i)

Known(i) == host[i] # None

(* Mutant of GetUniqueNameForSource: cameras do not count.                 *)
UniqueButForCameras(n) ==
  \A i \in Ids : Alive(i) /\ kind[i] # "camera" => name[i] # n

(* The name an added source gets is one that no source has.                *)
GetUniqueNameForSource(n) == \A i \in Ids : Alive(i) => name[i] # n

-----------------------------------------------------------------------------
Request == edits < MaxEdits /\ edits' = edits + 1

(* Saving, on either thread.                                               *)
GenerateUi ==
  /\ ui.at = "save"
  /\ ui' = [ui EXCEPT !.at = "write", !.data = scene]
  /\ unsaved' = {}
  /\ crossed' = (crossed \/ pool.at = "write")
  /\ UNCHANGED <<items, local, host, saved, pool, renamed, hurried, overtaken, misdirected, raced>>

WriteUi ==
  /\ ui.at = "write"
  /\ saved' = ui.data
  /\ ui' = UiIdle
  /\ UNCHANGED <<items, local, host, pool, history>>

GeneratePool ==
  /\ pool.at = "save"
  /\ pool' = [pool EXCEPT !.at = "write", !.data = scene]
  /\ unsaved' = {}
  /\ crossed' = (crossed \/ ui.at = "write")
  /\ UNCHANGED <<items, local, host, saved, ui, renamed, hurried, overtaken, misdirected, raced>>

WritePool ==
  /\ pool.at = "write"
  /\ saved' = pool.data
  /\ pool' = PoolIdle
  /\ UNCHANGED <<items, local, host, ui, history>>

-----------------------------------------------------------------------------
(* The UI thread.  AddSourceData with an item id of zero adds an item.     *)
GoUi(from, to) == ui.at = from /\ ui' = [ui EXCEPT !.at = to]

AddSource(k, n) ==
  /\ ui.at = "idle" /\ added < MaxItems
  /\ added' = added + 1
  /\ name' = [name EXCEPT ![added'] = n]
  /\ kind' = [kind EXCEPT ![added'] = k]
  /\ ui' = [ui EXCEPT !.at = "attach", !.kind = k, !.item = added',
                      !.asked = n]
  /\ UNCHANGED <<edits, scene, local, host, saved, pool, history>>

AddTextSourceData(n) == GetUniqueNameForSource(n) /\ AddSource("text", n)

(* Images and videos.                                                      *)
AddImageSourceData(n) == GetUniqueNameForSource(n) /\ AddSource("media", n)

(* With an item id too: "no edit, just new".                               *)
AddCaptureSourceData(n) == GetUniqueNameForSource(n) /\ AddSource("capture", n)

(* The name is taken as given.                                             *)
AddPhoneCastingSourceData(n) == AddSource("phone", n)

AddCameraSourceData(n) == GetUniqueNameForSource(n) /\ AddSource("camera", n)

SceneAdd ==
  /\ GoUi("attach", "push")
  /\ scene' = scene \cup {ui.item}
  /\ UNCHANGED <<edits, added, name, kind, local, host, saved, pool, history>>

(* Mutant of AddSceneItem: the item is reported but not listed.            *)
ReportSceneItemOnly ==
  /\ GoUi("push", "read")
  /\ UNCHANGED <<items, local, host, saved, pool, history>>

(* In the item_add signal.  The vector may move while the pool erases from *)
(* it, and then either change can be lost.                                 *)
AddSceneItem ==
  /\ GoUi("push", "read")
  /\ \/ sceneItem' = sceneItem \cup {ui.item}
     \/ pool.at = "erase" /\ sceneItem' = sceneItem
  /\ raced' = (raced \/ pool.at = "erase")
  /\ UNCHANGED <<items, camera_display_, camera_name_, host, saved, pool,
                 unsaved, renamed, hurried, overtaken, misdirected, crossed>>

(* SendSceneItemData.                                                      *)
ReadUi ==
  /\ ui.at = "read"
  /\ ui' = [ui EXCEPT !.at = "send", !.seen = name[ui.item]]
  /\ UNCHANGED <<items, local, host, saved, pool, history>>

SendUi ==
  /\ ui.at = "send"
  /\ ui' = [ui EXCEPT !.seen = None, !.at = IF ui.kind = "camera" THEN "display" ELSE "save"]
  /\ host' = [host EXCEPT ![ui.item] = ui.seen]
  /\ UNCHANGED <<items, local, saved, pool, history>>

(* A request with an item id.  A text that is gone is saved all the same.  *)
EditTextSourceData(i) ==
  /\ Known(i) /\ kind[i] = "text"
  /\ GoUi("idle", "save")
  /\ Request
  /\ UNCHANGED <<added, name, kind, scene, local, host, saved, pool, history>>

EditVideoSourceData(i) ==
  /\ i \in scene /\ Known(i) /\ kind[i] = "media"
  /\ GoUi("idle", "save")
  /\ Request
  /\ UNCHANGED <<added, name, kind, scene, local, host, saved, pool, history>>

(* Cameras and phone castings are found by the name the request gives.     *)
EditByName(i) ==
  /\ Known(i) /\ kind[i] \in {"camera", "phone"}
  /\ ui.at = "idle"
  /\ ui' = [ui EXCEPT !.at = "find", !.kind = kind[i], !.item = i,
                      !.asked = host[i]]
  /\ Request
  /\ UNCHANGED <<added, name, kind, scene, local, host, saved, pool, history>>

Found(i) == IF i = 0 THEN \A j \in scene : name[j] # ui.asked
                     ELSE i \in scene /\ name[i] = ui.asked

(* obs_scene_find_source returns the first of the name.  A request that    *)
(* changes the device is answered with a report; without a camera the      *)
(* report compares the null name of no source, and the process ends.       *)
FindSource(i) ==
  /\ ui.at = "find"
  /\ Found(i)
  /\ \E to \in IF ui.kind = "phone" THEN {"save"}
              ELSE {"display", IF i = 0 THEN "crashed" ELSE "read"} :
       ui' = [ui EXCEPT !.at = to, !.item = i]
  /\ misdirected' = misdirected \cup (IF ui.item \in scene \ {i} THEN {ui.item} ELSE {})
  /\ UNCHANGED <<items, local, host, saved, pool,
                 unsaved, renamed, hurried, overtaken, raced, crossed>>

(* Is item i in use by a camera request of the UI thread?                  *)
InRequest(i) == ui.at # "idle" /\ ui.kind = "camera" /\ ui.item = i

(* Mutant of CreateTempDisplay: the camera's name is not kept.             *)
CreateUnnamedDisplay ==
  /\ camera_display_ = None
  /\ camera_display_' = ui.item
  /\ UNCHANGED camera_name_

(* The display keeps a plain pointer to the source it draws.               *)
CreateTempDisplay ==
  /\ camera_display_ = None
  /\ camera_display_' = ui.item /\ camera_name_' = ui.asked

TempDisplayCameraDestory ==
  /\ camera_display_ # None
  /\ camera_display_' = None /\ camera_name_' = None

(* The host gives a window, or none; the display is made, closed or left.  *)
DisplayCamera ==
  /\ GoUi("display", "return")
  /\ \/ CreateTempDisplay
     \/ TempDisplayCameraDestory
     \/ UNCHANGED <<camera_display_, camera_name_>>
  /\ hurried' = hurried \cup (IF pool.at = "detach" /\ pool.item = ui.item
                             THEN {ui.item} \cap Ids ELSE {})
  /\ UNCHANGED <<items, sceneItem, host, saved, pool,
                 unsaved, renamed, overtaken, misdirected, raced, crossed>>

(* Cameras are saved when the request says so.                             *)
ReturnCamera ==
  /\ \/ GoUi("return", "save") /\ UNCHANGED unsaved
     \/ /\ ui.at = "return" /\ ui' = UiIdle
        /\ unsaved' = unsaved \cup (({ui.item} \cap Ids) \ saved)
  /\ UNCHANGED <<items, local, host, saved, pool,
                 renamed, hurried, overtaken, misdirected, raced, crossed>>

-----------------------------------------------------------------------------
(* The pool worker: EditSourceItem and the cursor setting.                 *)
GoPool(from, to) == pool.at = from /\ pool' = [pool EXCEPT !.at = to]

Remove(i) ==
  /\ Known(i) /\ i \in scene
  /\ pool.at = "idle"
  /\ pool' = [pool EXCEPT !.at = "detach", !.item = i]
  /\ IF camera_name_ = name[i] /\ camera_display_ # None
       THEN TempDisplayCameraDestory
       ELSE UNCHANGED <<camera_display_, camera_name_>>
  /\ Request
  /\ UNCHANGED <<added, name, kind, scene, sceneItem, host, saved, ui, history>>

(* RemoveSource, for an item that is not in the list.                      *)
RemoveMissing ==
  /\ pool.at = "detach" /\ pool' = PoolIdle
  /\ pool.item \notin sceneItem
  /\ UNCHANGED <<items, local, host, saved, ui, history>>

(* obs_sceneitem_remove.                                                   *)
RemoveSource ==
  /\ GoPool("detach", "erase")
  /\ pool.item \in sceneItem
  /\ scene' = scene \ {pool.item}
  /\ hurried' = hurried \cup (IF InRequest(pool.item) THEN {pool.item} ELSE {})
  /\ UNCHANGED <<edits, added, name, kind, local, host, saved, ui,
                 unsaved, renamed, overtaken, misdirected, raced, crossed>>

(* Mutant of EraseItem: the removal is not saved.                          *)
EraseUnsaved ==
  /\ pool.at = "erase" /\ pool' = PoolIdle
  /\ sceneItem' = sceneItem \ {pool.item}
  /\ UNCHANGED <<items, camera_display_, camera_name_, host, saved, ui, history>>

EraseItem ==
  /\ GoPool("erase", "save")
  /\ \/ sceneItem' = sceneItem \ {pool.item}
     \/ raced /\ sceneItem' = sceneItem
  /\ UNCHANGED <<items, camera_display_, camera_name_, host, saved, ui, history>>

(* Mutant of Rename: the host is not told.                                 *)
RenameUnreported(i, n) ==
  /\ Known(i) /\ i \in scene
  /\ pool.at = "idle"
  /\ name' = [name EXCEPT ![i] = n]
  /\ renamed' = renamed \cup {i}
  /\ Request
  /\ UNCHANGED <<added, kind, scene, local, host, saved, ui, pool,
                 unsaved, hurried, overtaken, misdirected, raced, crossed>>

(* Neither the display's name nor the uniqueness of names is looked after. *)
Rename(i, n) ==
  /\ Known(i) /\ i \in scene
  /\ pool.at = "idle"
  /\ name' = [name EXCEPT ![i] = n]
  /\ pool' = [pool EXCEPT !.at = "read", !.item = i]
  /\ renamed' = renamed \cup {i}
  /\ overtaken' = overtaken \cup (IF ui.at = "send" /\ ui.item = i THEN {i} ELSE {})
  /\ Request
  /\ UNCHANGED <<added, kind, scene, local, host, saved, ui,
                 unsaved, hurried, misdirected, raced, crossed>>

ReadPool ==
  /\ pool.at = "read"
  /\ pool' = [pool EXCEPT !.at = "send", !.seen = name[pool.item]]
  /\ UNCHANGED <<items, local, host, saved, ui, history>>

SendPool ==
  /\ pool.at = "send" /\ pool' = PoolIdle
  /\ host' = [host EXCEPT ![pool.item] = pool.seen]
  /\ UNCHANGED <<items, local, saved, ui, history>>

UpdateCursor ==
  /\ GoPool("idle", "save")
  /\ Request
  /\ UNCHANGED <<added, name, kind, scene, local, host, saved, ui, history>>

-----------------------------------------------------------------------------
Saving == GenerateUi \/ WriteUi \/ GeneratePool \/ WritePool

AddSourceData(n) ==
  \/ AddTextSourceData(n) \/ AddImageSourceData(n) \/ AddCaptureSourceData(n)
  \/ AddPhoneCastingSourceData(n) \/ AddCameraSourceData(n)

Adding ==
  \/ \E n \in Names : AddSourceData(n)
  \/ SceneAdd \/ AddSceneItem \/ ReadUi \/ SendUi

Editing ==
  \/ \E i \in Ids :
       EditTextSourceData(i) \/ EditVideoSourceData(i) \/ EditByName(i)
  \/ \E i \in Ids \cup {0} : FindSource(i)
  \/ DisplayCamera \/ ReturnCamera

Removing ==
  \/ \E i \in Ids : Remove(i) \/ \E n \in Names : Rename(i, n)
  \/ RemoveMissing \/ RemoveSource \/ EraseItem
  \/ ReadPool \/ SendPool \/ UpdateCursor

Next == ui.at # "crashed" /\ (Saving \/ Adding \/ Editing \/ Removing)

Spec == Init /\ [][Next]_vars

-----------------------------------------------------------------------------
(* Types and the ranges of the threads' places.                            *)
TypeOK ==
  /\ edits \in 0 .. MaxEdits /\ added \in 0 .. MaxItems
  /\ name \in [Ids -> Names \cup {None}] /\ kind \in [Ids -> Kinds]
  /\ scene \subseteq Ids /\ sceneItem \subseteq Ids /\ saved \subseteq Ids
  /\ camera_display_ \in Ids \cup {0, None}
  /\ camera_name_ \in Names \cup {None}
  /\ host \in [Ids -> Names \cup {None}]
  /\ ui \in [at : UiSteps, kind : Kinds, item : Ids \cup {0},
             asked : Names \cup {None}, seen : Names \cup {None}, data : SUBSET Ids]
  /\ pool \in [at : PoolSteps, item : Ids \cup {0},
               seen : Names \cup {None}, data : SUBSET Ids]
  /\ {unsaved, renamed, hurried, overtaken, misdirected} \subseteq SUBSET Ids
  /\ {raced, crossed} \subseteq BOOLEAN

(* What RemoveSource iterates over is what the scene holds: an item is in  *)
(* the scene and not in the list only while the UI thread adds it, and the *)
(* other way round only while the pool removes it, unless an addition and  *)
(* a removal touched the vector at once.  An item reported to the host     *)
(* before it is in the list could not be removed.                          *)
ListIsScene ==
  \/ raced
  \/ /\ \A i \in scene \ sceneItem : ui.at = "push" /\ ui.item = i
     /\ \A i \in sceneItem \ scene : pool.at = "erase" /\ pool.item = i

(* The temporary display never draws a source that was freed, unless the   *)
(* camera was renamed, since the display is found by its first name, or if *)
(* its removal overlapped the request that opened the display.             *)
DisplayDrawsLiveSource ==
  camera_display_ \in Ids =>
    \/ Alive(camera_display_)
    \/ camera_display_ \in renamed \cup hurried

(* Between requests the project on disk holds exactly the items of the     *)
(* scene, but for cameras added by a request that did not save, unless two *)
(* saves overlapped and the older one was written last.                    *)
SavedIsScene ==
  ui.at = "idle" /\ pool.at = "idle" =>
    \/ crossed
    \/ /\ scene \ saved \subseteq unsaved
       /\ saved \subseteq scene

(* Between requests the host knows every item of the scene by its name,    *)
(* unless it was renamed between the reading and the sending of a report.  *)
HostKnowsNames ==
  ui.at = "idle" /\ pool.at = "idle" =>
    \A i \in scene : host[i] = name[i] \/ i \in overtaken

(* An edit that names its camera or phone casting reaches that item, unless *)
(* a rename or a phone casting, whose name is not made unique, came between; *)
(* and it ends the process only after a rename, or for a camera that was   *)
(* removed before the UI thread looked for it.                             *)
EditsReachTheirItem ==
  /\ misdirected # {} => renamed # {} \/ \E i \in Ids : kind[i] = "phone"
  /\ ui.at = "crashed" =>
       \/ renamed # {}
       \/ \E i \in Ids \ scene : Known(i) /\ kind[i] = "camera"

=============================================================================
