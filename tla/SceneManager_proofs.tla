------------------------ MODULE SceneManager_proofs ------------------------
(***************************************************************************)
(* What holds of the scene for any number of items, requests and names.    *)
(*                                                                         *)
(* Two threads act on items by their ids, with no lock held between their  *)
(* steps; what keeps them apart is that the pool is only asked for items   *)
(* the host knows, and that the host knows an item only when the UI thread *)
(* has listed it.  AddingLast and PoolKnows say this; every other proof    *)
(* rests on them.                                                          *)
(***************************************************************************)
EXTENDS SceneManager, TLAPS

(* TypeOK in parts that the provers take one by one, and that requests     *)
(* have an item where they use one.                                        *)
ItemTypes ==
  /\ edits \in 0 .. MaxEdits /\ added \in 0 .. MaxItems
  /\ name \in [Ids -> Names \cup {None}] /\ kind \in [Ids -> Kinds]
  /\ scene \subseteq Ids /\ sceneItem \subseteq Ids /\ saved \subseteq Ids
  /\ camera_display_ \in Ids \cup {0, None}
  /\ camera_name_ \in Names \cup {None}
  /\ host \in [Ids -> Names \cup {None}]
UiType ==
  ui \in [at : UiSteps, kind : Kinds, item : Ids \cup {0},
          asked : Names \cup {None}, seen : Names \cup {None}, data : SUBSET Ids]
PoolType ==
  pool \in [at : PoolSteps, item : Ids \cup {0}, seen : Names \cup {None}, data : SUBSET Ids]
SetTypes ==
  /\ unsaved \subseteq Ids /\ renamed \subseteq Ids /\ hurried \subseteq Ids
  /\ overtaken \subseteq Ids /\ misdirected \subseteq Ids
FlagTypes == raced \in BOOLEAN /\ crossed \in BOOLEAN

ItemAt ==
  /\ ui.at \in {"attach", "push", "read", "send"} => ui.item \in Ids
  /\ pool.at \in {"detach", "erase", "read", "send"} => pool.item \in Ids

Types == ItemTypes /\ UiType /\ PoolType /\ ItemAt

LEMMA TypeParts == TypeOK <=> ItemTypes /\ UiType /\ PoolType /\ SetTypes /\ FlagTypes
BY DEF TypeOK, ItemTypes, UiType, PoolType, SetTypes, FlagTypes

(* Every way of adding is AddSource for some kind.                         *)
LEMMA AddsOne == ASSUME NEW n, AddSourceData(n) PROVE \E k \in Kinds : AddSource(k, n)
BY DEF Kinds, AddSourceData, AddTextSourceData, AddImageSourceData, AddCaptureSourceData,
       AddPhoneCastingSourceData, AddCameraSourceData

LEMMA ItemTypeStep ==
  Types /\ [Next]_vars => ItemTypes'
<1> SUFFICES ASSUME Types, [Next]_vars PROVE ItemTypes'
  OBVIOUS
<1> USE ItemsAssumption DEF Types, ItemTypes, UiType, PoolType, ItemAt, Ids, Request,
      GoUi, GoPool, items, local, history
<1>1. CASE GenerateUi
  BY <1>1 DEF GenerateUi
<1>2. CASE WriteUi
  BY <1>2 DEF WriteUi
<1>3. CASE GeneratePool
  BY <1>3 DEF GeneratePool
<1>4. CASE WritePool
  BY <1>4 DEF WritePool
<1>5. CASE SceneAdd
  BY <1>5 DEF SceneAdd
<1>6. CASE AddSceneItem
  BY <1>6 DEF AddSceneItem
<1>7. CASE ReadUi
  BY <1>7 DEF ReadUi
<1>8. CASE SendUi
  BY <1>8 DEF SendUi
<1>9. CASE DisplayCamera
  BY <1>9 DEF DisplayCamera, CreateTempDisplay, TempDisplayCameraDestory
<1>10. CASE ReturnCamera
  BY <1>10 DEF ReturnCamera
<1>11. CASE RemoveMissing
  BY <1>11 DEF RemoveMissing
<1>12. CASE RemoveSource
  BY <1>12 DEF RemoveSource
<1>13. CASE EraseItem
  BY <1>13 DEF EraseItem
<1>14. CASE ReadPool
  BY <1>14 DEF ReadPool
<1>15. CASE SendPool
  BY <1>15 DEF SendPool
<1>16. CASE UpdateCursor
  BY <1>16 DEF UpdateCursor
<1>17. ASSUME NEW n \in Names, AddSourceData(n) PROVE ItemTypes'
  <2>1. PICK k \in Kinds : AddSource(k, n)
    BY <1>17, AddsOne
  <2>2. added + 1 \in Ids /\ added' = added + 1
    BY <2>1 DEF AddSource
  <2>3. name' = [name EXCEPT ![added + 1] = n] /\ kind' = [kind EXCEPT ![added + 1] = k]
    BY <2>1 DEF AddSource
  <2>4. UNCHANGED <<edits, scene, sceneItem, camera_display_, camera_name_, host,
        saved>>
    BY <2>1 DEF AddSource
  <2> QED BY <2>2, <2>3, <2>4
<1>18. ASSUME NEW i \in Ids, EditTextSourceData(i) PROVE ItemTypes'
  BY <1>18 DEF EditTextSourceData
<1>19. ASSUME NEW i \in Ids, EditVideoSourceData(i) PROVE ItemTypes'
  BY <1>19 DEF EditVideoSourceData
<1>20. ASSUME NEW i \in Ids, EditByName(i) PROVE ItemTypes'
  BY <1>20 DEF EditByName
<1>21. ASSUME NEW i \in Ids \cup {0}, FindSource(i) PROVE ItemTypes'
  BY <1>21 DEF FindSource
<1>22. ASSUME NEW i \in Ids, Remove(i) PROVE ItemTypes'
  BY <1>22 DEF Remove, TempDisplayCameraDestory
<1>23. ASSUME NEW i \in Ids, NEW n \in Names, Rename(i, n) PROVE ItemTypes'
  BY <1>23 DEF Rename
<1>24. CASE UNCHANGED vars
  BY <1>24 DEF vars
<1> QED
  BY <1>1, <1>2, <1>3, <1>4, <1>5, <1>6, <1>7, <1>8, <1>9, <1>10, <1>11, <1>12, <1>13,
        <1>14, <1>15, <1>16, <1>17, <1>18, <1>19, <1>20, <1>21, <1>22, <1>23, <1>24 DEF
        Next, Saving, Adding, Editing, Removing

LEMMA UiTypeStep ==
  Types /\ [Next]_vars => UiType'
<1> SUFFICES ASSUME Types, [Next]_vars PROVE UiType'
  OBVIOUS
<1> USE ItemsAssumption DEF Types, ItemTypes, UiType, ItemAt, UiSteps, UiIdle, Ids,
      Kinds, GoUi, GoPool, items, local, history
<1>1. CASE GenerateUi
  BY <1>1 DEF GenerateUi
<1>2. CASE WriteUi
  BY <1>2 DEF WriteUi
<1>3. CASE GeneratePool
  BY <1>3 DEF GeneratePool
<1>4. CASE WritePool
  BY <1>4 DEF WritePool
<1>5. CASE SceneAdd
  BY <1>5 DEF SceneAdd
<1>6. CASE AddSceneItem
  BY <1>6 DEF AddSceneItem
<1>7. CASE ReadUi
  BY <1>7 DEF ReadUi
<1>8. CASE SendUi
  BY <1>8 DEF SendUi
<1>9. CASE DisplayCamera
  BY <1>9 DEF DisplayCamera, CreateTempDisplay, TempDisplayCameraDestory
<1>10. CASE ReturnCamera
  BY <1>10 DEF ReturnCamera
<1>11. CASE RemoveMissing
  BY <1>11 DEF RemoveMissing
<1>12. CASE RemoveSource
  BY <1>12 DEF RemoveSource
<1>13. CASE EraseItem
  BY <1>13 DEF EraseItem
<1>14. CASE ReadPool
  BY <1>14 DEF ReadPool
<1>15. CASE SendPool
  BY <1>15 DEF SendPool
<1>16. CASE UpdateCursor
  BY <1>16 DEF UpdateCursor
<1>17. ASSUME NEW n \in Names, AddSourceData(n) PROVE UiType'
  <2>1. PICK k \in Kinds : AddSource(k, n)
    BY <1>17, AddsOne
  <2>2. added' \in Ids
        /\ ui' = [ui EXCEPT !.at = "attach", !.kind = k, !.item = added', !.asked = n]
    BY <2>1 DEF AddSource
  <2> HIDE DEF Ids, Kinds
  <2> QED BY <2>2
<1>18. ASSUME NEW i \in Ids, EditTextSourceData(i) PROVE UiType'
  BY <1>18 DEF EditTextSourceData
<1>19. ASSUME NEW i \in Ids, EditVideoSourceData(i) PROVE UiType'
  BY <1>19 DEF EditVideoSourceData
<1>20. ASSUME NEW i \in Ids, EditByName(i) PROVE UiType'
  BY <1>20 DEF EditByName
<1>21. ASSUME NEW i \in Ids \cup {0}, FindSource(i) PROVE UiType'
  <2>1. PICK to \in {"save", "display", "read", "crashed"} : ui' = [ui EXCEPT !.at = to, !.item =
        i]
    BY <1>21 DEF FindSource
  <2> QED BY <2>1
<1>22. ASSUME NEW i \in Ids, Remove(i) PROVE UiType'
  BY <1>22 DEF Remove, TempDisplayCameraDestory
<1>23. ASSUME NEW i \in Ids, NEW n \in Names, Rename(i, n) PROVE UiType'
  BY <1>23 DEF Rename
<1>24. CASE UNCHANGED vars
  BY <1>24 DEF vars
<1> QED
  BY <1>1, <1>2, <1>3, <1>4, <1>5, <1>6, <1>7, <1>8, <1>9, <1>10, <1>11, <1>12, <1>13,
        <1>14, <1>15, <1>16, <1>17, <1>18, <1>19, <1>20, <1>21, <1>22, <1>23, <1>24 DEF
        Next, Saving, Adding, Editing, Removing

LEMMA PoolTypeStep ==
  Types /\ [Next]_vars => PoolType'
<1> SUFFICES ASSUME Types, [Next]_vars PROVE PoolType'
  OBVIOUS
<1> USE DEF Types, ItemTypes, PoolType, ItemAt, PoolSteps, PoolIdle, GoUi, GoPool,
      items, local, history
<1>1. CASE GenerateUi
  BY <1>1 DEF GenerateUi
<1>2. CASE WriteUi
  BY <1>2 DEF WriteUi
<1>3. CASE GeneratePool
  BY <1>3 DEF GeneratePool
<1>4. CASE WritePool
  BY <1>4 DEF WritePool
<1>5. CASE SceneAdd
  BY <1>5 DEF SceneAdd
<1>6. CASE AddSceneItem
  BY <1>6 DEF AddSceneItem
<1>7. CASE ReadUi
  BY <1>7 DEF ReadUi
<1>8. CASE SendUi
  BY <1>8 DEF SendUi
<1>9. CASE DisplayCamera
  BY <1>9 DEF DisplayCamera, CreateTempDisplay, TempDisplayCameraDestory
<1>10. CASE ReturnCamera
  BY <1>10 DEF ReturnCamera
<1>11. CASE RemoveMissing
  BY <1>11 DEF RemoveMissing
<1>12. CASE RemoveSource
  BY <1>12 DEF RemoveSource
<1>13. CASE EraseItem
  BY <1>13 DEF EraseItem
<1>14. CASE ReadPool
  BY <1>14 DEF ReadPool
<1>15. CASE SendPool
  BY <1>15 DEF SendPool
<1>16. CASE UpdateCursor
  BY <1>16 DEF UpdateCursor
<1>17. ASSUME NEW n \in Names, AddSourceData(n) PROVE PoolType'
  <2>1. PICK k \in Kinds : AddSource(k, n)
    BY <1>17, AddsOne
  <2> QED BY <2>1 DEF AddSource
<1>18. ASSUME NEW i \in Ids, EditTextSourceData(i) PROVE PoolType'
  BY <1>18 DEF EditTextSourceData
<1>19. ASSUME NEW i \in Ids, EditVideoSourceData(i) PROVE PoolType'
  BY <1>19 DEF EditVideoSourceData
<1>20. ASSUME NEW i \in Ids, EditByName(i) PROVE PoolType'
  BY <1>20 DEF EditByName
<1>21. ASSUME NEW i \in Ids \cup {0}, FindSource(i) PROVE PoolType'
  BY <1>21 DEF FindSource
<1>22. ASSUME NEW i \in Ids, Remove(i) PROVE PoolType'
  BY <1>22 DEF Remove, TempDisplayCameraDestory
<1>23. ASSUME NEW i \in Ids, NEW n \in Names, Rename(i, n) PROVE PoolType'
  BY <1>23 DEF Rename
<1>24. CASE UNCHANGED vars
  BY <1>24 DEF vars
<1> QED
  BY <1>1, <1>2, <1>3, <1>4, <1>5, <1>6, <1>7, <1>8, <1>9, <1>10, <1>11, <1>12, <1>13,
        <1>14, <1>15, <1>16, <1>17, <1>18, <1>19, <1>20, <1>21, <1>22, <1>23, <1>24 DEF
        Next, Saving, Adding, Editing, Removing

LEMMA ItemAtStep ==
  Types /\ [Next]_vars => ItemAt'
<1> SUFFICES ASSUME Types, [Next]_vars PROVE ItemAt'
  OBVIOUS
<1> USE ItemsAssumption DEF Types, ItemTypes, UiType, PoolType, ItemAt, UiIdle,
      PoolIdle, Ids, GoUi, GoPool, items, local, history
<1>1. CASE GenerateUi
  BY <1>1 DEF GenerateUi
<1>2. CASE WriteUi
  BY <1>2 DEF WriteUi
<1>3. CASE GeneratePool
  BY <1>3 DEF GeneratePool
<1>4. CASE WritePool
  BY <1>4 DEF WritePool
<1>5. CASE SceneAdd
  BY <1>5 DEF SceneAdd
<1>6. CASE AddSceneItem
  BY <1>6 DEF AddSceneItem
<1>7. CASE ReadUi
  BY <1>7 DEF ReadUi
<1>8. CASE SendUi
  BY <1>8 DEF SendUi
<1>9. CASE DisplayCamera
  BY <1>9 DEF DisplayCamera, CreateTempDisplay, TempDisplayCameraDestory
<1>10. CASE ReturnCamera
  BY <1>10 DEF ReturnCamera
<1>11. CASE RemoveMissing
  BY <1>11 DEF RemoveMissing
<1>12. CASE RemoveSource
  BY <1>12 DEF RemoveSource
<1>13. CASE EraseItem
  BY <1>13 DEF EraseItem
<1>14. CASE ReadPool
  BY <1>14 DEF ReadPool
<1>15. CASE SendPool
  BY <1>15 DEF SendPool
<1>16. CASE UpdateCursor
  BY <1>16 DEF UpdateCursor
<1>17. ASSUME NEW n \in Names, AddSourceData(n) PROVE ItemAt'
  <2>1. PICK k \in Kinds : AddSource(k, n)
    BY <1>17, AddsOne
  <2> QED BY <2>1 DEF AddSource
<1>18. ASSUME NEW i \in Ids, EditTextSourceData(i) PROVE ItemAt'
  BY <1>18 DEF EditTextSourceData
<1>19. ASSUME NEW i \in Ids, EditVideoSourceData(i) PROVE ItemAt'
  BY <1>19 DEF EditVideoSourceData
<1>20. ASSUME NEW i \in Ids, EditByName(i) PROVE ItemAt'
  BY <1>20 DEF EditByName
<1>21. ASSUME NEW i \in Ids \cup {0}, FindSource(i) PROVE ItemAt'
  BY <1>21 DEF FindSource
<1>22. ASSUME NEW i \in Ids, Remove(i) PROVE ItemAt'
  BY <1>22 DEF Remove, TempDisplayCameraDestory
<1>23. ASSUME NEW i \in Ids, NEW n \in Names, Rename(i, n) PROVE ItemAt'
  BY <1>23 DEF Rename
<1>24. CASE UNCHANGED vars
  BY <1>24 DEF vars
<1> QED
  BY <1>1, <1>2, <1>3, <1>4, <1>5, <1>6, <1>7, <1>8, <1>9, <1>10, <1>11, <1>12, <1>13,
        <1>14, <1>15, <1>16, <1>17, <1>18, <1>19, <1>20, <1>21, <1>22, <1>23, <1>24 DEF
        Next, Saving, Adding, Editing, Removing

LEMMA SetTypeStep ==
  Types /\ SetTypes /\ [Next]_vars => SetTypes'
<1> SUFFICES ASSUME Types /\ SetTypes, [Next]_vars PROVE SetTypes'
  OBVIOUS
<1> USE DEF Types, ItemTypes, UiType, PoolType, SetTypes, GoUi, GoPool, items, local,
      history
<1>1. CASE GenerateUi
  BY <1>1 DEF GenerateUi
<1>2. CASE WriteUi
  BY <1>2 DEF WriteUi
<1>3. CASE GeneratePool
  BY <1>3 DEF GeneratePool
<1>4. CASE WritePool
  BY <1>4 DEF WritePool
<1>5. CASE SceneAdd
  BY <1>5 DEF SceneAdd
<1>6. CASE AddSceneItem
  BY <1>6 DEF AddSceneItem
<1>7. CASE ReadUi
  BY <1>7 DEF ReadUi
<1>8. CASE SendUi
  BY <1>8 DEF SendUi
<1>9. CASE DisplayCamera
  BY <1>9 DEF DisplayCamera, CreateTempDisplay, TempDisplayCameraDestory
<1>10. CASE ReturnCamera
  BY <1>10 DEF ReturnCamera
<1>11. CASE RemoveMissing
  BY <1>11 DEF RemoveMissing
<1>12. CASE RemoveSource
  BY <1>12 DEF RemoveSource
<1>13. CASE EraseItem
  BY <1>13 DEF EraseItem
<1>14. CASE ReadPool
  BY <1>14 DEF ReadPool
<1>15. CASE SendPool
  BY <1>15 DEF SendPool
<1>16. CASE UpdateCursor
  BY <1>16 DEF UpdateCursor
<1>17. ASSUME NEW n \in Names, AddSourceData(n) PROVE SetTypes'
  <2>1. PICK k \in Kinds : AddSource(k, n)
    BY <1>17, AddsOne
  <2> QED BY <2>1 DEF AddSource
<1>18. ASSUME NEW i \in Ids, EditTextSourceData(i) PROVE SetTypes'
  BY <1>18 DEF EditTextSourceData
<1>19. ASSUME NEW i \in Ids, EditVideoSourceData(i) PROVE SetTypes'
  BY <1>19 DEF EditVideoSourceData
<1>20. ASSUME NEW i \in Ids, EditByName(i) PROVE SetTypes'
  BY <1>20 DEF EditByName
<1>21. ASSUME NEW i \in Ids \cup {0}, FindSource(i) PROVE SetTypes'
  BY <1>21 DEF FindSource
<1>22. ASSUME NEW i \in Ids, Remove(i) PROVE SetTypes'
  BY <1>22 DEF Remove, TempDisplayCameraDestory
<1>23. ASSUME NEW i \in Ids, NEW n \in Names, Rename(i, n) PROVE SetTypes'
  BY <1>23 DEF Rename
<1>24. CASE UNCHANGED vars
  BY <1>24 DEF vars
<1> QED
  BY <1>1, <1>2, <1>3, <1>4, <1>5, <1>6, <1>7, <1>8, <1>9, <1>10, <1>11, <1>12, <1>13,
        <1>14, <1>15, <1>16, <1>17, <1>18, <1>19, <1>20, <1>21, <1>22, <1>23, <1>24 DEF
        Next, Saving, Adding, Editing, Removing

LEMMA FlagTypeStep ==
  FlagTypes /\ [Next]_vars => FlagTypes'
<1> SUFFICES ASSUME FlagTypes, [Next]_vars PROVE FlagTypes'
  OBVIOUS
<1> USE Zenon DEF FlagTypes, GoUi, GoPool, items, local, history
<1>1. CASE GenerateUi
  BY <1>1 DEF GenerateUi
<1>2. CASE WriteUi
  BY <1>2 DEF WriteUi
<1>3. CASE GeneratePool
  BY <1>3 DEF GeneratePool
<1>4. CASE WritePool
  BY <1>4 DEF WritePool
<1>5. CASE SceneAdd
  BY <1>5 DEF SceneAdd
<1>6. CASE AddSceneItem
  BY <1>6 DEF AddSceneItem
<1>7. CASE ReadUi
  BY <1>7 DEF ReadUi
<1>8. CASE SendUi
  BY <1>8 DEF SendUi
<1>9. CASE DisplayCamera
  BY <1>9 DEF DisplayCamera, CreateTempDisplay, TempDisplayCameraDestory
<1>10. CASE ReturnCamera
  BY <1>10 DEF ReturnCamera
<1>11. CASE RemoveMissing
  BY <1>11 DEF RemoveMissing
<1>12. CASE RemoveSource
  BY <1>12 DEF RemoveSource
<1>13. CASE EraseItem
  BY <1>13 DEF EraseItem
<1>14. CASE ReadPool
  BY <1>14 DEF ReadPool
<1>15. CASE SendPool
  BY <1>15 DEF SendPool
<1>16. CASE UpdateCursor
  BY <1>16 DEF UpdateCursor
<1>17. ASSUME NEW n \in Names, AddSourceData(n) PROVE FlagTypes'
  <2>1. PICK k \in Kinds : AddSource(k, n)
    BY <1>17, AddsOne
  <2> QED BY <2>1 DEF AddSource
<1>18. ASSUME NEW i \in Ids, EditTextSourceData(i) PROVE FlagTypes'
  BY <1>18 DEF EditTextSourceData
<1>19. ASSUME NEW i \in Ids, EditVideoSourceData(i) PROVE FlagTypes'
  BY <1>19 DEF EditVideoSourceData
<1>20. ASSUME NEW i \in Ids, EditByName(i) PROVE FlagTypes'
  BY <1>20 DEF EditByName
<1>21. ASSUME NEW i \in Ids \cup {0}, FindSource(i) PROVE FlagTypes'
  BY <1>21 DEF FindSource
<1>22. ASSUME NEW i \in Ids, Remove(i) PROVE FlagTypes'
  BY <1>22 DEF Remove, TempDisplayCameraDestory
<1>23. ASSUME NEW i \in Ids, NEW n \in Names, Rename(i, n) PROVE FlagTypes'
  BY <1>23 DEF Rename
<1>24. CASE UNCHANGED vars
  BY <1>24 DEF vars
<1> QED
  BY <1>1, <1>2, <1>3, <1>4, <1>5, <1>6, <1>7, <1>8, <1>9, <1>10, <1>11, <1>12, <1>13,
        <1>14, <1>15, <1>16, <1>17, <1>18, <1>19, <1>20, <1>21, <1>22, <1>23, <1>24 DEF
        Next, Saving, Adding, Editing, Removing

LEMMA TypesInit == Init => Types /\ SetTypes /\ FlagTypes
<1> SUFFICES ASSUME Init PROVE Types /\ SetTypes /\ FlagTypes
  OBVIOUS
<1>1. ItemTypes
  BY ItemsAssumption DEF Init, ItemTypes, Kinds
<1>2. UiType
  BY DEF Init, UiType, UiSteps, UiIdle, Kinds
<1>3. PoolType
  BY DEF Init, PoolType, PoolSteps, PoolIdle
<1>4. ItemAt /\ SetTypes /\ FlagTypes
  BY DEF Init, ItemAt, SetTypes, FlagTypes, UiIdle, PoolIdle
<1> QED BY <1>1, <1>2, <1>3, <1>4 DEF Types

LEMMA TypesStep == Types /\ [Next]_vars => Types'
BY ItemTypeStep, UiTypeStep, PoolTypeStep, ItemAtStep DEF Types

(* All operations keep to their types, for every number of items and       *)
(* requests.                                                               *)
THEOREM TypeCorrect == Spec => []TypeOK
<1> DEFINE Inv == Types /\ SetTypes /\ FlagTypes
<1>1. Init => Inv
  BY TypesInit
<1>2. Inv /\ [Next]_vars => Inv'
  BY TypesStep, SetTypeStep, FlagTypeStep
<1>3. Inv => TypeOK
  BY TypeParts DEF Types
<1> QED
  BY <1>1, <1>2, <1>3, PTL DEF Spec

-----------------------------------------------------------------------------
(* The list is the scene.                                                  *)

(* Items that were never added are nowhere, and the others have names.     *)
Counted ==
  /\ \A i \in Ids : i > added => i \notin scene \cup sceneItem /\ host[i] = None
  /\ \A i \in Ids : i <= added => name[i] \in Names

(* An item that is being added is the last one, and the host does not know *)
(* it, so that the pool has nothing to do with it.                         *)
AddingLast ==
  /\ ui.at \in {"attach", "push"} =>
       /\ ui.item = added /\ added > 0
       /\ host[added] = None /\ added \notin sceneItem
  /\ ui.at = "attach" => added \notin scene
  /\ ui.at = "push" => added \in scene

(* What the pool works on was reported, and is in the scene until it is    *)
(* detached.                                                               *)
PoolKnows ==
  /\ pool.at \in {"detach", "erase", "read", "send"} =>
       pool.item \in 1 .. added /\ Known(pool.item)
  /\ pool.at = "detach" => pool.item \in scene
  /\ pool.at = "erase" => pool.item \notin scene

(* Reports name items.                                                     *)
ReportsName ==
  /\ ui.at \in {"read", "send"} => ui.item \in 1 .. added
  /\ ui.at = "send" => ui.seen \in Names
  /\ pool.at = "send" => pool.seen \in Names


LEMMA CountedStep ==
  Types /\ Counted /\ AddingLast /\ ReportsName /\ PoolKnows /\ [Next]_vars => Counted'
<1> SUFFICES ASSUME Types /\ Counted /\ AddingLast /\ ReportsName /\ PoolKnows,
      [Next]_vars PROVE Counted'
  OBVIOUS
<1> USE ItemsAssumption, NoneAssumption DEF Types, ItemTypes, UiType, PoolType, ItemAt,
      Ids, Known, UiIdle, PoolIdle, GoUi, GoPool, items, local, history, Counted,
      AddingLast, ReportsName, PoolKnows
<1>1. CASE GenerateUi
  BY <1>1 DEF GenerateUi
<1>2. CASE WriteUi
  BY <1>2 DEF WriteUi
<1>3. CASE GeneratePool
  BY <1>3 DEF GeneratePool
<1>4. CASE WritePool
  BY <1>4 DEF WritePool
<1>5. CASE SceneAdd
  BY <1>5 DEF SceneAdd
<1>6. CASE AddSceneItem
  BY <1>6 DEF AddSceneItem
<1>7. CASE ReadUi
  BY <1>7 DEF ReadUi
<1>8. CASE SendUi
  BY <1>8 DEF SendUi
<1>9. CASE DisplayCamera
  BY <1>9 DEF DisplayCamera, CreateTempDisplay, TempDisplayCameraDestory
<1>10. CASE ReturnCamera
  BY <1>10 DEF ReturnCamera
<1>11. CASE RemoveMissing
  BY <1>11 DEF RemoveMissing
<1>12. CASE RemoveSource
  BY <1>12 DEF RemoveSource
<1>13. CASE EraseItem
  BY <1>13 DEF EraseItem
<1>14. CASE ReadPool
  BY <1>14 DEF ReadPool
<1>15. CASE SendPool
  BY <1>15 DEF SendPool
<1>16. CASE UpdateCursor
  BY <1>16 DEF UpdateCursor
<1>17. ASSUME NEW n \in Names, AddSourceData(n) PROVE Counted'
  <2>1. PICK k \in Kinds : AddSource(k, n)
    BY <1>17, AddsOne
  <2> QED BY <2>1 DEF AddSource
<1>18. ASSUME NEW i \in Ids, EditTextSourceData(i) PROVE Counted'
  BY <1>18 DEF EditTextSourceData
<1>19. ASSUME NEW i \in Ids, EditVideoSourceData(i) PROVE Counted'
  BY <1>19 DEF EditVideoSourceData
<1>20. ASSUME NEW i \in Ids, EditByName(i) PROVE Counted'
  BY <1>20 DEF EditByName
<1>21. ASSUME NEW i \in Ids \cup {0}, FindSource(i) PROVE Counted'
  BY <1>21 DEF FindSource
<1>22. ASSUME NEW i \in Ids, Remove(i) PROVE Counted'
  BY <1>22 DEF Remove, TempDisplayCameraDestory
<1>23. ASSUME NEW i \in Ids, NEW n \in Names, Rename(i, n) PROVE Counted'
  BY <1>23 DEF Rename
<1>24. CASE UNCHANGED vars
  BY <1>24 DEF vars
<1> QED
  BY <1>1, <1>2, <1>3, <1>4, <1>5, <1>6, <1>7, <1>8, <1>9, <1>10, <1>11, <1>12, <1>13,
        <1>14, <1>15, <1>16, <1>17, <1>18, <1>19, <1>20, <1>21, <1>22, <1>23, <1>24 DEF
        Next, Saving, Adding, Editing, Removing

LEMMA AddingStep ==
  Types /\ Counted /\ AddingLast /\ PoolKnows /\ [Next]_vars => AddingLast'
<1> SUFFICES ASSUME Types /\ Counted /\ AddingLast /\ PoolKnows, [Next]_vars PROVE
      AddingLast'
  OBVIOUS
<1> USE ItemsAssumption, NoneAssumption DEF Types, ItemTypes, UiType, PoolType, ItemAt,
      Ids, Known, UiIdle, PoolIdle, GoUi, GoPool, items, local, history, Counted,
      AddingLast, PoolKnows
<1>1. CASE GenerateUi
  BY <1>1 DEF GenerateUi
<1>2. CASE WriteUi
  BY <1>2 DEF WriteUi
<1>3. CASE GeneratePool
  BY <1>3 DEF GeneratePool
<1>4. CASE WritePool
  BY <1>4 DEF WritePool
<1>5. CASE SceneAdd
  BY <1>5 DEF SceneAdd
<1>6. CASE AddSceneItem
  BY <1>6 DEF AddSceneItem
<1>7. CASE ReadUi
  BY <1>7 DEF ReadUi
<1>8. CASE SendUi
  BY <1>8 DEF SendUi
<1>9. CASE DisplayCamera
  BY <1>9 DEF DisplayCamera, CreateTempDisplay, TempDisplayCameraDestory
<1>10. CASE ReturnCamera
  BY <1>10 DEF ReturnCamera
<1>11. CASE RemoveMissing
  BY <1>11 DEF RemoveMissing
<1>12. CASE RemoveSource
  BY <1>12 DEF RemoveSource
<1>13. CASE EraseItem
  BY <1>13 DEF EraseItem
<1>14. CASE ReadPool
  BY <1>14 DEF ReadPool
<1>15. CASE SendPool
  BY <1>15 DEF SendPool
<1>16. CASE UpdateCursor
  BY <1>16 DEF UpdateCursor
<1>17. ASSUME NEW n \in Names, AddSourceData(n) PROVE AddingLast'
  <2>1. PICK k \in Kinds : AddSource(k, n)
    BY <1>17, AddsOne
  <2> QED BY <2>1 DEF AddSource
<1>18. ASSUME NEW i \in Ids, EditTextSourceData(i) PROVE AddingLast'
  BY <1>18 DEF EditTextSourceData
<1>19. ASSUME NEW i \in Ids, EditVideoSourceData(i) PROVE AddingLast'
  BY <1>19 DEF EditVideoSourceData
<1>20. ASSUME NEW i \in Ids, EditByName(i) PROVE AddingLast'
  BY <1>20 DEF EditByName
<1>21. ASSUME NEW i \in Ids \cup {0}, FindSource(i) PROVE AddingLast'
  BY <1>21 DEF FindSource
<1>22. ASSUME NEW i \in Ids, Remove(i) PROVE AddingLast'
  BY <1>22 DEF Remove, TempDisplayCameraDestory
<1>23. ASSUME NEW i \in Ids, NEW n \in Names, Rename(i, n) PROVE AddingLast'
  BY <1>23 DEF Rename
<1>24. CASE UNCHANGED vars
  BY <1>24 DEF vars
<1> QED
  BY <1>1, <1>2, <1>3, <1>4, <1>5, <1>6, <1>7, <1>8, <1>9, <1>10, <1>11, <1>12, <1>13,
        <1>14, <1>15, <1>16, <1>17, <1>18, <1>19, <1>20, <1>21, <1>22, <1>23, <1>24 DEF
        Next, Saving, Adding, Editing, Removing

LEMMA PoolKnowsStep ==
  Types /\ Counted /\ AddingLast /\ ReportsName /\ PoolKnows /\ [Next]_vars =>
        PoolKnows'
<1> SUFFICES ASSUME Types /\ Counted /\ AddingLast /\ ReportsName /\ PoolKnows,
      [Next]_vars PROVE PoolKnows'
  OBVIOUS
<1> USE ItemsAssumption, NoneAssumption DEF Types, ItemTypes, UiType, PoolType, ItemAt,
      Ids, Known, UiIdle, PoolIdle, GoUi, GoPool, items, local, history, Counted,
      AddingLast, ReportsName, PoolKnows
<1>1. CASE GenerateUi
  BY <1>1 DEF GenerateUi
<1>2. CASE WriteUi
  BY <1>2 DEF WriteUi
<1>3. CASE GeneratePool
  BY <1>3 DEF GeneratePool
<1>4. CASE WritePool
  BY <1>4 DEF WritePool
<1>5. CASE SceneAdd
  BY <1>5 DEF SceneAdd
<1>6. CASE AddSceneItem
  BY <1>6 DEF AddSceneItem
<1>7. CASE ReadUi
  BY <1>7 DEF ReadUi
<1>8. CASE SendUi
  BY <1>8 DEF SendUi
<1>9. CASE DisplayCamera
  BY <1>9 DEF DisplayCamera, CreateTempDisplay, TempDisplayCameraDestory
<1>10. CASE ReturnCamera
  BY <1>10 DEF ReturnCamera
<1>11. CASE RemoveMissing
  BY <1>11 DEF RemoveMissing
<1>12. CASE RemoveSource
  BY <1>12 DEF RemoveSource
<1>13. CASE EraseItem
  BY <1>13 DEF EraseItem
<1>14. CASE ReadPool
  BY <1>14 DEF ReadPool
<1>15. CASE SendPool
  BY <1>15 DEF SendPool
<1>16. CASE UpdateCursor
  BY <1>16 DEF UpdateCursor
<1>17. ASSUME NEW n \in Names, AddSourceData(n) PROVE PoolKnows'
  <2>1. PICK k \in Kinds : AddSource(k, n)
    BY <1>17, AddsOne
  <2> QED BY <2>1 DEF AddSource
<1>18. ASSUME NEW i \in Ids, EditTextSourceData(i) PROVE PoolKnows'
  BY <1>18 DEF EditTextSourceData
<1>19. ASSUME NEW i \in Ids, EditVideoSourceData(i) PROVE PoolKnows'
  BY <1>19 DEF EditVideoSourceData
<1>20. ASSUME NEW i \in Ids, EditByName(i) PROVE PoolKnows'
  BY <1>20 DEF EditByName
<1>21. ASSUME NEW i \in Ids \cup {0}, FindSource(i) PROVE PoolKnows'
  BY <1>21 DEF FindSource
<1>22. ASSUME NEW i \in Ids, Remove(i) PROVE PoolKnows'
  BY <1>22 DEF Remove, TempDisplayCameraDestory
<1>23. ASSUME NEW i \in Ids, NEW n \in Names, Rename(i, n) PROVE PoolKnows'
  BY <1>23 DEF Rename
<1>24. CASE UNCHANGED vars
  BY <1>24 DEF vars
<1> QED
  BY <1>1, <1>2, <1>3, <1>4, <1>5, <1>6, <1>7, <1>8, <1>9, <1>10, <1>11, <1>12, <1>13,
        <1>14, <1>15, <1>16, <1>17, <1>18, <1>19, <1>20, <1>21, <1>22, <1>23, <1>24 DEF
        Next, Saving, Adding, Editing, Removing

LEMMA ReportsStep ==
  Types /\ Counted /\ AddingLast /\ PoolKnows /\ ReportsName /\ [Next]_vars =>
        ReportsName'
<1> SUFFICES ASSUME Types /\ Counted /\ AddingLast /\ PoolKnows /\ ReportsName,
      [Next]_vars PROVE ReportsName'
  OBVIOUS
<1> USE ItemsAssumption, NoneAssumption DEF Types, ItemTypes, UiType, PoolType, ItemAt,
      Ids, Known, UiIdle, PoolIdle, GoUi, GoPool, items, local, history, Counted,
      AddingLast, PoolKnows, ReportsName
<1>1. CASE GenerateUi
  BY <1>1 DEF GenerateUi
<1>2. CASE WriteUi
  BY <1>2 DEF WriteUi
<1>3. CASE GeneratePool
  BY <1>3 DEF GeneratePool
<1>4. CASE WritePool
  BY <1>4 DEF WritePool
<1>5. CASE SceneAdd
  BY <1>5 DEF SceneAdd
<1>6. CASE AddSceneItem
  BY <1>6 DEF AddSceneItem
<1>7. CASE ReadUi
  BY <1>7 DEF ReadUi
<1>8. CASE SendUi
  BY <1>8 DEF SendUi
<1>9. CASE DisplayCamera
  BY <1>9 DEF DisplayCamera, CreateTempDisplay, TempDisplayCameraDestory
<1>10. CASE ReturnCamera
  BY <1>10 DEF ReturnCamera
<1>11. CASE RemoveMissing
  BY <1>11 DEF RemoveMissing
<1>12. CASE RemoveSource
  BY <1>12 DEF RemoveSource
<1>13. CASE EraseItem
  BY <1>13 DEF EraseItem
<1>14. CASE ReadPool
  BY <1>14 DEF ReadPool
<1>15. CASE SendPool
  BY <1>15 DEF SendPool
<1>16. CASE UpdateCursor
  BY <1>16 DEF UpdateCursor
<1>17. ASSUME NEW n \in Names, AddSourceData(n) PROVE ReportsName'
  <2>1. PICK k \in Kinds : AddSource(k, n)
    BY <1>17, AddsOne
  <2> QED BY <2>1 DEF AddSource
<1>18. ASSUME NEW i \in Ids, EditTextSourceData(i) PROVE ReportsName'
  BY <1>18 DEF EditTextSourceData
<1>19. ASSUME NEW i \in Ids, EditVideoSourceData(i) PROVE ReportsName'
  BY <1>19 DEF EditVideoSourceData
<1>20. ASSUME NEW i \in Ids, EditByName(i) PROVE ReportsName'
  BY <1>20 DEF EditByName
<1>21. ASSUME NEW i \in Ids \cup {0}, FindSource(i) PROVE ReportsName'
  <2>1. PICK to \in {"save", "display", "read", "crashed"} : ui' = [ui EXCEPT !.at = to, !.item =
        i]
    BY <1>21 DEF FindSource
  <2>2. to = "read" => i \in scene
    BY <1>21, <2>1 DEF FindSource, Found
  <2>3. UNCHANGED <<items, pool>>
    BY <1>21 DEF FindSource
  <2> QED BY <2>1, <2>2, <2>3
<1>22. ASSUME NEW i \in Ids, Remove(i) PROVE ReportsName'
  BY <1>22 DEF Remove, TempDisplayCameraDestory
<1>23. ASSUME NEW i \in Ids, NEW n \in Names, Rename(i, n) PROVE ReportsName'
  BY <1>23 DEF Rename
<1>24. CASE UNCHANGED vars
  BY <1>24 DEF vars
<1> QED
  BY <1>1, <1>2, <1>3, <1>4, <1>5, <1>6, <1>7, <1>8, <1>9, <1>10, <1>11, <1>12, <1>13,
        <1>14, <1>15, <1>16, <1>17, <1>18, <1>19, <1>20, <1>21, <1>22, <1>23, <1>24 DEF
        Next, Saving, Adding, Editing, Removing

LEMMA ListStep ==
  Types /\ Counted /\ AddingLast /\ PoolKnows /\ ListIsScene /\ [Next]_vars =>
        ListIsScene'
<1> SUFFICES ASSUME Types /\ Counted /\ AddingLast /\ PoolKnows /\ ListIsScene,
      [Next]_vars PROVE ListIsScene'
  OBVIOUS
<1> USE ItemsAssumption, NoneAssumption DEF Types, ItemTypes, UiType, PoolType, ItemAt,
      Ids, Known, UiIdle, PoolIdle, GoUi, GoPool, items, local, history, Counted,
      AddingLast, PoolKnows, ListIsScene
<1>1. CASE GenerateUi
  BY <1>1 DEF GenerateUi
<1>2. CASE WriteUi
  BY <1>2 DEF WriteUi
<1>3. CASE GeneratePool
  BY <1>3 DEF GeneratePool
<1>4. CASE WritePool
  BY <1>4 DEF WritePool
<1>5. CASE SceneAdd
  BY <1>5 DEF SceneAdd
<1>6. CASE AddSceneItem
  <2>1. CASE pool.at = "erase"
    <3>1. raced'
      BY <1>6, <2>1, Zenon DEF AddSceneItem
    <3> QED BY <3>1
  <2>2. CASE pool.at # "erase"
    <3>1. /\ raced => raced'
          /\ sceneItem' = sceneItem \cup {ui.item}
          /\ ui.at = "push" /\ ui' = [ui EXCEPT !.at = "read"]
          /\ UNCHANGED <<scene, pool>>
      BY <1>6, <2>2, Zenon DEF AddSceneItem
    <3> QED BY <2>2, <3>1
  <2> QED BY <2>1, <2>2
<1>7. CASE ReadUi
  BY <1>7 DEF ReadUi
<1>8. CASE SendUi
  BY <1>8 DEF SendUi
<1>9. CASE DisplayCamera
  BY <1>9 DEF DisplayCamera, CreateTempDisplay, TempDisplayCameraDestory
<1>10. CASE ReturnCamera
  BY <1>10 DEF ReturnCamera
<1>11. CASE RemoveMissing
  BY <1>11 DEF RemoveMissing
<1>12. CASE RemoveSource
  BY <1>12 DEF RemoveSource
<1>13. CASE EraseItem
  BY <1>13 DEF EraseItem
<1>14. CASE ReadPool
  BY <1>14 DEF ReadPool
<1>15. CASE SendPool
  BY <1>15 DEF SendPool
<1>16. CASE UpdateCursor
  BY <1>16 DEF UpdateCursor
<1>17. ASSUME NEW n \in Names, AddSourceData(n) PROVE ListIsScene'
  <2>1. PICK k \in Kinds : AddSource(k, n)
    BY <1>17, AddsOne
  <2> QED BY <2>1 DEF AddSource
<1>18. ASSUME NEW i \in Ids, EditTextSourceData(i) PROVE ListIsScene'
  BY <1>18 DEF EditTextSourceData
<1>19. ASSUME NEW i \in Ids, EditVideoSourceData(i) PROVE ListIsScene'
  BY <1>19 DEF EditVideoSourceData
<1>20. ASSUME NEW i \in Ids, EditByName(i) PROVE ListIsScene'
  BY <1>20 DEF EditByName
<1>21. ASSUME NEW i \in Ids \cup {0}, FindSource(i) PROVE ListIsScene'
  BY <1>21 DEF FindSource
<1>22. ASSUME NEW i \in Ids, Remove(i) PROVE ListIsScene'
  BY <1>22 DEF Remove, TempDisplayCameraDestory
<1>23. ASSUME NEW i \in Ids, NEW n \in Names, Rename(i, n) PROVE ListIsScene'
  BY <1>23 DEF Rename
<1>24. CASE UNCHANGED vars
  BY <1>24 DEF vars
<1> QED
  BY <1>1, <1>2, <1>3, <1>4, <1>5, <1>6, <1>7, <1>8, <1>9, <1>10, <1>11, <1>12, <1>13,
        <1>14, <1>15, <1>16, <1>17, <1>18, <1>19, <1>20, <1>21, <1>22, <1>23, <1>24 DEF
        Next, Saving, Adding, Editing, Removing

PlaceInv == Types /\ Counted /\ AddingLast /\ PoolKnows /\ ReportsName

LEMMA PlaceInit == Init => PlaceInv /\ ListIsScene
<1> SUFFICES ASSUME Init PROVE PlaceInv /\ ListIsScene
  OBVIOUS
<1>1. Types
  BY TypesInit
<1> QED
  BY <1>1, ItemsAssumption DEF Init, PlaceInv, Counted, AddingLast, PoolKnows, ReportsName,
     ListIsScene, Ids, UiIdle, PoolIdle

LEMMA PlaceStep == PlaceInv /\ [Next]_vars => PlaceInv'
BY TypesStep, CountedStep, AddingStep, PoolKnowsStep, ReportsStep DEF PlaceInv

(* Removal finds every item of the scene and only those: the list and the  *)
(* scene differ by the item being added and the one being removed, unless  *)
(* the vector was changed by two threads at once.                          *)
THEOREM ListFollowsScene == Spec => []ListIsScene
<1>1. PlaceInv /\ ListIsScene /\ [Next]_vars => (PlaceInv /\ ListIsScene)'
  BY PlaceStep, ListStep DEF PlaceInv
<1> QED
  BY PlaceInit, <1>1, PTL DEF Spec

-----------------------------------------------------------------------------
(* The temporary display.                                                  *)

(* A camera request holds an item that has the name it asked for and is in *)
(* the scene.                                                              *)
CameraHeld ==
  /\ ui.at = "find" => ui.kind \in {"camera", "phone"}
  /\ ui.at = "display" => ui.kind = "camera"
  /\ ui.kind = "camera" /\ ui.item \in Ids
     /\ ui.at \in {"attach", "push", "read", "send", "display"} =>
       name[ui.item] = ui.asked \/ ui.item \in renamed
  /\ ui.kind = "camera" /\ ui.item \in Ids /\ ui.at \in {"push", "read", "send", "display"} =>
       ui.item \in scene \cup hurried

(* The display is found by its camera's name, and closed before that is    *)
(* detached.                                                               *)
DisplayNamed ==
  camera_display_ \in Ids \ (renamed \cup hurried) =>
    /\ camera_display_ \in scene
    /\ camera_name_ = name[camera_display_]
    /\ ~(pool.at = "detach" /\ pool.item = camera_display_)

LEMMA CameraStep ==
  Types /\ Counted /\ PoolKnows /\ AddingLast /\ CameraHeld /\ [Next]_vars =>
        CameraHeld'
<1> SUFFICES ASSUME Types /\ Counted /\ PoolKnows /\ AddingLast /\ CameraHeld,
      [Next]_vars PROVE CameraHeld'
  OBVIOUS
<1> USE ItemsAssumption, NoneAssumption DEF Types, ItemTypes, UiType, PoolType, ItemAt,
      Ids, Known, UiIdle, PoolIdle, GoUi, GoPool, items, local, history, Counted,
      PoolKnows, AddingLast, CameraHeld, InRequest, Found
<1>1. CASE GenerateUi
  BY <1>1 DEF GenerateUi
<1>2. CASE WriteUi
  BY <1>2 DEF WriteUi
<1>3. CASE GeneratePool
  BY <1>3 DEF GeneratePool
<1>4. CASE WritePool
  BY <1>4 DEF WritePool
<1>5. CASE SceneAdd
  BY <1>5 DEF SceneAdd
<1>6. CASE AddSceneItem
  BY <1>6 DEF AddSceneItem
<1>7. CASE ReadUi
  BY <1>7 DEF ReadUi
<1>8. CASE SendUi
  BY <1>8 DEF SendUi
<1>9. CASE DisplayCamera
  BY <1>9 DEF DisplayCamera, CreateTempDisplay, TempDisplayCameraDestory
<1>10. CASE ReturnCamera
  BY <1>10 DEF ReturnCamera
<1>11. CASE RemoveMissing
  BY <1>11 DEF RemoveMissing
<1>12. CASE RemoveSource
  BY <1>12 DEF RemoveSource
<1>13. CASE EraseItem
  BY <1>13 DEF EraseItem
<1>14. CASE ReadPool
  BY <1>14 DEF ReadPool
<1>15. CASE SendPool
  BY <1>15 DEF SendPool
<1>16. CASE UpdateCursor
  BY <1>16 DEF UpdateCursor
<1>17. ASSUME NEW n \in Names, AddSourceData(n) PROVE CameraHeld'
  <2>1. PICK k \in Kinds : AddSource(k, n)
    BY <1>17, AddsOne
  <2> QED BY <2>1 DEF AddSource
<1>18. ASSUME NEW i \in Ids, EditTextSourceData(i) PROVE CameraHeld'
  BY <1>18 DEF EditTextSourceData
<1>19. ASSUME NEW i \in Ids, EditVideoSourceData(i) PROVE CameraHeld'
  BY <1>19 DEF EditVideoSourceData
<1>20. ASSUME NEW i \in Ids, EditByName(i) PROVE CameraHeld'
  BY <1>20 DEF EditByName
<1>21. ASSUME NEW i \in Ids \cup {0}, FindSource(i) PROVE CameraHeld'
  BY <1>21 DEF FindSource
<1>22. ASSUME NEW i \in Ids, Remove(i) PROVE CameraHeld'
  BY <1>22 DEF Remove, TempDisplayCameraDestory
<1>23. ASSUME NEW i \in Ids, NEW n \in Names, Rename(i, n) PROVE CameraHeld'
  BY <1>23 DEF Rename
<1>24. CASE UNCHANGED vars
  BY <1>24 DEF vars
<1> QED
  BY <1>1, <1>2, <1>3, <1>4, <1>5, <1>6, <1>7, <1>8, <1>9, <1>10, <1>11, <1>12, <1>13,
        <1>14, <1>15, <1>16, <1>17, <1>18, <1>19, <1>20, <1>21, <1>22, <1>23, <1>24 DEF
        Next, Saving, Adding, Editing, Removing

LEMMA DisplayStep ==
  Types /\ Counted /\ PoolKnows /\ AddingLast /\ CameraHeld /\ DisplayNamed /\
        [Next]_vars => DisplayNamed'
<1> SUFFICES ASSUME Types /\ Counted /\ PoolKnows /\ AddingLast /\ CameraHeld /\
      DisplayNamed, [Next]_vars PROVE DisplayNamed'
  OBVIOUS
<1> USE ItemsAssumption, NoneAssumption DEF Types, ItemTypes, UiType, PoolType, ItemAt,
      Ids, Known, UiIdle, PoolIdle, GoUi, GoPool, items, local, history, Counted,
      PoolKnows, AddingLast, CameraHeld, DisplayNamed, InRequest
<1>1. CASE GenerateUi
  BY <1>1 DEF GenerateUi
<1>2. CASE WriteUi
  BY <1>2 DEF WriteUi
<1>3. CASE GeneratePool
  BY <1>3 DEF GeneratePool
<1>4. CASE WritePool
  BY <1>4 DEF WritePool
<1>5. CASE SceneAdd
  BY <1>5 DEF SceneAdd
<1>6. CASE AddSceneItem
  BY <1>6 DEF AddSceneItem
<1>7. CASE ReadUi
  BY <1>7 DEF ReadUi
<1>8. CASE SendUi
  BY <1>8 DEF SendUi
<1>9. CASE DisplayCamera
  BY <1>9 DEF DisplayCamera, CreateTempDisplay, TempDisplayCameraDestory
<1>10. CASE ReturnCamera
  BY <1>10 DEF ReturnCamera
<1>11. CASE RemoveMissing
  BY <1>11 DEF RemoveMissing
<1>12. CASE RemoveSource
  BY <1>12 DEF RemoveSource
<1>13. CASE EraseItem
  BY <1>13 DEF EraseItem
<1>14. CASE ReadPool
  BY <1>14 DEF ReadPool
<1>15. CASE SendPool
  BY <1>15 DEF SendPool
<1>16. CASE UpdateCursor
  BY <1>16 DEF UpdateCursor
<1>17. ASSUME NEW n \in Names, AddSourceData(n) PROVE DisplayNamed'
  <2>1. PICK k \in Kinds : AddSource(k, n)
    BY <1>17, AddsOne
  <2> QED BY <2>1 DEF AddSource
<1>18. ASSUME NEW i \in Ids, EditTextSourceData(i) PROVE DisplayNamed'
  BY <1>18 DEF EditTextSourceData
<1>19. ASSUME NEW i \in Ids, EditVideoSourceData(i) PROVE DisplayNamed'
  BY <1>19 DEF EditVideoSourceData
<1>20. ASSUME NEW i \in Ids, EditByName(i) PROVE DisplayNamed'
  BY <1>20 DEF EditByName
<1>21. ASSUME NEW i \in Ids \cup {0}, FindSource(i) PROVE DisplayNamed'
  BY <1>21 DEF FindSource
<1>22. ASSUME NEW i \in Ids, Remove(i) PROVE DisplayNamed'
  BY <1>22 DEF Remove, TempDisplayCameraDestory
<1>23. ASSUME NEW i \in Ids, NEW n \in Names, Rename(i, n) PROVE DisplayNamed'
  BY <1>23 DEF Rename
<1>24. CASE UNCHANGED vars
  BY <1>24 DEF vars
<1> QED
  BY <1>1, <1>2, <1>3, <1>4, <1>5, <1>6, <1>7, <1>8, <1>9, <1>10, <1>11, <1>12, <1>13,
        <1>14, <1>15, <1>16, <1>17, <1>18, <1>19, <1>20, <1>21, <1>22, <1>23, <1>24 DEF
        Next, Saving, Adding, Editing, Removing

(* The display draws a source that lives, unless the camera was renamed or *)
(* removed during the request that opened the display.                     *)
THEOREM DisplayIsLive == Spec => []DisplayDrawsLiveSource
<1> DEFINE Inv == PlaceInv /\ CameraHeld /\ DisplayNamed
<1>1. Init => Inv
  BY PlaceInit, NoneAssumption DEF Init, CameraHeld, DisplayNamed, UiIdle, PoolIdle, Ids
<1>2. Inv /\ [Next]_vars => Inv'
  BY PlaceStep, CameraStep, DisplayStep DEF PlaceInv
<1>3. Inv => DisplayDrawsLiveSource
  BY DEF DisplayNamed, DisplayDrawsLiveSource, Alive
<1> QED
  BY <1>1, <1>2, <1>3, PTL DEF Spec

-----------------------------------------------------------------------------
(* What the host is told, and what its requests mean.                      *)

(* What the host knows of an item is its name, or its name is on the way,  *)
(* unless a rename overtook the report.                                    *)
NameOnTheWay(i) ==
  \/ ui.item = i /\ ui.at \in {"push", "read"}
  \/ ui.item = i /\ ui.at = "send" /\ ui.seen = name[i]
  \/ pool.item = i /\ pool.at = "read"
  \/ pool.item = i /\ pool.at = "send" /\ pool.seen = name[i]

HostHears ==
  /\ \A i \in scene : host[i] = name[i] \/ i \in overtaken \/ NameOnTheWay(i)
  /\ ui.at = "send" => ui.seen = name[ui.item] \/ ui.item \in overtaken
  /\ pool.at = "send" => pool.seen = name[pool.item]

(* Without renames and phones no two live sources have one name.  Without  *)
(* renames a request asks for the name of the item it means, so that none  *)
(* is found only if that one is gone.                                      *)
Plain == renamed = {} /\ \A i \in Ids : i <= added => kind[i] # "phone"

InUse(i) == i \in scene \cup sceneItem \/ (ui.at = "attach" /\ ui.item = i)

NamesApart ==
  Plain =>
    /\ misdirected = {}
    /\ \A i, j \in Ids : InUse(i) /\ InUse(j) /\ name[i] = name[j] => i = j

NamesKnown ==
  renamed = {} =>
    /\ \A i \in Ids : Known(i) => host[i] = name[i]
    /\ ui.at = "send" => ui.seen = name[ui.item]
    /\ pool.at = "send" => pool.seen = name[pool.item]
    /\ ui.at = "find" => /\ ui.item \in Ids /\ ui.asked = name[ui.item]
                         /\ Known(ui.item) /\ kind[ui.item] = ui.kind
                         /\ ui.kind \in {"camera", "phone"}
    /\ ui.at = "crashed" => \E i \in Ids \ scene : Known(i) /\ kind[i] = "camera"

LEMMA HearsStep ==
  Types /\ Counted /\ PoolKnows /\ AddingLast /\ ReportsName /\ HostHears /\ [Next]_vars
        => HostHears'
<1> SUFFICES ASSUME Types /\ Counted /\ PoolKnows /\ AddingLast /\ ReportsName /\
      HostHears, [Next]_vars PROVE HostHears'
  OBVIOUS
<1> USE ItemsAssumption, NoneAssumption DEF Types, ItemTypes, UiType, PoolType, ItemAt,
      Ids, Known, UiIdle, PoolIdle, GoUi, GoPool, items, local, history, Counted,
      PoolKnows, AddingLast, ReportsName, HostHears, NameOnTheWay
<1>1. CASE GenerateUi
  BY <1>1 DEF GenerateUi
<1>2. CASE WriteUi
  BY <1>2 DEF WriteUi
<1>3. CASE GeneratePool
  BY <1>3 DEF GeneratePool
<1>4. CASE WritePool
  BY <1>4 DEF WritePool
<1>5. CASE SceneAdd
  BY <1>5 DEF SceneAdd
<1>6. CASE AddSceneItem
  BY <1>6 DEF AddSceneItem
<1>7. CASE ReadUi
  BY <1>7 DEF ReadUi
<1>8. CASE SendUi
  BY <1>8 DEF SendUi
<1>9. CASE DisplayCamera
  BY <1>9 DEF DisplayCamera, CreateTempDisplay, TempDisplayCameraDestory
<1>10. CASE ReturnCamera
  BY <1>10 DEF ReturnCamera
<1>11. CASE RemoveMissing
  BY <1>11 DEF RemoveMissing
<1>12. CASE RemoveSource
  BY <1>12 DEF RemoveSource
<1>13. CASE EraseItem
  BY <1>13 DEF EraseItem
<1>14. CASE ReadPool
  BY <1>14 DEF ReadPool
<1>15. CASE SendPool
  BY <1>15 DEF SendPool
<1>16. CASE UpdateCursor
  BY <1>16 DEF UpdateCursor
<1>17. ASSUME NEW n \in Names, AddSourceData(n) PROVE HostHears'
  <2>1. PICK k \in Kinds : AddSource(k, n)
    BY <1>17, AddsOne
  <2> QED BY <2>1 DEF AddSource
<1>18. ASSUME NEW i \in Ids, EditTextSourceData(i) PROVE HostHears'
  BY <1>18 DEF EditTextSourceData
<1>19. ASSUME NEW i \in Ids, EditVideoSourceData(i) PROVE HostHears'
  BY <1>19 DEF EditVideoSourceData
<1>20. ASSUME NEW i \in Ids, EditByName(i) PROVE HostHears'
  BY <1>20 DEF EditByName
<1>21. ASSUME NEW i \in Ids \cup {0}, FindSource(i) PROVE HostHears'
  BY <1>21 DEF FindSource
<1>22. ASSUME NEW i \in Ids, Remove(i) PROVE HostHears'
  BY <1>22 DEF Remove, TempDisplayCameraDestory
<1>23. ASSUME NEW i \in Ids, NEW n \in Names, Rename(i, n) PROVE HostHears'
  BY <1>23 DEF Rename
<1>24. CASE UNCHANGED vars
  BY <1>24 DEF vars
<1> QED
  BY <1>1, <1>2, <1>3, <1>4, <1>5, <1>6, <1>7, <1>8, <1>9, <1>10, <1>11, <1>12, <1>13,
        <1>14, <1>15, <1>16, <1>17, <1>18, <1>19, <1>20, <1>21, <1>22, <1>23, <1>24 DEF
        Next, Saving, Adding, Editing, Removing

LEMMA KnownStep ==
  Types /\ Counted /\ PoolKnows /\ AddingLast /\ ReportsName /\ NamesKnown /\
        [Next]_vars => NamesKnown'
<1> SUFFICES ASSUME Types /\ Counted /\ PoolKnows /\ AddingLast /\ ReportsName /\
      NamesKnown, [Next]_vars PROVE NamesKnown'
  OBVIOUS
<1> USE ItemsAssumption, NoneAssumption DEF Types, ItemTypes, UiType, PoolType, ItemAt,
      Ids, Known, UiIdle, PoolIdle, GoUi, GoPool, items, local, history, Counted,
      PoolKnows, AddingLast, ReportsName, NamesKnown, Found
<1>1. CASE GenerateUi
  BY <1>1 DEF GenerateUi
<1>2. CASE WriteUi
  BY <1>2 DEF WriteUi
<1>3. CASE GeneratePool
  BY <1>3 DEF GeneratePool
<1>4. CASE WritePool
  BY <1>4 DEF WritePool
<1>5. CASE SceneAdd
  BY <1>5 DEF SceneAdd
<1>6. CASE AddSceneItem
  BY <1>6 DEF AddSceneItem
<1>7. CASE ReadUi
  BY <1>7 DEF ReadUi
<1>8. CASE SendUi
  BY <1>8 DEF SendUi
<1>9. CASE DisplayCamera
  BY <1>9 DEF DisplayCamera, CreateTempDisplay, TempDisplayCameraDestory
<1>10. CASE ReturnCamera
  BY <1>10 DEF ReturnCamera
<1>11. CASE RemoveMissing
  BY <1>11 DEF RemoveMissing
<1>12. CASE RemoveSource
  BY <1>12 DEF RemoveSource
<1>13. CASE EraseItem
  BY <1>13 DEF EraseItem
<1>14. CASE ReadPool
  BY <1>14 DEF ReadPool
<1>15. CASE SendPool
  BY <1>15 DEF SendPool
<1>16. CASE UpdateCursor
  BY <1>16 DEF UpdateCursor
<1>17. ASSUME NEW n \in Names, AddSourceData(n) PROVE NamesKnown'
  <2>1. PICK k \in Kinds : AddSource(k, n) /\ (k = "phone" \/ GetUniqueNameForSource(n))
    BY <1>17 DEF Kinds, AddSourceData, AddTextSourceData, AddImageSourceData,
          AddCaptureSourceData, AddPhoneCastingSourceData, AddCameraSourceData
  <2>2. added + 1 \in Ids /\ added' = added + 1
    BY <2>1 DEF AddSource
  <2>3. name' = [name EXCEPT ![added + 1] = n] /\ kind' = [kind EXCEPT ![added + 1] = k]
    BY <2>1 DEF AddSource
  <2>4. ui' = [ui EXCEPT !.at = "attach", !.kind = k, !.item = added + 1, !.asked = n]
    BY <2>1, <2>2 DEF AddSource
  <2>5. UNCHANGED <<scene, sceneItem, host, pool, renamed, misdirected>>
    BY <2>1 DEF AddSource
  <2> QED BY <2>2, <2>3, <2>4, <2>5
<1>18. ASSUME NEW i \in Ids, EditTextSourceData(i) PROVE NamesKnown'
  BY <1>18 DEF EditTextSourceData
<1>19. ASSUME NEW i \in Ids, EditVideoSourceData(i) PROVE NamesKnown'
  BY <1>19 DEF EditVideoSourceData
<1>20. ASSUME NEW i \in Ids, EditByName(i) PROVE NamesKnown'
  BY <1>20 DEF EditByName
<1>21. ASSUME NEW i \in Ids \cup {0}, FindSource(i) PROVE NamesKnown'
  <2>1. PICK to \in {"save", "display", "read", "crashed"} :
          /\ ui' = [ui EXCEPT !.at = to, !.item = i]
          /\ to = "crashed" => i = 0 /\ ui.kind # "phone"
    BY <1>21 DEF FindSource
  <2>2. ui.at = "find" /\ Found(i)
        /\ UNCHANGED <<name, kind, scene, host, pool, renamed>>
    BY <1>21 DEF FindSource
  <2>3. ui'.at = to
    BY <2>1
  <2>4. CASE to # "crashed"
    BY <2>1, <2>2, <2>3, <2>4
  <2>5. CASE to = "crashed" /\ renamed = {}
    <3>1. ui.item \in Ids /\ Known(ui.item) /\ kind[ui.item] = ui.kind
      BY <2>2, <2>5
    <3>2. ui.item \notin scene
      BY <2>1, <2>2, <2>5
    <3>3. ui.kind = "camera"
      BY <2>1, <2>2, <2>5
    <3> QED BY <2>2, <2>3, <2>5, <3>1, <3>2, <3>3
  <2> QED BY <2>2, <2>4, <2>5
<1>22. ASSUME NEW i \in Ids, Remove(i) PROVE NamesKnown'
  BY <1>22 DEF Remove, TempDisplayCameraDestory
<1>23. ASSUME NEW i \in Ids, NEW n \in Names, Rename(i, n) PROVE NamesKnown'
  BY <1>23 DEF Rename
<1>24. CASE UNCHANGED vars
  BY <1>24 DEF vars
<1> QED
  BY <1>1, <1>2, <1>3, <1>4, <1>5, <1>6, <1>7, <1>8, <1>9, <1>10, <1>11, <1>12, <1>13,
        <1>14, <1>15, <1>16, <1>17, <1>18, <1>19, <1>20, <1>21, <1>22, <1>23, <1>24 DEF
        Next, Saving, Adding, Editing, Removing

LEMMA NamesStep ==
  Types /\ Counted /\ PoolKnows /\ AddingLast /\ ReportsName /\ NamesKnown /\ NamesApart /\
        [Next]_vars => NamesApart'
<1> SUFFICES ASSUME Types /\ Counted /\ PoolKnows /\ AddingLast /\ ReportsName /\
      NamesKnown /\ NamesApart, [Next]_vars PROVE NamesApart'
  OBVIOUS
<1> USE ItemsAssumption, NoneAssumption DEF Types, ItemTypes, UiType, PoolType, ItemAt,
      Ids, Known, UiIdle, PoolIdle, GoUi, GoPool, items, local, history, Counted,
      PoolKnows, AddingLast, ReportsName, NamesKnown, NamesApart, Plain, InUse, Found,
      GetUniqueNameForSource, Alive
<1>1. CASE GenerateUi
  BY <1>1 DEF GenerateUi
<1>2. CASE WriteUi
  BY <1>2 DEF WriteUi
<1>3. CASE GeneratePool
  BY <1>3 DEF GeneratePool
<1>4. CASE WritePool
  BY <1>4 DEF WritePool
<1>5. CASE SceneAdd
  BY <1>5 DEF SceneAdd
<1>6. CASE AddSceneItem
  BY <1>6 DEF AddSceneItem
<1>7. CASE ReadUi
  BY <1>7 DEF ReadUi
<1>8. CASE SendUi
  BY <1>8 DEF SendUi
<1>9. CASE DisplayCamera
  BY <1>9 DEF DisplayCamera, CreateTempDisplay, TempDisplayCameraDestory
<1>10. CASE ReturnCamera
  BY <1>10 DEF ReturnCamera
<1>11. CASE RemoveMissing
  BY <1>11 DEF RemoveMissing
<1>12. CASE RemoveSource
  BY <1>12 DEF RemoveSource
<1>13. CASE EraseItem
  BY <1>13 DEF EraseItem
<1>14. CASE ReadPool
  BY <1>14 DEF ReadPool
<1>15. CASE SendPool
  BY <1>15 DEF SendPool
<1>16. CASE UpdateCursor
  BY <1>16 DEF UpdateCursor
<1>17. ASSUME NEW n \in Names, AddSourceData(n) PROVE NamesApart'
  <2>1. PICK k \in Kinds : AddSource(k, n) /\ (k = "phone" \/ GetUniqueNameForSource(n))
    BY <1>17 DEF Kinds, AddSourceData, AddTextSourceData, AddImageSourceData,
          AddCaptureSourceData, AddPhoneCastingSourceData, AddCameraSourceData
  <2>2. added + 1 \in Ids /\ added' = added + 1
    BY <2>1 DEF AddSource
  <2>3. name' = [name EXCEPT ![added + 1] = n] /\ kind' = [kind EXCEPT ![added + 1] = k]
    BY <2>1 DEF AddSource
  <2>4. ui' = [ui EXCEPT !.at = "attach", !.kind = k, !.item = added + 1, !.asked = n]
    BY <2>1, <2>2 DEF AddSource
  <2>5. UNCHANGED <<scene, sceneItem, host, pool, renamed, misdirected>>
    BY <2>1 DEF AddSource
  <2>6. CASE k = "phone"
    <3>1. kind'[added + 1] = "phone"
      BY <2>2, <2>3, <2>6
    <3> QED BY <2>2, <3>1
  <2>7. CASE k # "phone" /\ GetUniqueNameForSource(n)
    <3>1. Plain' => Plain
      BY <2>2, <2>3, <2>5, <2>7
    <3>2. \A i \in Ids : InUse(i)' => i = added + 1 \/ i \in scene \cup sceneItem
      BY <2>2, <2>4, <2>5
    <3>3. \A i \in Ids : i \in scene \cup sceneItem => name[i] # n /\ i <= added
      BY <2>7
    <3>4. \A i, j \in Ids : Plain' /\ InUse(i)' /\ InUse(j)' /\ name'[i] = name'[j] => i
          = j
      BY <2>2, <2>3, <3>1, <3>2, <3>3
    <3> QED BY <2>2, <2>3, <2>4, <2>5, <3>1, <3>4
  <2> QED BY <2>1, <2>6, <2>7
<1>18. ASSUME NEW i \in Ids, EditTextSourceData(i) PROVE NamesApart'
  BY <1>18 DEF EditTextSourceData
<1>19. ASSUME NEW i \in Ids, EditVideoSourceData(i) PROVE NamesApart'
  BY <1>19 DEF EditVideoSourceData
<1>20. ASSUME NEW i \in Ids, EditByName(i) PROVE NamesApart'
  BY <1>20 DEF EditByName
<1>21. ASSUME NEW i \in Ids \cup {0}, FindSource(i) PROVE NamesApart'
  BY <1>21 DEF FindSource
<1>22. ASSUME NEW i \in Ids, Remove(i) PROVE NamesApart'
  BY <1>22 DEF Remove, TempDisplayCameraDestory
<1>23. ASSUME NEW i \in Ids, NEW n \in Names, Rename(i, n) PROVE NamesApart'
  BY <1>23 DEF Rename
<1>24. CASE UNCHANGED vars
  BY <1>24 DEF vars
<1> QED
  BY <1>1, <1>2, <1>3, <1>4, <1>5, <1>6, <1>7, <1>8, <1>9, <1>10, <1>11, <1>12, <1>13,
        <1>14, <1>15, <1>16, <1>17, <1>18, <1>19, <1>20, <1>21, <1>22, <1>23, <1>24 DEF
        Next, Saving, Adding, Editing, Removing

(* Between requests the host has the name of every item of the scene,      *)
(* unless a rename overtook a report.                                      *)
THEOREM HostHearsNames == Spec => []HostKnowsNames
<1> DEFINE Inv == PlaceInv /\ HostHears
<1>1. Init => Inv
  BY PlaceInit DEF Init, HostHears, UiIdle, PoolIdle
<1>2. Inv /\ [Next]_vars => Inv'
  BY PlaceStep, HearsStep DEF PlaceInv
<1>3. Inv => HostKnowsNames
  BY DEF HostHears, NameOnTheWay, HostKnowsNames
<1> QED
  BY <1>1, <1>2, <1>3, PTL DEF Spec

(* A request that names an item in the scene reaches it, as long as        *)
(* nothing was renamed and no phone, whose name is taken as given, added.  *)
THEOREM RequestsReachTheirItem == Spec => []EditsReachTheirItem
<1> DEFINE Inv == PlaceInv /\ NamesKnown /\ NamesApart
<1>1. Init => Inv
  <2> SUFFICES ASSUME Init PROVE NamesKnown /\ NamesApart
    BY PlaceInit
  <2> QED BY ItemsAssumption DEF Init, NamesKnown, NamesApart, InUse, Known, UiIdle, PoolIdle
<1>2. Inv /\ [Next]_vars => Inv'
  BY PlaceStep, KnownStep, NamesStep DEF PlaceInv
<1>3. Inv => EditsReachTheirItem
  BY DEF NamesKnown, NamesApart, Plain, EditsReachTheirItem
<1> QED
  BY <1>1, <1>2, <1>3, PTL DEF Spec

-----------------------------------------------------------------------------
(* The project on disk.                                                    *)

(* What the project will hold when the saves under way are written.        *)
ToBeSaved ==
  IF ui.at = "write" THEN ui.data ELSE IF pool.at = "write" THEN pool.data ELSE saved

(* An item that is not in the scene yet was never saved.                   *)
SavedLater ==
  \A i \in Ids : i > added \/ (ui.at = "attach" /\ ui.item = i) =>
    /\ i \notin saved
    /\ ui.at = "write" => i \notin ui.data
    /\ pool.at = "write" => i \notin pool.data

(* While no saves cross, an item that is not saved is still to be saved by *)
(* the request that added it, and one that is saved but gone by the one    *)
(* that removed it.                                                        *)
SavesFollow ==
  ~crossed =>
    /\ ~(ui.at = "write" /\ pool.at = "write")
    /\ saved \cap scene \subseteq ToBeSaved
    /\ \A i \in scene \ ToBeSaved :
         \/ i \in unsaved
         \/ ui.item = i /\ ui.at \in {"push", "read", "send", "display", "return", "save"}
    /\ \A i \in ToBeSaved \ scene : pool.item = i /\ pool.at \in {"erase", "save"}

LEMMA SavedLaterStep ==
  Types /\ Counted /\ PoolKnows /\ AddingLast /\ SavedLater /\ [Next]_vars =>
        SavedLater'
<1> SUFFICES ASSUME Types /\ Counted /\ PoolKnows /\ AddingLast /\ SavedLater,
      [Next]_vars PROVE SavedLater'
  OBVIOUS
<1> USE ItemsAssumption, NoneAssumption DEF Types, ItemTypes, UiType, PoolType, ItemAt,
      Ids, Known, UiIdle, PoolIdle, GoUi, GoPool, items, local, history, Counted,
      PoolKnows, AddingLast, SavedLater
<1>1. CASE GenerateUi
  BY <1>1 DEF GenerateUi
<1>2. CASE WriteUi
  BY <1>2 DEF WriteUi
<1>3. CASE GeneratePool
  BY <1>3 DEF GeneratePool
<1>4. CASE WritePool
  BY <1>4 DEF WritePool
<1>5. CASE SceneAdd
  BY <1>5 DEF SceneAdd
<1>6. CASE AddSceneItem
  BY <1>6 DEF AddSceneItem
<1>7. CASE ReadUi
  BY <1>7 DEF ReadUi
<1>8. CASE SendUi
  BY <1>8 DEF SendUi
<1>9. CASE DisplayCamera
  BY <1>9 DEF DisplayCamera, CreateTempDisplay, TempDisplayCameraDestory
<1>10. CASE ReturnCamera
  BY <1>10 DEF ReturnCamera
<1>11. CASE RemoveMissing
  BY <1>11 DEF RemoveMissing
<1>12. CASE RemoveSource
  BY <1>12 DEF RemoveSource
<1>13. CASE EraseItem
  BY <1>13 DEF EraseItem
<1>14. CASE ReadPool
  BY <1>14 DEF ReadPool
<1>15. CASE SendPool
  BY <1>15 DEF SendPool
<1>16. CASE UpdateCursor
  BY <1>16 DEF UpdateCursor
<1>17. ASSUME NEW n \in Names, AddSourceData(n) PROVE SavedLater'
  <2>1. PICK k \in Kinds : AddSource(k, n)
    BY <1>17, AddsOne
  <2> QED BY <2>1 DEF AddSource
<1>18. ASSUME NEW i \in Ids, EditTextSourceData(i) PROVE SavedLater'
  BY <1>18 DEF EditTextSourceData
<1>19. ASSUME NEW i \in Ids, EditVideoSourceData(i) PROVE SavedLater'
  BY <1>19 DEF EditVideoSourceData
<1>20. ASSUME NEW i \in Ids, EditByName(i) PROVE SavedLater'
  BY <1>20 DEF EditByName
<1>21. ASSUME NEW i \in Ids \cup {0}, FindSource(i) PROVE SavedLater'
  BY <1>21 DEF FindSource
<1>22. ASSUME NEW i \in Ids, Remove(i) PROVE SavedLater'
  BY <1>22 DEF Remove, TempDisplayCameraDestory
<1>23. ASSUME NEW i \in Ids, NEW n \in Names, Rename(i, n) PROVE SavedLater'
  BY <1>23 DEF Rename
<1>24. CASE UNCHANGED vars
  BY <1>24 DEF vars
<1> QED
  BY <1>1, <1>2, <1>3, <1>4, <1>5, <1>6, <1>7, <1>8, <1>9, <1>10, <1>11, <1>12, <1>13,
        <1>14, <1>15, <1>16, <1>17, <1>18, <1>19, <1>20, <1>21, <1>22, <1>23, <1>24 DEF
        Next, Saving, Adding, Editing, Removing

LEMMA SavesStep ==
  Types /\ Counted /\ PoolKnows /\ AddingLast /\ ReportsName /\ SavedLater /\
        SavesFollow /\ [Next]_vars => SavesFollow'
<1> SUFFICES ASSUME Types /\ Counted /\ PoolKnows /\ AddingLast /\ ReportsName /\
      SavedLater /\ SavesFollow, [Next]_vars PROVE SavesFollow'
  OBVIOUS
<1> USE ItemsAssumption, NoneAssumption DEF Types, ItemTypes, UiType, PoolType, ItemAt,
      Ids, Known, UiIdle, PoolIdle, GoUi, GoPool, items, local, history, Counted,
      PoolKnows, AddingLast, ReportsName, SavedLater, SavesFollow, ToBeSaved
<1>1. CASE GenerateUi
  BY <1>1 DEF GenerateUi
<1>2. CASE WriteUi
  BY <1>2 DEF WriteUi
<1>3. CASE GeneratePool
  BY <1>3 DEF GeneratePool
<1>4. CASE WritePool
  BY <1>4 DEF WritePool
<1>5. CASE SceneAdd
  BY <1>5 DEF SceneAdd
<1>6. CASE AddSceneItem
  BY <1>6 DEF AddSceneItem
<1>7. CASE ReadUi
  BY <1>7 DEF ReadUi
<1>8. CASE SendUi
  BY <1>8 DEF SendUi
<1>9. CASE DisplayCamera
  BY <1>9 DEF DisplayCamera, CreateTempDisplay, TempDisplayCameraDestory
<1>10. CASE ReturnCamera
  BY <1>10 DEF ReturnCamera
<1>11. CASE RemoveMissing
  BY <1>11 DEF RemoveMissing
<1>12. CASE RemoveSource
  BY <1>12 DEF RemoveSource
<1>13. CASE EraseItem
  BY <1>13 DEF EraseItem
<1>14. CASE ReadPool
  BY <1>14 DEF ReadPool
<1>15. CASE SendPool
  BY <1>15 DEF SendPool
<1>16. CASE UpdateCursor
  BY <1>16 DEF UpdateCursor
<1>17. ASSUME NEW n \in Names, AddSourceData(n) PROVE SavesFollow'
  <2>1. PICK k \in Kinds : AddSource(k, n)
    BY <1>17, AddsOne
  <2> QED BY <2>1 DEF AddSource
<1>18. ASSUME NEW i \in Ids, EditTextSourceData(i) PROVE SavesFollow'
  BY <1>18 DEF EditTextSourceData
<1>19. ASSUME NEW i \in Ids, EditVideoSourceData(i) PROVE SavesFollow'
  BY <1>19 DEF EditVideoSourceData
<1>20. ASSUME NEW i \in Ids, EditByName(i) PROVE SavesFollow'
  BY <1>20 DEF EditByName
<1>21. ASSUME NEW i \in Ids \cup {0}, FindSource(i) PROVE SavesFollow'
  BY <1>21 DEF FindSource
<1>22. ASSUME NEW i \in Ids, Remove(i) PROVE SavesFollow'
  BY <1>22 DEF Remove, TempDisplayCameraDestory
<1>23. ASSUME NEW i \in Ids, NEW n \in Names, Rename(i, n) PROVE SavesFollow'
  BY <1>23 DEF Rename
<1>24. CASE UNCHANGED vars
  BY <1>24 DEF vars
<1> QED
  BY <1>1, <1>2, <1>3, <1>4, <1>5, <1>6, <1>7, <1>8, <1>9, <1>10, <1>11, <1>12, <1>13,
        <1>14, <1>15, <1>16, <1>17, <1>18, <1>19, <1>20, <1>21, <1>22, <1>23, <1>24 DEF
        Next, Saving, Adding, Editing, Removing

(* Between requests the project holds the items of the scene, but for      *)
(* cameras whose request did not save, unless two saves crossed.           *)
THEOREM ProjectFollowsScene == Spec => []SavedIsScene
<1> DEFINE Inv == PlaceInv /\ SavedLater /\ SavesFollow
<1>1. Init => Inv
  BY PlaceInit DEF Init, SavedLater, SavesFollow, ToBeSaved, UiIdle, PoolIdle
<1>2. Inv /\ [Next]_vars => Inv'
  BY PlaceStep, SavedLaterStep, SavesStep DEF PlaceInv
<1>3. Inv => SavedIsScene
  BY DEF SavesFollow, ToBeSaved, SavedIsScene
<1> QED
  BY <1>1, <1>2, <1>3, PTL DEF Spec

=============================================================================
