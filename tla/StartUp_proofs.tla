---------------------------- MODULE StartUp_proofs ----------------------------
(***************************************************************************)
(* Proofs about StartUp: the types, what the host hears of a start, and    *)
(* what becomes of the project on disk, wherever the messages of the host  *)
(* fall in the start of the process.                                       *)
(***************************************************************************)
EXTENDS StartUp, SequenceTheorems, TLAPS

-----------------------------------------------------------------------------
(* Types.                                                                  *)

(* The assumptions, by what the proofs use of them.                        *)
LEMMA ProjectTypes ==
  /\ None \notin Seq([key : Ids, id : Ids])
  /\ Absent \notin [items : Seq(Ids), counter : Ids \cup {0}]
  /\ \A project \in Projects :
       project = Absent \/ project \in [items : Seq(Ids), counter : Ids \cup {0}]
<1>1. 0 .. MaxId = Ids \cup {0}
  BY BoundAssumption DEF Ids
<1> QED
  BY <1>1, ProjectAssumption DEF Ids

Items == [key : Ids, id : Ids]

(* A sequence without one of its elements.                                 *)
LEMMA RemoveAtProperties ==
  ASSUME NEW S, NEW s \in Seq(S), NEW i \in 1 .. Len(s)
  PROVE  /\ RemoveAt(s, i) \in Seq(S)
         /\ Len(RemoveAt(s, i)) = Len(s) - 1
         /\ \A j \in 1 .. Len(s) - 1 :
              RemoveAt(s, i)[j] = IF j < i THEN s[j] ELSE s[j + 1]
<1> DEFINE before == SubSeq(s, 1, i - 1)
           after == SubSeq(s, i + 1, Len(s))
<1>1. Len(s) \in Nat /\ \A j \in 1 .. Len(s) : s[j] \in S
  BY ElementOfSeq, LenProperties
<1>2. /\ before \in Seq(S) /\ Len(before) = i - 1
      /\ \A j \in 1 .. i - 1 : before[j] = s[j]
  <2>1. 1 \in Int /\ i - 1 \in Int /\ \A j \in 1 .. i - 1 : s[j] \in S
    BY <1>1
  <2>2. /\ before \in Seq(S)
        /\ Len(before) = IF 1 <= i - 1 THEN (i - 1) - 1 + 1 ELSE 0
        /\ \A j \in 1 .. (i - 1) - 1 + 1 : before[j] = s[1 + j - 1]
    BY <2>1, SubSeqProperties
  <2> HIDE DEF before
  <2> QED
    BY <1>1, <2>2
<1>3. /\ after \in Seq(S) /\ Len(after) = Len(s) - i
      /\ \A j \in 1 .. Len(s) - i : after[j] = s[i + j]
  <2>1. i + 1 \in Int /\ Len(s) \in Int /\ \A j \in i + 1 .. Len(s) : s[j] \in S
    BY <1>1
  <2>2. /\ after \in Seq(S)
        /\ Len(after) = IF i + 1 <= Len(s) THEN Len(s) - (i + 1) + 1 ELSE 0
        /\ \A j \in 1 .. Len(s) - (i + 1) + 1 : after[j] = s[(i + 1) + j - 1]
    BY <2>1, SubSeqProperties
  <2> HIDE DEF after
  <2> QED
    BY <1>1, <2>2
<1> HIDE DEF before, after
<1>4. RemoveAt(s, i) = before \o after
  BY DEF RemoveAt, before, after
<1>5. /\ before \o after \in Seq(S)
      /\ Len(before \o after) = Len(before) + Len(after)
      /\ \A j \in 1 .. Len(before) + Len(after) : (before \o after)[j] =
           IF j <= Len(before) THEN before[j] ELSE after[j - Len(before)]
  BY <1>2, <1>3, ConcatProperties, Zenon
<1> QED
  BY <1>1, <1>2, <1>3, <1>4, <1>5

(* The scene, by its items.                                                *)
LEMMA SceneTypes ==
  ASSUME TypeOK, scene # None
  PROVE  /\ scene \in Seq(Items) /\ Len(scene) \in Nat
         /\ DOMAIN scene = 1 .. Len(scene)
         /\ \A i \in DOMAIN scene : scene[i].key \in Ids /\ scene[i].id \in Ids
<1>1. scene \in Seq(Items)
  BY DEF TypeOK, Items
<1>2. \A i \in 1 .. Len(scene) : scene[i] \in Items
  BY <1>1, ElementOfSeq
<1> QED
  BY <1>1, <1>2, LenProperties DEF Items

(* A project saved is a project.                                           *)
LEMMA SavedTypes ==
  ASSUME TypeOK, SaveProject
  PROVE  /\ json' = Absent \/ json' \in [items : Seq(Ids), counter : Ids \cup {0}]
         /\ json # Absent => json' # Absent
<1>1. CASE ~is_initialize_
  BY <1>1 DEF TypeOK, SaveProject
<1>2. CASE is_initialize_ /\ scene = None
  <2>1. [items |-> <<>>, counter |-> 0] \in [items : Seq(Ids), counter : Ids \cup {0}]
    BY EmptySeq
  <2> QED
    BY <1>2, <2>1, ProjectTypes DEF SaveProject
<1>3. CASE is_initialize_ /\ scene # None
  <2>1. [i \in 1 .. Len(scene) |-> scene[i].id] \in Seq(Ids)
    BY <1>3, SceneTypes
  <2>2. json' = [items |-> [i \in 1 .. Len(scene) |-> scene[i].id], counter |-> id_counter]
    BY <1>3, SceneTypes DEF SaveProject
  <2>3. json' \in [items : Seq(Ids), counter : Ids \cup {0}]
    BY <2>1, <2>2 DEF TypeOK
  <2> QED
    BY <2>3, ProjectTypes
<1> QED
  BY <1>1, <1>2, <1>3

(* A message more: what is in the queues stays there.                      *)
LEMMA DispatchTypes ==
  ASSUME TypeOK, NEW message \in Messages, Dispatch(message)
  PROVE  TypeOK'
<1> DEFINE m == Len(sent) + 1
<1>1. sent' \in Seq(Messages) /\ Len(sent') = m /\ m <= MaxRequests
  BY DEF TypeOK, Dispatch, Requests
<1>2. DOMAIN sent \subseteq DOMAIN sent' /\ m \in DOMAIN sent'
  BY <1>1 DEF TypeOK
<1>3. uiQueue' \in Seq(DOMAIN sent') /\ poolQueue' \in Seq(DOMAIN sent')
  <2>1. uiQueue \in Seq(DOMAIN sent') /\ poolQueue \in Seq(DOMAIN sent')
    BY <1>2 DEF TypeOK
  <2>2. /\ uiQueue' \in {uiQueue, Append(uiQueue, m)}
        /\ poolQueue' \in {poolQueue, Append(poolQueue, m)}
    BY DEF Dispatch, PostToUi, PostToPool
  <2>3. /\ Append(uiQueue, m) \in Seq(DOMAIN sent')
        /\ Append(poolQueue, m) \in Seq(DOMAIN sent')
    BY <1>2, <2>1
  <2> QED
    BY <2>1, <2>2, <2>3
<1>4. process' \in {"up", "crashed", "ended"}
  BY DEF TypeOK, Dispatch, PostToUi, PostToPool
<1> QED
  BY <1>1, <1>3, <1>4 DEF TypeOK, Dispatch, state, history

(* The messages of the threads' tasks, and what they read in them.         *)
LEMMA HeadTypes ==
  ASSUME TypeOK
  PROVE  /\ uiQueue # <<>> =>
              /\ Head(uiQueue) \in Requests /\ Head(uiQueue) \in DOMAIN sent
              /\ Tail(uiQueue) \in Seq(DOMAIN sent)
         /\ poolQueue # <<>> =>
              /\ Head(poolQueue) \in Requests /\ Head(poolQueue) \in DOMAIN sent
              /\ Tail(poolQueue) \in Seq(DOMAIN sent)
         /\ toLoad # <<>> => Head(toLoad) \in Ids /\ Tail(toLoad) \in Seq(Ids)
<1>1. DOMAIN sent \subseteq Requests
  BY BoundAssumption DEF TypeOK, Requests
<1> QED
  BY <1>1, HeadTailProperties DEF TypeOK

(* An item more.                                                           *)
LEMMA CountTypes ==
  ASSUME TypeOK, id_counter < MaxId
  PROVE  id_counter + 1 \in Ids
BY BoundAssumption DEF TypeOK, Ids

LEMMA AddTypes ==
  ASSUME TypeOK, scene # None, NEW key \in Ids, NEW id \in Ids,
         scene' = Append(scene, [key |-> key, id |-> id])
  PROVE  /\ scene' \in Seq(Items) /\ scene' # None
         /\ Len(scene') = Len(scene) + 1
         /\ \A i \in 1 .. Len(scene) : scene'[i] = scene[i]
         /\ scene'[Len(scene) + 1] = [key |-> key, id |-> id]
<1> DEFINE item == [key |-> key, id |-> id]
<1>1. item \in Items
  BY DEF Items
<1> HIDE DEF item
<1>2. scene \in Seq(Items) /\ Len(scene) \in Nat
  BY SceneTypes
<1>3. Append(scene, item) \in Seq(Items) /\ scene' = Append(scene, item)
  BY <1>1, <1>2, AppendProperties DEF item
<1>4. scene' # None
  BY <1>3, ProjectTypes DEF Items
<1>5. /\ Len(scene') = Len(scene) + 1
      /\ \A i \in 1 .. Len(scene) : scene'[i] = scene[i]
      /\ scene'[Len(scene) + 1] = item
  BY <1>1, <1>2, <1>3, AppendProperties
<1> QED
  BY <1>3, <1>4, <1>5 DEF item

LEMMA RemoveTypes ==
  ASSUME TypeOK, scene # None, NEW i \in DOMAIN scene, scene' = RemoveAt(scene, i)
  PROVE  /\ scene' \in Seq(Items) /\ scene' # None
         /\ Len(scene') = Len(scene) - 1
         /\ \A j \in 1 .. Len(scene) - 1 : scene'[j] = IF j < i THEN scene[j] ELSE scene[j + 1]
<1>1. i \in 1 .. Len(scene) /\ scene \in Seq(Items)
  BY SceneTypes
<1>2. scene' \in Seq(Items)
  BY <1>1, RemoveAtProperties
<1> QED
  BY <1>1, <1>2, RemoveAtProperties, ProjectTypes DEF Items

LEMMA LoadItemIdTypes ==
  ASSUME TypeOK, scene # None, toLoad # <<>>, LoadItemId
  PROVE  /\ scene' \in Seq(Items) /\ scene' # None
         /\ Len(scene') = Len(scene)
         /\ \A i \in 1 .. Len(scene) :
              /\ scene'[i].key = scene[i].key
              /\ scene'[i].id = IF scene[i].key = Head(toLoad) THEN Head(toLoad) ELSE scene[i].id
<1> DEFINE new(i) ==
      [scene[i] EXCEPT !.id = IF scene[i].key = Head(toLoad) THEN Head(toLoad) ELSE @]
<1>1. \A i \in 1 .. Len(scene) : scene[i] \in Items
  BY SceneTypes, ElementOfSeq
<1>2. \A i \in 1 .. Len(scene) :
        /\ new(i) \in Items
        /\ new(i).key = scene[i].key
        /\ new(i).id = IF scene[i].key = Head(toLoad) THEN Head(toLoad) ELSE scene[i].id
  BY <1>1, HeadTypes DEF Items
<1>3. scene' = [i \in 1 .. Len(scene) |-> new(i)]
  BY SceneTypes DEF LoadItemId
<1> HIDE DEF new
<1>4. [i \in 1 .. Len(scene) |-> new(i)] \in Seq(Items)
  BY <1>2, SceneTypes, IsASeq
<1>5. Len(scene') = Len(scene)
  BY <1>3, SceneTypes
<1> QED
  BY <1>2, <1>3, <1>4, <1>5, SceneTypes, ProjectTypes DEF Items

(* While items are loaded there are a project and a scene, and an item     *)
(* that waits for its id is the first still to load.                       *)
StageInv ==
  /\ ui.at \in {"item", "id", "ready"} => scene # None
  /\ ui.at \in {"item", "id"} => json # Absent
  /\ ui.at = "id" => toLoad # <<>>

(* The pool serves messages that were delivered to it; no message is       *)
(* answered before it is delivered.                                        *)
QueueInv ==
  /\ \A j \in DOMAIN poolQueue : sent[poolQueue[j]].kind \in {"edit", "query"}
  /\ pool.at # "idle" =>
       pool.msg \in DOMAIN sent /\ sent[pool.msg].kind \in {"edit", "query"}
  /\ pool.at = "save" => sent[pool.msg].kind = "edit" /\ pool.code = 0
  /\ ui.at # "idle" => ui.msg \in DOMAIN sent
  /\ \A m \in Requests \ DOMAIN sent : answer[m] = <<>>

LEMMA TypesInit == Init => TypeOK /\ StageInv /\ QueueInv
<1> SUFFICES ASSUME Init PROVE TypeOK /\ StageInv /\ QueueInv
  OBVIOUS
<1>1. json = Absent \/ json \in [items : Seq(Ids), counter : Ids \cup {0}]
  BY ProjectTypes DEF Init
<1>2. SavedIds \subseteq Ids
  BY <1>1, ElementOfSeq, LenProperties DEF SavedIds, ToSet
<1>3. /\ sent \in Seq(Messages) /\ Len(sent) <= MaxRequests
      /\ uiQueue \in Seq(DOMAIN sent) /\ poolQueue \in Seq(DOMAIN sent)
      /\ toLoad \in Seq(Ids)
  BY BoundAssumption, EmptySeq DEF Init
<1>4. answer \in [Requests -> Seq({0, 1})] /\ told \in [Ids -> Nat]
  BY EmptySeq DEF Init
<1>5. {obs, is_initialize_, m_display, early, mistaken, restarted} \subseteq BOOLEAN
  BY DEF Init
<1>6. /\ ui \in [at : UiSteps, msg : Requests \cup {0}, code : {0, 1}]
      /\ pool \in [at : PoolSteps, msg : Requests \cup {0}, code : {0, 1}]
  BY DEF Init, Idle, UiSteps, PoolSteps
<1> QED
  BY <1>1, <1>2, <1>3, <1>4, <1>5, <1>6 DEF Init, TypeOK, StageInv, QueueInv, MainSteps, Idle

LEMMA NextUiTaskTypes ==
  ASSUME TypeOK, StageInv, NextUiTask
  PROVE  TypeOK' /\ StageInv'
<1> DEFINE m == Head(uiQueue)
<1>1. m \in Requests /\ Tail(uiQueue) \in Seq(DOMAIN sent)
  BY HeadTypes DEF NextUiTask
<1>2. uiQueue' \in Seq(DOMAIN sent) /\ sent' = sent
  BY <1>1 DEF NextUiTask
<1> HIDE DEF m
<1>3. /\ process' \in {process, "crashed"}
      /\ ui' \in {ui, [at |-> "init", msg |-> m, code |-> 1],
                  [at |-> "save", msg |-> m, code |-> 0]}
  BY DEF NextUiTask, m
<1>4. /\ scene' = None \/ scene' \in Seq([key : Ids, id : Ids])
      /\ id_counter' \in Ids \cup {0}
      /\ told' \in [Ids -> Nat] /\ real' \subseteq Ids
  <2>1. CASE UNCHANGED <<scene, id_counter, told, real>>
    BY <2>1 DEF TypeOK
  <2>2. CASE /\ scene # None /\ id_counter < MaxId
             /\ id_counter' = id_counter + 1
             /\ scene' = Append(scene, [key |-> id_counter', id |-> id_counter'])
             /\ told' = IF is_initialize_ THEN [told EXCEPT ![id_counter'] = @ + 1] ELSE told
             /\ real' = real \cup {id_counter'}
    <3>1. id_counter' \in Ids
      BY <2>2, CountTypes
    <3>2. scene' \in Seq([key : Ids, id : Ids])
      BY <2>2, <3>1, AddTypes DEF Items
    <3>3. told' \in [Ids -> Nat]
      <4>1. told \in [Ids -> Nat] /\ told[id_counter'] + 1 \in Nat
        BY <3>1 DEF TypeOK
      <4> QED
        BY <2>2, <4>1
    <3> QED
      BY <2>2, <3>1, <3>2, <3>3 DEF TypeOK
  <2> QED
    BY <2>1, <2>2 DEF NextUiTask
<1>5. UNCHANGED <<main, sent, poolQueue, obs, is_initialize_, json, m_display, pool,
                  toLoad, answer, removed, early, mistaken, restarted>>
  BY DEF NextUiTask
<1>6. TypeOK'
  BY <1>1, <1>2, <1>3, <1>4, <1>5 DEF TypeOK, UiSteps
<1>7. StageInv'
  BY <1>3 DEF NextUiTask, UiAt, StageInv
<1> QED
  BY <1>6, <1>7

LEMMA NextPoolTaskTypes ==
  ASSUME TypeOK, StageInv, NextPoolTask
  PROVE  TypeOK' /\ StageInv'
<1> DEFINE m == Head(poolQueue)
<1>1. m \in Requests /\ Tail(poolQueue) \in Seq(DOMAIN sent)
  BY HeadTypes DEF NextPoolTask
<1>2. poolQueue' \in Seq(DOMAIN sent) /\ sent' = sent
  BY <1>1 DEF NextPoolTask
<1> HIDE DEF m
<1>3. /\ pool' \in {pool, [at |-> "save", msg |-> m, code |-> 0],
                    [at |-> "answer", msg |-> m, code |-> 0],
                    [at |-> "answer", msg |-> m, code |-> 1]}
      /\ early' = early \/ early' = (early \/ ~is_initialize_)
  BY DEF NextPoolTask, EditSourceItem, m
<1>4. /\ scene' = None \/ scene' \in Seq([key : Ids, id : Ids])
      /\ scene # None => scene' # None
      /\ mistaken' \in BOOLEAN
  <2>1. CASE UNCHANGED <<scene, mistaken>>
    BY <2>1 DEF TypeOK
  <2>2. ASSUME scene # None, NEW i \in DOMAIN scene, scene' = RemoveAt(scene, i),
               mistaken' = (mistaken \/ scene[i].key # sent[m].id)
        PROVE  <1>4
    BY <2>2, RemoveTypes DEF Items
  <2> QED
    BY <2>1, <2>2 DEF NextPoolTask, EditSourceItem, m
<1>5. UNCHANGED <<main, process, sent, uiQueue, obs, is_initialize_, id_counter, json,
                  m_display, ui, toLoad, answer, told, real, removed, restarted>>
  BY DEF NextPoolTask
<1>6. early' \in BOOLEAN
  BY <1>3, Zenon DEF TypeOK
<1>7. TypeOK'
  BY <1>1, <1>2, <1>3, <1>4, <1>5, <1>6 DEF TypeOK, PoolSteps
<1>8. StageInv'
  BY <1>4, <1>5 DEF StageInv
<1> QED
  BY <1>7, <1>8

(* The counts of what the host is told of.                                 *)
LEMMA ToldTypes ==
  ASSUME TypeOK
  PROVE  /\ \A i \in Ids : [told EXCEPT ![i] = @ + 1] \in [Ids -> Nat]
         /\ [i \in Ids |-> IF i \in SceneIds THEN told[i] + 1 ELSE told[i]] \in [Ids -> Nat]
<1>1. told \in [Ids -> Nat] /\ \A i \in Ids : told[i] + 1 \in Nat
  BY DEF TypeOK
<1> QED
  BY <1>1

(* The answers: one more for a message is a sequence of codes.             *)
LEMMA AnswerTypes ==
  ASSUME TypeOK, NEW m \in Requests \cup {0}, NEW code \in {0, 1}
  PROVE  [answer EXCEPT ![m] = Append(@, code)] \in [Requests -> Seq({0, 1})]
<1>1. answer \in [Requests -> Seq({0, 1})]
  BY DEF TypeOK
<1>2. CASE m \in Requests
  <2>1. Append(answer[m], code) \in Seq({0, 1})
    BY <1>1, <1>2, AppendProperties
  <2> QED
    BY <1>1, <1>2, <2>1
<1>3. CASE m \notin Requests
  BY <1>1, <1>3
<1> QED
  BY <1>2, <1>3

LEMMA LoadTypes ==
  ASSUME TypeOK, StageInv,
         InitObs \/ LoadDefault \/ LoadScene \/ LoadItem \/ LoadItemId \/ LoadCounter \/ Ready
  PROVE  TypeOK' /\ StageInv'
<1> USE DEF UiAt, UiSteps
<1>1. CASE InitObs
  <2>1. ui' \in [at : UiSteps, msg : Requests \cup {0}, code : {0, 1}]
    BY <1>1 DEF InitObs, TypeOK
  <2>2. restarted' \in BOOLEAN
    BY <1>1, Zenon DEF InitObs, TypeOK
  <2>3. ui'.at \in {"load", "answer"}
    BY <1>1 DEF InitObs, TypeOK
  <2> QED
    BY <1>1, <2>1, <2>2, <2>3 DEF InitObs, TypeOK, StageInv, queues
<1>2. CASE LoadDefault
  <2>1. json' = Absent \/ json' \in [items : Seq(Ids), counter : Ids \cup {0}]
    BY <1>2, EmptySeq DEF LoadDefault, TypeOK
  <2>2. scene' \in Seq([key : Ids, id : Ids]) /\ scene' # None
    BY <1>2, EmptySeq, ProjectTypes DEF LoadDefault
  <2> QED
    BY <1>2, <2>1, <2>2 DEF LoadDefault, TypeOK, StageInv, queues, history
<1>3. CASE LoadScene
  <2>1. scene' \in Seq([key : Ids, id : Ids]) /\ scene' # None
    BY <1>3, EmptySeq, ProjectTypes DEF LoadScene
  <2>2. toLoad' \in Seq(Ids)
    BY <1>3 DEF LoadScene, TypeOK
  <2> QED
    BY <1>3, <2>1, <2>2 DEF LoadScene, TypeOK, StageInv, queues, history
<1>4. CASE LoadItem
  <2>1. scene # None
    BY <1>4 DEF LoadItem, StageInv
  <2>2. id_counter' \in Ids /\ Head(toLoad) \in Ids
    BY <1>4, CountTypes, HeadTypes DEF LoadItem
  <2>3. scene' \in Seq([key : Ids, id : Ids]) /\ scene' # None
    BY <1>4, <2>1, <2>2, AddTypes DEF LoadItem, Items
  <2>4. told' \in [Ids -> Nat]
    BY <1>4, <2>2, ToldTypes DEF LoadItem, AddSceneItem, TypeOK
  <2> QED
    BY <1>4, <2>2, <2>3, <2>4 DEF LoadItem, TypeOK, StageInv, queues, history
<1>5. CASE LoadItemId
  <2>1. scene # None /\ toLoad # <<>>
    BY <1>5 DEF LoadItemId, StageInv
  <2>2. scene' \in Seq([key : Ids, id : Ids]) /\ scene' # None
    BY <1>5, <2>1, LoadItemIdTypes DEF Items
  <2>3. toLoad' \in Seq(Ids)
    BY <1>5, <2>1, HeadTypes DEF LoadItemId
  <2> QED
    BY <1>5, <2>2, <2>3 DEF LoadItemId, TypeOK, StageInv, queues, history
<1>6. CASE LoadCounter
  <2>1. id_counter' \in Ids \cup {0}
    BY <1>6 DEF LoadCounter, TypeOK, StageInv
  <2> QED
    BY <1>6, <2>1 DEF LoadCounter, TypeOK, StageInv, queues, history
<1>7. CASE Ready
  BY <1>7 DEF Ready, TypeOK, StageInv, queues, history
<1> QED
  BY <1>1, <1>2, <1>3, <1>4, <1>5, <1>6, <1>7

LEMMA TypesNext ==
  ASSUME TypeOK, StageInv, QueueInv, [Next]_vars
  PROVE  TypeOK' /\ StageInv'
<1> USE DEF Proceed, UiAt, PoolAt
<1>1. CASE Main
  BY <1>1 DEF Main, StartMojo, CreateScheduler, StartWorkers, TypeOK, StageInv, MainSteps,
              queues, state, history
<1>2. CASE Deliver
  <2>1. PICK message \in Messages : Dispatch(message)
    BY <1>2 DEF Deliver
  <2>2. StageInv'
    BY <2>1 DEF Dispatch, StageInv, state
  <2> QED
    BY <2>1, <2>2, DispatchTypes
<1>3. CASE ShutdownProcess
  BY <1>3 DEF ShutdownProcess, TypeOK, StageInv, queues, state, history
<1>4. CASE OnRemoteDisconnect
  <2>1. SaveProject
    BY <1>4 DEF OnRemoteDisconnect
  <2> QED
    BY <1>4, <2>1, SavedTypes DEF OnRemoteDisconnect, TypeOK, StageInv, queues, history
<1>5. CASE NextUiTask
  BY <1>5, NextUiTaskTypes
<1>6. CASE SaveAdded
  <2>1. SaveProject
    BY <1>6 DEF SaveAdded
  <2> QED
    BY <1>6, <2>1, SavedTypes DEF SaveAdded, TypeOK, StageInv, queues, history, Idle, UiSteps
<1>7. CASE InitObs \/ LoadDefault \/ LoadScene \/ LoadItem \/ LoadItemId \/ LoadCounter \/ Ready
  BY <1>7, LoadTypes
<1>8. CASE SendLoadSceneItemData
  <2>1. told' \in [Ids -> Nat]
    BY <1>8, ToldTypes DEF SendLoadSceneItemData
  <2> QED
    BY <1>8, <2>1 DEF SendLoadSceneItemData, TypeOK, StageInv, UiSteps, queues, state, history
<1>9. CASE AnswerStart
  <2>1. answer' \in [Requests -> Seq({0, 1})]
    BY <1>9, AnswerTypes DEF AnswerStart, TypeOK
  <2>2. /\ ui' \in [at : UiSteps, msg : Requests \cup {0}, code : {0, 1}]
        /\ ui'.at \in {"display", "idle"}
    BY <1>9 DEF AnswerStart, TypeOK, UiSteps, Idle
  <2> QED
    BY <1>9, <2>1, <2>2 DEF AnswerStart, TypeOK, StageInv, queues, state, history
<1>10. CASE CreatePreviewDisplay
  BY <1>10 DEF CreatePreviewDisplay, TypeOK, StageInv, queues, history, Idle, UiSteps
<1>11. CASE NextPoolTask
  BY <1>11, NextPoolTaskTypes
<1>12. CASE SaveEdit
  <2>1. SaveProject
    BY <1>12 DEF SaveEdit
  <2>2. pool' \in [at : PoolSteps, msg : Requests \cup {0}, code : {0, 1}]
    BY <1>12 DEF SaveEdit, TypeOK, PoolSteps
  <2> QED
    BY <1>12, <2>1, <2>2, SavedTypes DEF SaveEdit, TypeOK, StageInv, queues, history
<1>13. CASE SendMsgByMojoPullResp
  <2>1. answer' \in [Requests -> Seq({0, 1})]
    BY <1>13, AnswerTypes DEF SendMsgByMojoPullResp, TypeOK
  <2>2. removed' \subseteq Ids
    <3>1. sent[pool.msg] \in Messages
      BY <1>13, ElementOfSeq, LenProperties DEF SendMsgByMojoPullResp, TypeOK, QueueInv
    <3>2. sent[pool.msg].kind = "edit" => sent[pool.msg].id \in Ids
      BY <3>1 DEF Messages
    <3> QED
      BY <1>13, <3>2 DEF SendMsgByMojoPullResp, TypeOK
  <2> QED
    BY <1>13, <2>1, <2>2
    DEF SendMsgByMojoPullResp, TypeOK, StageInv, queues, state, Idle, PoolSteps
<1>14. CASE UNCHANGED vars
  BY <1>14 DEF vars, TypeOK, StageInv, queues, state, history
<1> QED
  BY <1>1, <1>2, <1>3, <1>4, <1>5, <1>6, <1>7, <1>8, <1>9, <1>10, <1>11, <1>12, <1>13, <1>14
  DEF Next, UiThread, PoolThread

LEMMA QueueNext ==
  ASSUME TypeOK, QueueInv, [Next]_vars
  PROVE  QueueInv'
<1> USE DEF Proceed, UiAt, PoolAt
<1>1. CASE Main \/ ShutdownProcess \/ OnRemoteDisconnect \/ UNCHANGED vars
  BY <1>1 DEF Main, StartMojo, CreateScheduler, StartWorkers, ShutdownProcess,
              OnRemoteDisconnect, vars, QueueInv, queues
<1>2. CASE Deliver
  <2>1. PICK message \in Messages : Dispatch(message)
    BY <1>2 DEF Deliver
  <2> DEFINE m == Len(sent) + 1
  <2>2. /\ Len(sent) \in Nat /\ DOMAIN sent = 1 .. Len(sent)
        /\ Len(poolQueue) \in Nat /\ DOMAIN poolQueue = 1 .. Len(poolQueue)
        /\ \A j \in DOMAIN poolQueue : poolQueue[j] \in DOMAIN sent
    BY ElementOfSeq, LenProperties DEF TypeOK
  <2>3. sent' = Append(sent, message) /\ sent \in Seq(Messages)
    BY <2>1 DEF Dispatch, TypeOK
  <2>4. /\ sent' \in Seq(Messages) /\ Len(sent') = m /\ DOMAIN sent' = 1 .. m
        /\ sent'[m] = message
        /\ \A i \in DOMAIN sent : sent'[i] = sent[i]
    BY <2>2, <2>3, AppendProperties, LenProperties
  <2>5. \/ UNCHANGED poolQueue
        \/ message.kind \in {"edit", "query"} /\ poolQueue' = Append(poolQueue, m)
    BY <2>1 DEF Dispatch, PostToUi, PostToPool
  <2>6. \A j \in DOMAIN poolQueue' : sent'[poolQueue'[j]].kind \in {"edit", "query"}
    <3>1. CASE UNCHANGED poolQueue
      BY <2>2, <2>4, <3>1 DEF QueueInv
    <3>2. CASE message.kind \in {"edit", "query"} /\ poolQueue' = Append(poolQueue, m)
      <4>1. poolQueue \in Seq(Nat) /\ m \in Nat
        BY <2>2, LenProperties, IsASeq DEF TypeOK
      <4> HIDE DEF m
      <4>2. /\ DOMAIN poolQueue' = 1 .. Len(poolQueue) + 1
            /\ poolQueue'[Len(poolQueue) + 1] = m
            /\ \A j \in 1 .. Len(poolQueue) : poolQueue'[j] = poolQueue[j]
        BY <3>2, <4>1, AppendProperties, LenProperties
      <4> QED
        BY <2>2, <2>4, <3>2, <4>2 DEF QueueInv
    <3> QED
      BY <2>5, <3>1, <3>2
  <2>7. UNCHANGED <<ui, pool, answer>>
    BY <2>1 DEF Dispatch
  <2> QED
    BY <2>2, <2>4, <2>6, <2>7 DEF QueueInv
<1>3. CASE NextUiTask
  <2>1. Head(uiQueue) \in DOMAIN sent
    BY <1>3, HeadTypes DEF NextUiTask
  <2>2. ui' = ui \/ ui'.msg = Head(uiQueue)
    BY <1>3 DEF NextUiTask
  <2>3. UNCHANGED <<sent, poolQueue, pool, answer>>
    BY <1>3 DEF NextUiTask
  <2> QED
    BY <2>1, <2>2, <2>3 DEF QueueInv
<1>4. CASE SaveAdded \/ CreatePreviewDisplay
  BY <1>4 DEF SaveAdded, CreatePreviewDisplay, QueueInv, queues, Idle
<1>5. CASE InitObs \/ LoadDefault \/ LoadScene \/ LoadItem \/ LoadItemId \/ LoadCounter
           \/ Ready \/ SendLoadSceneItemData
  <2>1. ui'.msg = ui.msg /\ ui.at # "idle"
    BY <1>5 DEF InitObs, LoadDefault, LoadScene, LoadItem, LoadItemId, LoadCounter, Ready,
                SendLoadSceneItemData, TypeOK
  <2>2. UNCHANGED <<sent, poolQueue, pool, answer>>
    BY <1>5 DEF InitObs, LoadDefault, LoadScene, LoadItem, LoadItemId, LoadCounter, Ready,
                SendLoadSceneItemData, queues
  <2> QED
    BY <2>1, <2>2 DEF QueueInv
<1>6. CASE AnswerStart
  <2>1. ui.msg \in DOMAIN sent
    BY <1>6 DEF AnswerStart, QueueInv
  <2>2. ui'.at # "idle" => ui'.msg \in DOMAIN sent
    BY <1>6, <2>1 DEF AnswerStart, TypeOK, Idle
  <2>3. \A m \in Requests : m # ui.msg => answer'[m] = answer[m]
    BY <1>6 DEF AnswerStart, TypeOK
  <2>4. UNCHANGED <<sent, poolQueue, pool>>
    BY <1>6 DEF AnswerStart, queues
  <2> QED
    BY <2>1, <2>2, <2>3, <2>4 DEF QueueInv
<1>7. CASE NextPoolTask
  <2>1. poolQueue # <<>> /\ poolQueue \in Seq(DOMAIN sent) /\ poolQueue' = Tail(poolQueue)
    BY <1>7 DEF NextPoolTask, TypeOK
  <2>2. /\ Len(poolQueue) \in Nat \ {0} /\ DOMAIN poolQueue = 1 .. Len(poolQueue)
        /\ DOMAIN poolQueue' = 1 .. Len(poolQueue) - 1
        /\ \A j \in DOMAIN poolQueue' : poolQueue'[j] = poolQueue[j + 1]
    BY <2>1, EmptySeq, HeadTailProperties, LenProperties
  <2>3. \A j \in DOMAIN poolQueue' : sent[poolQueue'[j]].kind \in {"edit", "query"}
    BY <2>2 DEF QueueInv
  <2>4. Head(poolQueue) \in DOMAIN sent
    BY <2>1, HeadTypes
  <2>5. \/ pool' = pool
        \/ /\ pool'.msg = Head(poolQueue) /\ sent[Head(poolQueue)].kind \in {"edit", "query"}
           /\ pool'.at = "save" => sent[Head(poolQueue)].kind = "edit" /\ pool'.code = 0
    BY <1>7 DEF NextPoolTask, EditSourceItem
  <2>6. UNCHANGED <<sent, ui, answer>>
    BY <1>7 DEF NextPoolTask
  <2> QED
    BY <2>3, <2>4, <2>5, <2>6 DEF QueueInv
<1>8. CASE SaveEdit
  <2>1. pool'.at = "answer" /\ pool'.msg = pool.msg /\ pool.at # "idle"
    BY <1>8 DEF SaveEdit, TypeOK
  <2> QED
    BY <1>8, <2>1 DEF SaveEdit, QueueInv, queues
<1>9. CASE SendMsgByMojoPullResp
  <2>1. pool.msg \in DOMAIN sent
    BY <1>9 DEF SendMsgByMojoPullResp, QueueInv
  <2>2. \A m \in Requests : m # pool.msg => answer'[m] = answer[m]
    BY <1>9 DEF SendMsgByMojoPullResp, TypeOK
  <2> QED
    BY <1>9, <2>1, <2>2 DEF SendMsgByMojoPullResp, QueueInv, queues, Idle
<1> QED
  BY <1>1, <1>2, <1>3, <1>4, <1>5, <1>6, <1>7, <1>8, <1>9 DEF Next, UiThread, PoolThread

(* Every start leaves the program in a state of these types (TypeOK): the  *)
(* queues hold messages that were delivered, the scene and the project     *)
(* items and ids, whatever the host sends and when.                        *)
THEOREM StartTypesHold == Spec => []TypeOK
<1>1. Init => TypeOK /\ StageInv /\ QueueInv
  BY TypesInit
<1>2. TypeOK /\ StageInv /\ QueueInv /\ [Next]_vars => TypeOK' /\ StageInv' /\ QueueInv'
  BY TypesNext, QueueNext
<1> QED
  BY <1>1, <1>2, PTL DEF Spec

-----------------------------------------------------------------------------
(* What becomes of the items of the scene.                                 *)

Keys == IF scene = None THEN {} ELSE {scene[i].key : i \in DOMAIN scene}
DistinctIds == \A i, j \in DOMAIN scene : scene[i].id = scene[j].id => i = j
DistinctKeys == \A i, j \in DOMAIN scene : scene[i].key = scene[j].key => i = j

LEMMA AddFacts ==
  ASSUME TypeOK, scene # None, NEW key \in Ids, NEW id \in Ids,
         scene' = Append(scene, [key |-> key, id |-> id])
  PROVE  /\ SceneIds' = SceneIds \cup {id} /\ Keys' = Keys \cup {key}
         /\ DistinctIds /\ id \notin SceneIds => DistinctIds'
         /\ DistinctKeys /\ key \notin Keys => DistinctKeys'
         /\ scene' # None
         /\ \A i \in DOMAIN scene' : scene'[i] = [key |-> key, id |-> id] \/
              \E j \in DOMAIN scene : scene'[i] = scene[j]
<1>1. /\ DOMAIN scene = 1 .. Len(scene) /\ DOMAIN scene' = 1 .. Len(scene) + 1
      /\ Len(scene) \in Nat /\ scene' # None
  BY SceneTypes, AddTypes, LenProperties
<1>2. /\ \A i \in 1 .. Len(scene) : scene'[i] = scene[i]
      /\ scene'[Len(scene) + 1].id = id /\ scene'[Len(scene) + 1].key = key
      /\ scene'[Len(scene) + 1] = [key |-> key, id |-> id]
  BY AddTypes
<1>3. SceneIds' = SceneIds \cup {id} /\ Keys' = Keys \cup {key}
  BY <1>1, <1>2 DEF SceneIds, Keys
<1>4. DistinctIds /\ id \notin SceneIds => DistinctIds'
  BY <1>1, <1>2 DEF SceneIds, DistinctIds
<1>5. DistinctKeys /\ key \notin Keys => DistinctKeys'
  BY <1>1, <1>2 DEF Keys, DistinctKeys
<1> QED
  BY <1>1, <1>2, <1>3, <1>4, <1>5

LEMMA RemoveFacts ==
  ASSUME TypeOK, scene # None, NEW i \in DOMAIN scene, scene' = RemoveAt(scene, i)
  PROVE  /\ SceneIds' \subseteq SceneIds /\ SceneIds \subseteq SceneIds' \cup {scene[i].id}
         /\ Keys' \subseteq Keys /\ Keys \subseteq Keys' \cup {scene[i].key}
         /\ DistinctIds => DistinctIds' /\ scene[i].id \notin SceneIds'
         /\ DistinctKeys => DistinctKeys'
         /\ scene' # None
         /\ \A j \in DOMAIN scene' : \E k \in DOMAIN scene : scene'[j] = scene[k]
<1> DEFINE from(j) == IF j < i THEN j ELSE j + 1
<1>1. /\ DOMAIN scene = 1 .. Len(scene) /\ DOMAIN scene' = 1 .. Len(scene) - 1
      /\ Len(scene) \in Nat /\ scene' # None
  BY SceneTypes, RemoveTypes, LenProperties
<1>2. \A j \in DOMAIN scene' : scene'[j] = scene[from(j)]
  BY <1>1, RemoveTypes
<1>3. /\ \A j \in DOMAIN scene' : from(j) \in DOMAIN scene /\ from(j) # i
      /\ \A j, k \in DOMAIN scene' : from(j) = from(k) => j = k
      /\ \A k \in DOMAIN scene : k = i \/ \E j \in DOMAIN scene' : from(j) = k
  <2>1. \A k \in DOMAIN scene : k = i \/ \E j \in DOMAIN scene' : from(j) = k
    <3> SUFFICES ASSUME NEW k \in DOMAIN scene, k # i
                 PROVE  \E j \in DOMAIN scene' : from(j) = k
      OBVIOUS
    <3>1. CASE k < i
      BY <1>1, <3>1
    <3>2. CASE k > i
      <4>1. k - 1 \in DOMAIN scene' /\ from(k - 1) = k
        BY <1>1, <3>2
      <4> QED
        BY <4>1
    <3> QED
      BY <1>1, <3>1, <3>2
  <2> QED
    BY <1>1, <2>1
<1> HIDE DEF from
<1>4. /\ SceneIds' \subseteq SceneIds /\ SceneIds \subseteq SceneIds' \cup {scene[i].id}
      /\ Keys' \subseteq Keys /\ Keys \subseteq Keys' \cup {scene[i].key}
  <2>1. SceneIds = {scene[k].id : k \in DOMAIN scene} /\ Keys = {scene[k].key : k \in DOMAIN scene}
    BY DEF SceneIds, Keys
  <2>2. /\ SceneIds' = {scene'[k].id : k \in DOMAIN scene'}
        /\ Keys' = {scene'[k].key : k \in DOMAIN scene'}
    BY <1>1 DEF SceneIds, Keys
  <2> QED
    BY <1>2, <1>3, <2>1, <2>2
<1>5. DistinctIds => DistinctIds' /\ scene[i].id \notin SceneIds'
  <2>1. SceneIds' = {scene'[k].id : k \in DOMAIN scene'}
    BY <1>1 DEF SceneIds
  <2> QED
    BY <1>2, <1>3, <2>1 DEF DistinctIds
<1>6. DistinctKeys => DistinctKeys'
  BY <1>2, <1>3 DEF DistinctKeys
<1>7. \A j \in DOMAIN scene' : \E k \in DOMAIN scene : scene'[j] = scene[k]
  BY <1>2, <1>3
<1> QED
  BY <1>1, <1>4, <1>5, <1>6, <1>7

LEMMA LoadItemIdFacts ==
  ASSUME TypeOK, scene # None, toLoad # <<>>, LoadItemId
  PROVE  /\ Keys' = Keys
         /\ DistinctKeys => DistinctKeys'
         /\ scene' # None /\ DOMAIN scene' = DOMAIN scene
         /\ \A i \in DOMAIN scene : /\ scene'[i].key = scene[i].key
              /\ scene'[i].id = IF scene[i].key = Head(toLoad) THEN Head(toLoad) ELSE scene[i].id
<1>1. DOMAIN scene' = DOMAIN scene /\ scene' # None
  BY SceneTypes, LoadItemIdTypes, LenProperties
<1>2. \A i \in DOMAIN scene : /\ scene'[i].key = scene[i].key
        /\ scene'[i].id = IF scene[i].key = Head(toLoad) THEN Head(toLoad) ELSE scene[i].id
  BY SceneTypes, LoadItemIdTypes
<1> QED
  BY <1>1, <1>2 DEF Keys, DistinctKeys

(* EditSourceItem changes no more of the scene than this.                  *)
LEMMA EditFacts ==
  ASSUME TypeOK, NextPoolTask
  PROVE  \/ UNCHANGED <<scene, early, mistaken>>
         \/ \E i \in DOMAIN scene :
              /\ scene # None /\ scene' = RemoveAt(scene, i)
              /\ scene[i].id = sent[Head(poolQueue)].id
              /\ early' = (early \/ ~is_initialize_)
              /\ mistaken' = (mistaken \/ scene[i].key # sent[Head(poolQueue)].id)
              /\ pool' = [at |-> "save", msg |-> Head(poolQueue), code |-> 0]
BY DEF NextPoolTask, EditSourceItem

(* Every item has the id it is saved by, but for the one being loaded.     *)
ItemsInv ==
  scene # None => \A i \in DOMAIN scene :
    \/ scene[i].id = scene[i].key
    \/ ui.at = "id" /\ scene[i].key = Head(toLoad)

LEMMA LoadedFacts ==
  ASSUME ItemsInv, ui.at # "id"
  PROVE  SceneIds = Keys /\ (scene # None /\ DistinctKeys => DistinctIds)
BY DEF ItemsInv, SceneIds, Keys, DistinctKeys, DistinctIds

(* The steps that leave the items alone.                                   *)
LEMMA OtherSteps ==
  ASSUME TypeOK, [Next]_vars
  PROVE  \/ UNCHANGED <<scene, ui, toLoad>>
         \/ NextUiTask \/ InitObs \/ LoadDefault \/ LoadScene \/ LoadItem \/ LoadItemId
         \/ NextPoolTask
         \/ LoadCounter /\ UNCHANGED <<scene, toLoad>>
         \/ /\ SaveAdded \/ Ready \/ SendLoadSceneItemData \/ AnswerStart \/ CreatePreviewDisplay
            /\ UNCHANGED <<scene, toLoad>>
<1>1. Main => UNCHANGED <<scene, ui, toLoad>>
  BY DEF Main, StartMojo, CreateScheduler, StartWorkers, Proceed, state
<1>2. Deliver => UNCHANGED <<scene, ui, toLoad>>
  BY DEF Deliver, Dispatch, state
<1>3. ShutdownProcess \/ OnRemoteDisconnect \/ UNCHANGED vars => UNCHANGED <<scene, ui, toLoad>>
  BY DEF ShutdownProcess, OnRemoteDisconnect, vars, state
<1>4. SaveEdit \/ SendMsgByMojoPullResp => UNCHANGED <<scene, ui, toLoad>>
  BY DEF SaveEdit, SendMsgByMojoPullResp, state
<1>5. LoadCounter \/ SaveAdded \/ Ready \/ SendLoadSceneItemData \/ AnswerStart
        \/ CreatePreviewDisplay => UNCHANGED <<scene, toLoad>>
  BY DEF LoadCounter, SaveAdded, Ready, SendLoadSceneItemData, AnswerStart, CreatePreviewDisplay,
         state
<1> QED
  BY <1>1, <1>2, <1>3, <1>4, <1>5 DEF Next, UiThread, PoolThread

LEMMA ItemsNext ==
  ASSUME TypeOK, StageInv, ItemsInv, [Next]_vars
  PROVE  ItemsInv'
<1> USE DEF UiAt
<1>1. CASE UNCHANGED <<scene, ui, toLoad>>
  BY <1>1 DEF ItemsInv
<1>2. CASE NextUiTask
  <2>1. CASE UNCHANGED scene
    BY <1>2, <2>1 DEF NextUiTask, ItemsInv
  <2>2. CASE /\ scene # None /\ id_counter < MaxId
             /\ id_counter' = id_counter + 1
             /\ scene' = Append(scene, [key |-> id_counter', id |-> id_counter'])
    <3>1. id_counter' \in Ids
      BY <2>2, CountTypes
    <3>2. \A i \in DOMAIN scene' : \/ scene'[i] = [key |-> id_counter', id |-> id_counter']
                                   \/ \E j \in DOMAIN scene : scene'[i] = scene[j]
      BY <2>2, <3>1, AddFacts
    <3> QED
      BY <1>2, <2>2, <3>2 DEF NextUiTask, ItemsInv
  <2> QED
    BY <1>2, <2>1, <2>2 DEF NextUiTask
<1>3. CASE InitObs \/ LoadDefault \/ LoadScene
  BY <1>3 DEF InitObs, LoadDefault, LoadScene, ItemsInv
<1>4. CASE LoadItem
  <2>1. scene # None /\ ui.at = "item" /\ id_counter' \in Ids /\ Head(toLoad) \in Ids
    BY <1>4, CountTypes, HeadTypes DEF LoadItem, StageInv
  <2>2. scene' = Append(scene, [key |-> Head(toLoad), id |-> id_counter'])
    BY <1>4 DEF LoadItem
  <2>3. \A i \in DOMAIN scene' : \/ scene'[i] = [key |-> Head(toLoad), id |-> id_counter']
                                 \/ \E j \in DOMAIN scene : scene'[i] = scene[j]
    BY <2>1, <2>2, AddFacts
  <2>4. ui'.at = "id" /\ toLoad' = toLoad
    BY <1>4 DEF LoadItem, TypeOK
  <2> QED
    BY <2>1, <2>3, <2>4 DEF ItemsInv
<1>5. CASE LoadItemId
  <2>1. scene # None /\ toLoad # <<>>
    BY <1>5 DEF LoadItemId, StageInv
  <2> QED
    BY <1>5, <2>1, LoadItemIdFacts DEF ItemsInv
<1>6. CASE NextPoolTask
  <2>1. CASE UNCHANGED scene
    BY <1>6, <2>1 DEF NextPoolTask, ItemsInv
  <2>2. ASSUME scene # None, NEW i \in DOMAIN scene, scene' = RemoveAt(scene, i)
        PROVE  ItemsInv'
    BY <1>6, <2>2, RemoveFacts DEF NextPoolTask, ItemsInv
  <2> QED
    BY <1>6, <2>1, <2>2, EditFacts
<1>7. CASE /\ LoadCounter \/ SaveAdded \/ Ready \/ SendLoadSceneItemData \/ AnswerStart
                \/ CreatePreviewDisplay
           /\ UNCHANGED <<scene, toLoad>>
  <2>1. ui.at # "id"
    BY <1>7 DEF LoadCounter, SaveAdded, Ready, SendLoadSceneItemData, AnswerStart,
                CreatePreviewDisplay
  <2> QED
    BY <1>7, <2>1 DEF ItemsInv
<1> QED
  BY <1>1, <1>2, <1>3, <1>4, <1>5, <1>6, <1>7, OtherSteps

-----------------------------------------------------------------------------
(* The stages of a start.                                                  *)

Loading == ui.at \in InObsInit \ {"init"}

(* What the program knows of a start by where the UI thread is.            *)
ReadyInv ==
  /\ ui.at \in InObsInit => ui.code = 1
  /\ ui.at \in {"report", "answer", "display"} /\ ui.code = 0 => is_initialize_
  /\ ui.at = "report" => ui.code = 0
  /\ is_initialize_ /\ Loading => restarted
  /\ ~is_initialize_ /\ ~Loading => scene = None
  /\ is_initialize_ /\ ~restarted => scene # None

LEMMA ReadyNext ==
  ASSUME TypeOK, StageInv, ReadyInv, [Next]_vars
  PROVE  ReadyInv'
<1> USE DEF UiAt, InObsInit, Loading
<1>1. CASE UNCHANGED <<ui, scene, is_initialize_, restarted>>
  BY <1>1 DEF ReadyInv
<1>2. CASE NextUiTask
  <2>1. UNCHANGED <<is_initialize_, restarted>> /\ ui.at = "idle" /\ (scene = None => scene' = None)
    BY <1>2 DEF NextUiTask
  <2>2. scene # None => scene' # None
    BY <1>2, CountTypes, AddFacts DEF NextUiTask
  <2>3. ui' = ui \/ (ui'.at = "init" /\ ui'.code = 1) \/ ui'.at = "save"
    BY <1>2 DEF NextUiTask
  <2> QED
    BY <2>1, <2>2, <2>3 DEF ReadyInv
<1>3. CASE InitObs
  <2>1. ui'.at \in {"load", "answer"} /\ ui'.code = ui.code
    BY <1>3 DEF InitObs, TypeOK
  <2>2. is_initialize_ => restarted'
    BY <1>3, Zenon DEF InitObs
  <2>3. UNCHANGED is_initialize_ /\ scene' = None /\ ui.at = "init"
    BY <1>3 DEF InitObs
  <2> QED
    BY <2>1, <2>2, <2>3 DEF ReadyInv
<1>4. CASE LoadDefault \/ LoadScene \/ LoadItem \/ LoadItemId \/ LoadCounter
  <2>1. /\ UNCHANGED <<is_initialize_, restarted>> /\ Loading
        /\ ui'.at \in {"item", "id", "ready"} /\ ui'.code = ui.code
    BY <1>4 DEF LoadDefault, LoadScene, LoadItem, LoadItemId, LoadCounter, TypeOK, history
  <2>2. scene' # None
    BY <1>4, LoadTypes, <2>1 DEF StageInv
  <2> QED
    BY <2>1, <2>2 DEF ReadyInv
<1>5. CASE Ready
  <2>1. ui'.at = "report" /\ ui'.code = 0 /\ is_initialize_'
    BY <1>5 DEF Ready, TypeOK
  <2> QED
    BY <1>5, <2>1 DEF Ready, ReadyInv, StageInv, history
<1>6. CASE SaveAdded \/ SendLoadSceneItemData \/ AnswerStart \/ CreatePreviewDisplay
  <2>1. UNCHANGED <<scene, is_initialize_, restarted>> /\ ~Loading
    BY <1>6 DEF SaveAdded, SendLoadSceneItemData, AnswerStart, CreatePreviewDisplay, state, history
  <2>2. \/ ui'.at = "idle"
        \/ ui'.at \in {"answer", "display"} /\ ui'.code = ui.code
           /\ ui.at \in {"report", "answer"}
    BY <1>6 DEF SaveAdded, SendLoadSceneItemData, AnswerStart, CreatePreviewDisplay, TypeOK, Idle
  <2> QED
    BY <2>1, <2>2 DEF ReadyInv
<1>7. CASE NextPoolTask
  <2>1. UNCHANGED <<ui, is_initialize_, restarted>> /\ (scene = None => scene' = None)
    BY <1>7 DEF NextPoolTask, EditSourceItem
  <2>2. scene # None => scene' # None
    BY <1>7, EditFacts, RemoveFacts
  <2> QED
    BY <2>1, <2>2 DEF ReadyInv
<1>8. Main \/ Deliver \/ ShutdownProcess \/ OnRemoteDisconnect \/ SaveEdit
        \/ SendMsgByMojoPullResp \/ UNCHANGED vars
        => UNCHANGED <<ui, scene, is_initialize_, restarted>>
  BY DEF Main, StartMojo, CreateScheduler, StartWorkers, Proceed, Deliver, Dispatch,
         ShutdownProcess, OnRemoteDisconnect, SaveEdit, SendMsgByMojoPullResp, vars, state, history
<1> QED
  BY <1>1, <1>2, <1>3, <1>4, <1>5, <1>6, <1>7, <1>8 DEF Next, UiThread, PoolThread

(* The first time OBSInit gets that far: the project on disk is as it was  *)
(* found, the host was told of nothing, and the items loaded are among     *)
(* those of the project, each once.                                        *)
FirstStart ==
  /\ ~is_initialize_ =>
       /\ json \in Projects /\ real = SavedIds
       /\ \A i \in Ids : told[i] = 0
  /\ ui.at = "report" => \A i \in Ids : told[i] = 0
  /\ ui.at = "ready" => id_counter = IF json = Absent THEN 0 ELSE json.counter

LoadInv ==
  /\ ui.at \in {"item", "id", "ready"} => DistinctKeys /\ Keys \subseteq SavedIds
  /\ ui.at \in {"item", "id"} =>
       /\ IsInjective(toLoad) /\ ToSet(toLoad) \subseteq SavedIds
       /\ \A key \in Keys \cap ToSet(toLoad) : ui.at = "id" /\ key = Head(toLoad)

(* From then on: each id is an item's that is to keep it, of the project   *)
(* or added, and id_counter has reached them all.                          *)
LiveInv ==
  is_initialize_ =>
    /\ DistinctIds
    /\ SceneIds \subseteq real /\ real \subseteq 1 .. id_counter
    /\ \A i \in Ids : told[i] > 0 => told[i] = 1 /\ i \in real

(* The project on disk can be loaded again.                                *)
SavedInv ==
  json # Absent => IsInjective(json.items) /\ ToSet(json.items) \subseteq 1 .. json.counter

OnceInv == ~restarted => FirstStart /\ LoadInv /\ LiveInv /\ SavedInv

(* What is to load, when its first item is no longer.                      *)
LEMMA TailFacts ==
  ASSUME TypeOK, toLoad # <<>>
  PROVE  /\ ToSet(toLoad) = {Head(toLoad)} \cup ToSet(Tail(toLoad))
         /\ IsInjective(toLoad) =>
              IsInjective(Tail(toLoad)) /\ Head(toLoad) \notin ToSet(Tail(toLoad))
<1>1. /\ Len(toLoad) \in Nat \ {0} /\ DOMAIN toLoad = 1 .. Len(toLoad)
      /\ DOMAIN Tail(toLoad) = 1 .. Len(toLoad) - 1
      /\ \A j \in 1 .. Len(toLoad) - 1 : Tail(toLoad)[j] = toLoad[j + 1]
  BY EmptySeq, HeadTailProperties, LenProperties DEF TypeOK
<1>2. Head(toLoad) = toLoad[1]
  BY DEF TypeOK
<1>3. ToSet(toLoad) = {Head(toLoad)} \cup ToSet(Tail(toLoad))
  <2>1. \A j \in 1 .. Len(toLoad) : j = 1 \/ (j - 1 \in 1 .. Len(toLoad) - 1 /\ (j - 1) + 1 = j)
    BY <1>1
  <2>2. \A j \in 1 .. Len(toLoad) - 1 : j + 1 \in 1 .. Len(toLoad)
    BY <1>1
  <2>3. 1 \in 1 .. Len(toLoad)
    BY <1>1
  <2>4. ToSet(toLoad) \subseteq {Head(toLoad)} \cup ToSet(Tail(toLoad))
    <3> SUFFICES ASSUME NEW j \in 1 .. Len(toLoad)
                 PROVE  toLoad[j] \in {Head(toLoad)} \cup ToSet(Tail(toLoad))
      BY <1>1 DEF ToSet
    <3>1. CASE j = 1
      BY <1>2, <3>1
    <3>2. CASE j # 1
      <4>1. j - 1 \in DOMAIN Tail(toLoad) /\ Tail(toLoad)[j - 1] = toLoad[j]
        BY <1>1, <2>1, <3>2
      <4> QED
        BY <4>1 DEF ToSet
    <3> QED
      BY <3>1, <3>2
  <2>5. {Head(toLoad)} \cup ToSet(Tail(toLoad)) \subseteq ToSet(toLoad)
    BY <1>1, <1>2, <2>2, <2>3 DEF ToSet
  <2> QED
    BY <2>4, <2>5
<1>4. IsInjective(toLoad) => IsInjective(Tail(toLoad))
  BY <1>1 DEF IsInjective
<1>5. IsInjective(toLoad) => Head(toLoad) \notin ToSet(Tail(toLoad))
  BY <1>1, <1>2 DEF IsInjective, ToSet
<1> QED
  BY <1>3, <1>4, <1>5

(* A save after the start: what is on disk is what is in the scene.        *)
LEMMA SaveFacts ==
  ASSUME TypeOK, SaveProject
  PROVE  /\ ~is_initialize_ => json' = json
         /\ is_initialize_ /\ scene # None =>
              /\ json' # Absent /\ ToSet(json'.items) = SceneIds /\ json'.counter = id_counter
              /\ DistinctIds => IsInjective(json'.items)
<1>1. CASE is_initialize_ /\ scene # None
  <2>1. json' = [items |-> [i \in DOMAIN scene |-> scene[i].id], counter |-> id_counter]
    BY <1>1 DEF SaveProject
  <2>2. json' \in [items : Seq(Ids), counter : Ids \cup {0}]
    <3>1. [i \in 1 .. Len(scene) |-> scene[i].id] \in Seq(Ids)
      BY <1>1, SceneTypes
    <3> QED
      BY <1>1, <2>1, <3>1, SceneTypes DEF TypeOK
  <2> QED
    BY <1>1, <2>1, <2>2, ProjectTypes DEF ToSet, SceneIds, DistinctIds, IsInjective
<1>2. ~is_initialize_ => json' = json
  BY DEF SaveProject
<1> QED
  BY <1>1, <1>2

LEMMA OnceInit == Init => ItemsInv /\ ReadyInv /\ OnceInv
<1> SUFFICES ASSUME Init PROVE ItemsInv /\ ReadyInv /\ OnceInv
  OBVIOUS
<1>1. SavedInv
  BY ProjectAssumption DEF Init, SavedInv
<1> QED
  BY <1>1 DEF Init, ItemsInv, ReadyInv, OnceInv, FirstStart, LoadInv, LiveInv, Idle, InObsInit,
              Loading

(* A save, by any thread.                                                  *)
LEMMA OnceSave ==
  ASSUME TypeOK, ReadyInv, ~restarted, OnceInv, SaveProject,
         UNCHANGED <<scene, is_initialize_, id_counter, told, real, toLoad>>,
         ui' = ui \/ (ui.at = "save" /\ ui'.at = "idle")
  PROVE  FirstStart' /\ LoadInv' /\ LiveInv' /\ SavedInv'
<1> USE DEF OnceInv
<1>1. CASE ~is_initialize_
  <2>1. json' = json
    BY <1>1, SaveFacts
  <2> QED
    BY <1>1, <2>1 DEF FirstStart, LoadInv, LiveInv, SavedInv, SavedIds, Keys, DistinctKeys
<1>2. CASE is_initialize_
  <2>1. scene # None /\ ui'.at \notin {"item", "id", "ready"}
    BY <1>2 DEF ReadyInv, Loading, InObsInit
  <2>2. /\ json' # Absent /\ ToSet(json'.items) = SceneIds /\ json'.counter = id_counter
        /\ IsInjective(json'.items)
    BY <1>2, <2>1, SaveFacts DEF LiveInv
  <2>3. SceneIds \subseteq 1 .. id_counter
    BY <1>2 DEF LiveInv
  <2>4. SavedInv'
    BY <2>2, <2>3 DEF SavedInv
  <2>5. FirstStart' /\ LoadInv'
    BY <1>2, <2>1 DEF FirstStart, LoadInv
  <2>6. LiveInv'
    BY <1>2 DEF LiveInv, DistinctIds, SceneIds
  <2> QED
    BY <2>4, <2>5, <2>6
<1> QED
  BY <1>1, <1>2

(* An item is added, or not.                                               *)
LEMMA OnceAdd ==
  ASSUME TypeOK, ReadyInv, ~restarted, OnceInv, NextUiTask
  PROVE  FirstStart' /\ LoadInv' /\ LiveInv' /\ SavedInv'
<1> USE DEF OnceInv
<1>1. /\ UNCHANGED <<is_initialize_, json, toLoad>>
      /\ ui.at = "idle" /\ ui'.at \in {"idle", "init", "save"}
  BY DEF NextUiTask, UiAt
<1>2. CASE UNCHANGED <<scene, id_counter, told, real>>
  BY <1>1, <1>2 DEF FirstStart, LoadInv, LiveInv, SavedInv, SavedIds, SceneIds, DistinctIds
<1>3. CASE /\ scene # None /\ id_counter < MaxId
           /\ id_counter' = id_counter + 1
           /\ scene' = Append(scene, [key |-> id_counter', id |-> id_counter'])
           /\ told' = IF is_initialize_ THEN [told EXCEPT ![id_counter'] = @ + 1] ELSE told
           /\ real' = real \cup {id_counter'}
  <2>1. is_initialize_
    BY <1>1, <1>3 DEF ReadyInv, Loading, InObsInit
  <2>2. id_counter' \in Ids /\ id_counter \in Nat
    BY <1>3, CountTypes DEF TypeOK, Ids
  <2>3. id_counter' \notin real
    BY <1>3, <2>1, <2>2 DEF LiveInv
  <2>4. /\ SceneIds' = SceneIds \cup {id_counter'}
        /\ DistinctIds /\ id_counter' \notin SceneIds => DistinctIds'
    BY <1>3, <2>2, AddFacts
  <2>5. DistinctIds' /\ SceneIds' \subseteq real'
    BY <1>3, <2>1, <2>3, <2>4 DEF LiveInv
  <2>6. real' \subseteq 1 .. id_counter'
    BY <1>3, <2>1, <2>2 DEF LiveInv
  <2>7. \A i \in Ids : told'[i] > 0 => told'[i] = 1 /\ i \in real'
    <3>1. told \in [Ids -> Nat] /\ \A i \in Ids : told[i] > 0 => told[i] = 1 /\ i \in real
      BY <2>1 DEF LiveInv, TypeOK
    <3>2. told[id_counter'] = 0
      BY <2>2, <2>3, <3>1
    <3> QED
      BY <1>3, <2>1, <2>2, <3>1, <3>2
  <2>8. LiveInv'
    BY <2>5, <2>6, <2>7 DEF LiveInv
  <2> QED
    BY <1>1, <2>1, <2>8 DEF FirstStart, LoadInv, SavedInv
<1> QED
  BY <1>2, <1>3 DEF NextUiTask

(* An item is removed, or not.                                             *)
LEMMA OnceEdit ==
  ASSUME TypeOK, ReadyInv, ~restarted, OnceInv, NextPoolTask
  PROVE  FirstStart' /\ LoadInv' /\ LiveInv' /\ SavedInv'
<1> USE DEF OnceInv
<1>1. UNCHANGED <<is_initialize_, json, toLoad, ui, id_counter, told, real>>
  BY DEF NextPoolTask
<1>2. FirstStart' /\ SavedInv'
  BY <1>1 DEF FirstStart, SavedInv, SavedIds
<1>3. CASE UNCHANGED scene
  BY <1>1, <1>2, <1>3 DEF LoadInv, LiveInv, SavedIds, SceneIds, DistinctIds, Keys, DistinctKeys
<1>4. ASSUME scene # None, NEW i \in DOMAIN scene, scene' = RemoveAt(scene, i)
      PROVE  LoadInv' /\ LiveInv'
  <2>1. /\ SceneIds' \subseteq SceneIds /\ Keys' \subseteq Keys
        /\ DistinctIds => DistinctIds'
        /\ DistinctKeys => DistinctKeys'
    BY <1>4, RemoveFacts
  <2>2. LoadInv'
    BY <1>1, <2>1 DEF LoadInv, SavedIds
  <2>3. LiveInv'
    BY <1>1, <2>1 DEF LiveInv
  <2> QED
    BY <2>2, <2>3
<1> QED
  BY <1>2, <1>3, <1>4, EditFacts

(* OBSInit before it has succeeded.                                        *)
LEMMA OnceLoad ==
  ASSUME TypeOK, StageInv, ItemsInv, ReadyInv, ~restarted', OnceInv, ~restarted,
         InitObs \/ LoadDefault \/ LoadScene \/ LoadItem \/ LoadItemId \/ LoadCounter
  PROVE  FirstStart' /\ LoadInv' /\ LiveInv' /\ SavedInv'
<1> USE DEF UiAt, OnceInv
<1>1. ~is_initialize_
  <2>1. InitObs => (is_initialize_ => restarted')
    BY Zenon DEF InitObs
  <2>2. InitObs \/ Loading
    BY DEF LoadDefault, LoadScene, LoadItem, LoadItemId, LoadCounter, Loading, InObsInit
  <2> QED
    BY <2>1, <2>2 DEF ReadyInv
<1>2. UNCHANGED <<is_initialize_, real>> /\ json' = json
  BY <1>1 DEF InitObs, LoadDefault, LoadScene, LoadItem, LoadItemId, LoadCounter, history
<1>3. \A i \in Ids : told'[i] = 0
  BY <1>1 DEF InitObs, LoadDefault, LoadScene, LoadItem, LoadItemId, LoadCounter, AddSceneItem,
              FirstStart
<1>4. ui'.at # "report"
  BY DEF InitObs, LoadDefault, LoadScene, LoadItem, LoadItemId, LoadCounter, TypeOK
<1>5. LiveInv' /\ SavedInv' /\ SavedIds' = SavedIds
  BY <1>1, <1>2 DEF LiveInv, SavedInv, SavedIds
<1>6. ui'.at = "ready" => id_counter' = IF json = Absent THEN 0 ELSE json.counter
  <2>1. CASE InitObs \/ LoadScene \/ LoadItem \/ LoadItemId
    BY <2>1 DEF InitObs, LoadScene, LoadItem, LoadItemId, TypeOK
  <2>2. CASE LoadDefault
    BY <2>2 DEF LoadDefault
  <2>3. CASE LoadCounter
    BY <2>3 DEF LoadCounter, StageInv
  <2> QED
    BY <2>1, <2>2, <2>3
<1>7. FirstStart'
  BY <1>1, <1>2, <1>3, <1>4, <1>5, <1>6 DEF FirstStart
<1>8. LoadInv'
  <2>1. CASE InitObs
    <3>1. ui'.at \in {"load", "answer"}
      BY <2>1 DEF InitObs, TypeOK
    <3> QED
      BY <3>1 DEF LoadInv
  <2>2. CASE LoadDefault
    <3>1. ui'.at = "ready" /\ scene' = <<>>
      BY <2>2 DEF LoadDefault, TypeOK
    <3>2. Keys' = {} /\ DistinctKeys'
      BY <3>1 DEF Keys, DistinctKeys
    <3> QED
      BY <3>1, <3>2 DEF LoadInv
  <2>3. CASE LoadScene
    <3>1. ui'.at = "item" /\ scene' = <<>> /\ json # Absent /\ toLoad' = json.items
      BY <2>3 DEF LoadScene, TypeOK
    <3>2. Keys' = {} /\ DistinctKeys'
      BY <3>1 DEF Keys, DistinctKeys
    <3>3. IsInjective(toLoad') /\ ToSet(toLoad') = SavedIds
      BY <3>1 DEF SavedInv, SavedIds
    <3> QED
      BY <1>5, <3>1, <3>2, <3>3 DEF LoadInv
  <2>4. CASE LoadItem
    <3>1. /\ ui.at = "item" /\ ui'.at = "id" /\ toLoad' = toLoad /\ toLoad # <<>>
          /\ scene # None /\ id_counter' \in Ids /\ Head(toLoad) \in Ids
      BY <2>4, CountTypes, HeadTypes DEF LoadItem, StageInv, TypeOK
    <3>2. Head(toLoad) \in ToSet(toLoad)
      BY <3>1, TailFacts
    <3>3. scene' = Append(scene, [key |-> Head(toLoad), id |-> id_counter'])
      BY <2>4 DEF LoadItem
    <3>4. /\ Keys' = Keys \cup {Head(toLoad)}
          /\ DistinctKeys /\ Head(toLoad) \notin Keys => DistinctKeys'
      BY <3>1, <3>3, AddFacts
    <3>5. Keys \cap ToSet(toLoad) = {} /\ DistinctKeys
      BY <3>1 DEF LoadInv
    <3> QED
      BY <1>5, <3>1, <3>2, <3>4, <3>5 DEF LoadInv
  <2>5. CASE LoadItemId
    <3>1. /\ ui.at = "id" /\ ui'.at = "item" /\ toLoad # <<>> /\ toLoad' = Tail(toLoad)
          /\ scene # None
      BY <2>5 DEF LoadItemId, StageInv, TypeOK
    <3>2. Keys' = Keys /\ (DistinctKeys => DistinctKeys')
      BY <2>5, <3>1, LoadItemIdFacts
    <3>3. /\ IsInjective(toLoad') /\ ToSet(toLoad') \subseteq ToSet(toLoad)
          /\ Head(toLoad) \notin ToSet(toLoad')
      BY <3>1, TailFacts DEF LoadInv
    <3> QED
      BY <1>5, <3>1, <3>2, <3>3 DEF LoadInv
  <2>6. CASE LoadCounter
    <3>1. ui.at = "item" /\ ui'.at = "ready" /\ UNCHANGED scene
      BY <2>6 DEF LoadCounter, TypeOK
    <3> QED
      BY <1>5, <3>1 DEF LoadInv, Keys, DistinctKeys
  <2> QED
    BY <2>1, <2>2, <2>3, <2>4, <2>5, <2>6
<1> QED
  BY <1>5, <1>7, <1>8

(* OBSInit succeeds: the items loaded have their ids.                      *)
LEMMA OnceReady ==
  ASSUME TypeOK, StageInv, ItemsInv, ReadyInv, ~restarted, OnceInv, Ready
  PROVE  FirstStart' /\ LoadInv' /\ LiveInv' /\ SavedInv'
<1> USE DEF UiAt, OnceInv
<1>1. /\ ui.at = "ready" /\ ui'.at = "report" /\ ~is_initialize_ /\ is_initialize_' = TRUE
      /\ UNCHANGED <<scene, id_counter, json, told, real, toLoad>>
  BY DEF Ready, TypeOK, ReadyInv, Loading, InObsInit, history
<1>2. scene # None /\ SceneIds = Keys /\ DistinctIds
  BY <1>1, LoadedFacts DEF StageInv, LoadInv
<1>3. /\ real = SavedIds /\ Keys \subseteq SavedIds /\ (\A i \in Ids : told[i] = 0)
      /\ id_counter = IF json = Absent THEN 0 ELSE json.counter
  BY <1>1 DEF FirstStart, LoadInv
<1>4. SavedIds \subseteq 1 .. id_counter
  BY <1>3 DEF SavedInv, SavedIds
<1>5. LiveInv'
  BY <1>1, <1>2, <1>3, <1>4 DEF LiveInv, DistinctIds, SceneIds
<1> QED
  BY <1>1, <1>3, <1>5 DEF FirstStart, LoadInv, SavedInv

(* The host is told of the items of the scene.                             *)
LEMMA OnceReport ==
  ASSUME TypeOK, ReadyInv, ~restarted, OnceInv, SendLoadSceneItemData
  PROVE  FirstStart' /\ LoadInv' /\ LiveInv' /\ SavedInv'
<1> USE DEF UiAt, OnceInv
<1>1. /\ ui.at = "report" /\ ui'.at = "answer" /\ is_initialize_
      /\ UNCHANGED <<is_initialize_, scene, id_counter, json, real, toLoad>>
      /\ told' = [i \in Ids |-> IF i \in SceneIds THEN told[i] + 1 ELSE told[i]]
  BY DEF SendLoadSceneItemData, TypeOK, ReadyInv, state, history
<1>2. \A i \in Ids : told[i] = 0
  BY <1>1 DEF FirstStart
<1>3. \A i \in Ids : told'[i] > 0 => told'[i] = 1 /\ i \in SceneIds
  BY <1>1, <1>2
<1>4. LiveInv'
  BY <1>1, <1>3 DEF LiveInv, DistinctIds, SceneIds
<1> QED
  BY <1>1, <1>4 DEF FirstStart, LoadInv, SavedInv

(* What has happened stays so.                                             *)
LEMMA HistoryGrows ==
  ASSUME TypeOK, [Next]_vars
  PROVE  /\ restarted => restarted'
         /\ mistaken => mistaken'
         /\ early => early'
<1>1. CASE InitObs
  <2>1. restarted => restarted'
    BY <1>1, Zenon DEF InitObs
  <2> QED
    BY <1>1, <2>1 DEF InitObs
<1>2. CASE NextPoolTask
  <2>1. UNCHANGED restarted
    BY <1>2 DEF NextPoolTask
  <2>2. CASE UNCHANGED <<early, mistaken>>
    BY <2>1, <2>2
  <2>3. ASSUME NEW i \in DOMAIN scene, early' = (early \/ ~is_initialize_),
               mistaken' = (mistaken \/ scene[i].key # sent[Head(poolQueue)].id)
        PROVE  (mistaken => mistaken') /\ (early => early')
    BY <2>3, Zenon
  <2> QED
    BY <1>2, <2>1, <2>2, <2>3, EditFacts
<1>3. CASE ~InitObs /\ ~NextPoolTask
  <2>1. UNCHANGED <<restarted, mistaken, early>>
    BY <1>3 DEF Next, Main, StartMojo, CreateScheduler, StartWorkers, Proceed, Deliver, Dispatch,
       ShutdownProcess, OnRemoteDisconnect, UiThread, NextUiTask, SaveAdded, LoadDefault,
       LoadScene, LoadItem, LoadItemId, LoadCounter, Ready, SendLoadSceneItemData, AnswerStart,
       CreatePreviewDisplay, PoolThread, SaveEdit, SendMsgByMojoPullResp, vars, history
  <2> QED
    BY <2>1
<1> QED
  BY <1>1, <1>2, <1>3

LEMMA OnceNext ==
  ASSUME TypeOK, StageInv, ItemsInv, ReadyInv, OnceInv, [Next]_vars
  PROVE  OnceInv'
<1> SUFFICES ASSUME ~restarted'
             PROVE  FirstStart' /\ LoadInv' /\ LiveInv' /\ SavedInv'
  BY DEF OnceInv
<1> DEFINE seen == <<scene, is_initialize_, id_counter, told, real, toLoad, ui, json>>
<1>1. ~restarted
  BY HistoryGrows
<1>2. CASE UNCHANGED seen
  BY <1>1, <1>2 DEF OnceInv, FirstStart, LoadInv, LiveInv, SavedInv, SavedIds, SceneIds,
                    DistinctIds, Keys, DistinctKeys
<1>3. CASE SaveProject /\ UNCHANGED <<scene, is_initialize_, id_counter, told, real, toLoad>>
             /\ (ui' = ui \/ (ui.at = "save" /\ ui'.at = "idle"))
  BY <1>1, <1>3, OnceSave
<1>4. CASE NextUiTask
  BY <1>1, <1>4, OnceAdd
<1>5. CASE InitObs \/ LoadDefault \/ LoadScene \/ LoadItem \/ LoadItemId \/ LoadCounter
  BY <1>1, <1>5, OnceLoad
<1>6. CASE Ready
  BY <1>1, <1>6, OnceReady
<1>7. CASE SendLoadSceneItemData
  BY <1>1, <1>7, OnceReport
<1>8. CASE AnswerStart \/ CreatePreviewDisplay
  <2>1. /\ UNCHANGED <<scene, is_initialize_, id_counter, told, real, toLoad, json>>
        /\ ui'.at \in {"idle", "display"}
    BY <1>8 DEF AnswerStart, CreatePreviewDisplay, TypeOK, Idle, state, history
  <2> QED
    BY <1>1, <2>1 DEF OnceInv, FirstStart, LoadInv, LiveInv, SavedInv, SavedIds, SceneIds,
                      DistinctIds
<1>9. CASE NextPoolTask
  BY <1>1, <1>9, OnceEdit
<1>10. OnRemoteDisconnect \/ SaveAdded \/ SaveEdit => <1>3!1
  BY DEF OnRemoteDisconnect, SaveAdded, SaveEdit, UiAt, Idle, history
<1>11. Main \/ Deliver \/ ShutdownProcess \/ SendMsgByMojoPullResp \/ UNCHANGED vars
         => UNCHANGED seen
  BY DEF Main, StartMojo, CreateScheduler, StartWorkers, Proceed, Deliver, Dispatch,
         ShutdownProcess, SendMsgByMojoPullResp, vars, state, history
<1> QED
  BY <1>2, <1>3, <1>4, <1>5, <1>6, <1>7, <1>8, <1>9, <1>10, <1>11 DEF Next, UiThread, PoolThread

-----------------------------------------------------------------------------
(* What the host hears.                                                    *)

AnswerInv ==
  \A m \in DOMAIN sent : sent[m].kind = "start" /\ answer[m] = <<0>> => is_initialize_

ToldInv ==
  is_initialize_ /\ ui.at \notin InObsInit \cup {"report"} => \A i \in SceneIds : told[i] > 0

(* Who answers a message has served it; the code is the last one it gets.  *)
LEMMA AnsweredFacts ==
  ASSUME TypeOK, NEW m \in DOMAIN sent, NEW code \in {0, 1},
         answer' = [answer EXCEPT ![m] = Append(@, code)]
  PROVE  /\ \A n \in DOMAIN sent : n # m => answer'[n] = answer[n]
         /\ answer'[m] = <<0>> => code = 0
<1>1. m \in Requests /\ DOMAIN sent \subseteq Requests
  BY BoundAssumption DEF TypeOK, Requests
<1>2. answer \in [Requests -> Seq({0, 1})]
  BY DEF TypeOK
<1>3. answer'[m] = Append(answer[m], code) /\ answer[m] \in Seq({0, 1})
  BY <1>1, <1>2
<1>4. /\ Len(answer'[m]) = Len(answer[m]) + 1 /\ Len(answer[m]) \in Nat
      /\ answer'[m][Len(answer[m]) + 1] = code
  BY <1>3, AppendProperties
<1>5. ASSUME answer'[m] = << 0 >> PROVE code = 0
  <2>1. Len(<<0>>) = 1 /\ <<0>>[1] = 0
    OBVIOUS
  <2> QED
    BY <1>4, <1>5, <2>1
<1> QED
  BY <1>1, <1>2, <1>5

LEMMA AnswerNext ==
  ASSUME TypeOK, QueueInv, ReadyInv, AnswerInv, [Next]_vars
  PROVE  AnswerInv'
<1> USE DEF UiAt, PoolAt
<1>1. CASE Deliver
  <2>1. PICK message \in Messages : Dispatch(message)
    BY <1>1 DEF Deliver
  <2>2. /\ sent' = Append(sent, message) /\ sent \in Seq(Messages)
        /\ Len(sent) + 1 \in Requests
        /\ UNCHANGED <<answer, is_initialize_>>
    BY <2>1 DEF Dispatch, TypeOK, state
  <2>3. /\ DOMAIN sent = 1 .. Len(sent) /\ Len(sent) \in Nat
        /\ DOMAIN sent' = 1 .. Len(sent) + 1
        /\ \A i \in DOMAIN sent : sent'[i] = sent[i]
    BY <2>2, AppendProperties, LenProperties
  <2>4. answer[Len(sent) + 1] = <<>>
    BY <2>2, <2>3 DEF QueueInv
  <2>5. <<>> # <<0>>
    OBVIOUS
  <2>6. \A m \in DOMAIN sent' : answer[m] = <<0>> => m \in DOMAIN sent
    <3>1. \A m \in DOMAIN sent' : m \in DOMAIN sent \/ m = Len(sent) + 1
      BY <2>3
    <3> QED
      BY <3>1, <2>4, <2>5, Zenon
  <2> QED
    BY <2>2, <2>3, <2>6 DEF AnswerInv
<1>2. CASE AnswerStart
  <2>1. /\ ui.at = "answer" /\ ui.msg \in DOMAIN sent /\ ui.code \in {0, 1}
        /\ answer' = [answer EXCEPT ![ui.msg] = Append(@, ui.code)]
        /\ UNCHANGED <<sent, is_initialize_>>
    BY <1>2 DEF AnswerStart, QueueInv, TypeOK, queues, state
  <2>2. /\ \A n \in DOMAIN sent : n # ui.msg => answer'[n] = answer[n]
        /\ answer'[ui.msg] = <<0>> => ui.code = 0
    BY <2>1, AnsweredFacts
  <2> QED
    BY <2>1, <2>2 DEF AnswerInv, ReadyInv
<1>3. CASE SendMsgByMojoPullResp
  <2>1. /\ pool.msg \in DOMAIN sent /\ pool.code \in {0, 1} /\ sent[pool.msg].kind # "start"
        /\ answer' = [answer EXCEPT ![pool.msg] = Append(@, pool.code)]
        /\ UNCHANGED <<sent, is_initialize_>>
    BY <1>3 DEF SendMsgByMojoPullResp, QueueInv, TypeOK, queues, state
  <2>2. \A n \in DOMAIN sent : n # pool.msg => answer'[n] = answer[n]
    BY <2>1, AnsweredFacts
  <2> QED
    BY <2>1, <2>2 DEF AnswerInv
<1>4. CASE UNCHANGED <<sent, answer>> /\ (is_initialize_ => is_initialize_')
  BY <1>4 DEF AnswerInv
<1>5. Main \/ ShutdownProcess \/ OnRemoteDisconnect \/ UNCHANGED vars
        => UNCHANGED <<sent, answer, is_initialize_>>
  BY DEF Main, StartMojo, CreateScheduler, StartWorkers, Proceed, ShutdownProcess,
         OnRemoteDisconnect, vars, queues, state
<1>6. NextUiTask \/ SaveAdded \/ InitObs \/ LoadDefault \/ LoadScene \/ LoadItem \/ LoadItemId
        \/ LoadCounter \/ SendLoadSceneItemData \/ CreatePreviewDisplay
        \/ NextPoolTask \/ SaveEdit
        => UNCHANGED <<sent, answer, is_initialize_>>
  BY DEF NextUiTask, SaveAdded, InitObs, LoadDefault, LoadScene, LoadItem, LoadItemId,
         LoadCounter, SendLoadSceneItemData, CreatePreviewDisplay, NextPoolTask, SaveEdit,
         queues, state
<1>7. Ready => UNCHANGED <<sent, answer>> /\ is_initialize_'
  BY DEF Ready, queues
<1> QED
  BY <1>1, <1>2, <1>3, <1>4, <1>5, <1>6, <1>7 DEF Next, UiThread, PoolThread

LEMMA ToldNext ==
  ASSUME TypeOK, ReadyInv, ToldInv, [Next]_vars
  PROVE  ToldInv'
<1> USE DEF UiAt, InObsInit
<1>1. CASE NextUiTask
  <2>1. CASE UNCHANGED <<scene, told>>
    BY <1>1, <2>1 DEF NextUiTask, ToldInv, SceneIds
  <2>2. CASE /\ scene # None /\ id_counter < MaxId
             /\ id_counter' = id_counter + 1
             /\ scene' = Append(scene, [key |-> id_counter', id |-> id_counter'])
             /\ told' = IF is_initialize_ THEN [told EXCEPT ![id_counter'] = @ + 1] ELSE told
    <3>1. id_counter' \in Ids /\ told \in [Ids -> Nat]
      BY <2>2, CountTypes DEF TypeOK
    <3>2. SceneIds' = SceneIds \cup {id_counter'}
      BY <2>2, <3>1, AddFacts
    <3>3. SceneIds \subseteq Ids
      BY <2>2, SceneTypes DEF SceneIds
    <3>4. is_initialize_ =>
            \A i \in Ids : told'[i] = IF i = id_counter' THEN told[i] + 1 ELSE told[i]
      BY <2>2, <3>1
    <3>5. ui.at = "idle" /\ UNCHANGED is_initialize_
      BY <1>1 DEF NextUiTask
    <3> QED
      BY <3>1, <3>2, <3>3, <3>4, <3>5 DEF ToldInv
  <2> QED
    BY <1>1, <2>1, <2>2 DEF NextUiTask
<1>2. CASE InitObs
  <2>1. SceneIds' = {}
    BY <1>2 DEF InitObs, SceneIds
  <2> QED
    BY <2>1 DEF ToldInv
<1>3. CASE LoadDefault \/ LoadScene \/ LoadItem \/ LoadItemId \/ LoadCounter \/ Ready
  <2>1. ui'.at \in {"item", "id", "ready", "report"}
    BY <1>3 DEF LoadDefault, LoadScene, LoadItem, LoadItemId, LoadCounter, Ready, TypeOK
  <2> QED
    BY <2>1 DEF ToldInv
<1>4. CASE SendLoadSceneItemData
  <2>1. UNCHANGED scene /\ SceneIds \subseteq Ids
    BY <1>4, SceneTypes DEF SendLoadSceneItemData, SceneIds, state
  <2>2. \A i \in SceneIds : told'[i] > 0
    BY <1>4, <2>1 DEF SendLoadSceneItemData, TypeOK
  <2> QED
    BY <2>1, <2>2 DEF ToldInv, SceneIds
<1>5. CASE NextPoolTask
  <2>1. UNCHANGED <<told, ui, is_initialize_>>
    BY <1>5 DEF NextPoolTask
  <2>2. SceneIds' \subseteq SceneIds
    BY <1>5, EditFacts, RemoveFacts DEF SceneIds
  <2> QED
    BY <2>1, <2>2 DEF ToldInv
<1>6. CASE /\ UNCHANGED <<scene, told, is_initialize_>>
           /\ ui.at \in InObsInit \cup {"report"} => ui'.at \in InObsInit \cup {"report"}
  BY <1>6 DEF ToldInv, SceneIds
<1>7. Main \/ Deliver \/ ShutdownProcess \/ OnRemoteDisconnect \/ SaveAdded
        \/ AnswerStart \/ CreatePreviewDisplay \/ SaveEdit
        \/ SendMsgByMojoPullResp \/ UNCHANGED vars => <1>6!1
  BY DEF Main, StartMojo, CreateScheduler, StartWorkers, Proceed, Deliver, Dispatch,
         ShutdownProcess, OnRemoteDisconnect, SaveAdded, AnswerStart, CreatePreviewDisplay,
         SaveEdit, SendMsgByMojoPullResp, vars, queues, state
<1> QED
  BY <1>1, <1>2, <1>3, <1>4, <1>5, <1>6, <1>7 DEF Next, UiThread, PoolThread

(* What every state of a start has in common.                              *)
StartInv ==
  TypeOK /\ StageInv /\ QueueInv /\ ItemsInv /\ ReadyInv /\ OnceInv /\ AnswerInv /\ ToldInv

LEMMA StartInvHolds == Spec => []StartInv
<1>1. Init => StartInv
  BY TypesInit, OnceInit DEF StartInv, AnswerInv, ToldInv, Init
<1>2. StartInv /\ [Next]_vars => StartInv'
  BY TypesNext, QueueNext, ItemsNext, ReadyNext, OnceNext, AnswerNext, ToldNext DEF StartInv
<1> QED
  BY <1>1, <1>2, PTL DEF Spec

(* What the host hears of a start (HostHearsOfStart): each item once and   *)
(* by the id it keeps, as long as OBSInit does not run again after it      *)
(* succeeded, and all of them before the answer that the start succeeded,  *)
(* whatever the pool has edited meanwhile.                                 *)
THEOREM HostHearsInOrder == Spec => []HostHearsOfStart
<1>1. StartInv => HostHearsOfStart
  <2> SUFFICES ASSUME StartInv PROVE HostHearsOfStart
    OBVIOUS
  <2>1. ReportedOnceByItsId
    BY DEF StartInv, OnceInv, FirstStart, LiveInv, ReportedOnceByItsId
  <2>2. StartAnswerComesLast
    BY DEF StartInv, AnswerInv, ToldInv, StartAnswerComesLast
  <2> QED
    BY <2>1, <2>2 DEF HostHearsOfStart
<1> QED
  BY <1>1, StartInvHolds, PTL

(* A project on disk can be loaded again as it is assumed of the first     *)
(* one: it has each id once, and its counter has reached them all.         *)
THEOREM SavedProjectsAreSound == Spec => [](~restarted => SavedInv)
<1>1. StartInv => (~restarted => SavedInv)
  BY DEF StartInv, OnceInv
<1> QED
  BY <1>1, StartInvHolds, PTL

-----------------------------------------------------------------------------
(* What becomes of the project on disk.                                    *)

(* An item removed by an edit that is still to be acknowledged; and what   *)
(* was removed or is being removed.                                        *)
Pending ==
  IF pool.at \in {"save", "answer"} /\ pool.code = 0 /\ sent[pool.msg].kind = "edit"
  THEN {sent[pool.msg].id} ELSE {}
Gone == removed \cup Pending

(* No item of the project is lost but by an edit: on the way from the disk *)
(* to the scene, in the scene, and on the way back.                        *)
KeptInv ==
  /\ is_initialize_ => real \subseteq SceneIds \cup Gone
  /\ ui.at = "item" => SavedIds \subseteq ToSet(toLoad) \cup Keys \cup Gone
  /\ ui.at = "id" => SavedIds \subseteq ToSet(Tail(toLoad)) \cup Keys \cup Gone
  /\ ui.at = "ready" => SavedIds \subseteq Keys \cup Gone
  /\ real \subseteq SavedIds \cup Gone \cup (IF ui.at = "save" THEN SceneIds ELSE {})

(* What was removed after the start is in the scene no more; nor is it on  *)
(* disk, once its edit has saved.                                          *)
GoneInv ==
  /\ ~is_initialize_ => Gone = {}
  /\ is_initialize_ => Gone \subseteq 1 .. id_counter /\ Gone \cap SceneIds = {}
  /\ removed \cap SavedIds = {}
  /\ pool.at = "answer" => Gone \cap SavedIds = {}

(* A removal begins with NextPoolTask and ends with its acknowledgement.   *)
LEMMA EditBegins ==
  ASSUME TypeOK, NextPoolTask
  PROVE  /\ Gone = removed /\ removed' = removed
         /\ \/ UNCHANGED <<scene, early, mistaken>> /\ Gone' = removed
            \/ \E i \in DOMAIN scene :
                 /\ scene # None /\ scene' = RemoveAt(scene, i) /\ pool'.at = "save"
                 /\ Gone' \subseteq removed \cup {scene[i].id} /\ scene[i].id \in Gone'
                 /\ early' = (early \/ ~is_initialize_)
                 /\ mistaken' = (mistaken \/ scene[i].key # scene[i].id)
<1> DEFINE m == Head(poolQueue)
<1>1. Pending = {} /\ removed' = removed /\ sent' = sent
  BY DEF NextPoolTask, PoolAt, Pending
<1>2. CASE /\ sent[m].kind = "edit" /\ UNCHANGED <<scene, early, mistaken>>
           /\ pool' = [at |-> "answer", msg |-> m, code |-> 1]
  BY <1>1, <1>2 DEF Gone, Pending
<1>3. CASE /\ sent[m].kind = "query" /\ UNCHANGED <<scene, early, mistaken>>
           /\ pool' = [at |-> "answer", msg |-> m, code |-> 0] \/ pool' = pool
  BY <1>1, <1>3 DEF Gone, Pending
<1>4. ASSUME sent[m].kind = "edit", NEW i \in DOMAIN scene,
             scene # None, scene' = RemoveAt(scene, i), scene[i].id = sent[m].id,
             early' = (early \/ ~is_initialize_),
             mistaken' = (mistaken \/ scene[i].key # sent[m].id),
             pool' = [at |-> "save", msg |-> m, code |-> 0]
      PROVE  \E j \in DOMAIN scene :
               /\ scene # None /\ scene' = RemoveAt(scene, j) /\ pool'.at = "save"
               /\ Gone' \subseteq removed \cup {scene[j].id} /\ scene[j].id \in Gone'
               /\ early' = (early \/ ~is_initialize_)
               /\ mistaken' = (mistaken \/ scene[j].key # scene[j].id)
  <2>1. Pending' = {scene[i].id}
    BY <1>1, <1>4 DEF Pending
  <2>2. Gone' = removed \cup {scene[i].id} /\ pool'.at = "save"
    BY <1>1, <1>4, <2>1 DEF Gone
  <2>3. mistaken' = (mistaken \/ scene[i].key # scene[i].id)
    BY <1>4, Zenon
  <2>4. scene[i].id \in Gone' /\ Gone' \subseteq removed \cup {scene[i].id}
    BY <2>2
  <2> QED
    BY <1>4, <2>2, <2>3, <2>4, Zenon
<1>5. \/ /\ sent[m].kind = "edit" /\ UNCHANGED <<scene, early, mistaken>>
         /\ pool' = [at |-> "answer", msg |-> m, code |-> 1]
      \/ /\ sent[m].kind = "query" /\ UNCHANGED <<scene, early, mistaken>>
         /\ pool' = [at |-> "answer", msg |-> m, code |-> 0] \/ pool' = pool
      \/ \E i \in DOMAIN scene :
           /\ sent[m].kind = "edit"
           /\ scene # None /\ scene' = RemoveAt(scene, i) /\ scene[i].id = sent[m].id
           /\ early' = (early \/ ~is_initialize_)
           /\ mistaken' = (mistaken \/ scene[i].key # sent[m].id)
           /\ pool' = [at |-> "save", msg |-> m, code |-> 0]
  BY DEF NextPoolTask, EditSourceItem
<1> QED
  BY <1>1, <1>2, <1>3, <1>4, <1>5 DEF Gone

LEMMA EditEnds ==
  ASSUME TypeOK, QueueInv, [Next]_vars, ~NextPoolTask
  PROVE  /\ Gone' = Gone
         /\ ~SendMsgByMojoPullResp => removed' = removed
         /\ ~SendMsgByMojoPullResp /\ ~SaveEdit => pool' = pool
<1> USE DEF PoolAt
<1>1. CASE SendMsgByMojoPullResp
  <2>1. Pending' = {} /\ removed' = removed \cup Pending
    BY <1>1 DEF SendMsgByMojoPullResp, Pending, Idle
  <2>2. ~SaveEdit /\ Gone' = Gone
    BY <1>1, <2>1 DEF SaveEdit, SendMsgByMojoPullResp, Gone
  <2> QED
    BY <1>1, <2>2
<1>2. CASE SaveEdit
  <2>1. /\ pool.at = "save" /\ pool'.at = "answer" /\ pool'.msg = pool.msg /\ pool'.code = pool.code
        /\ UNCHANGED <<sent, removed>>
    BY <1>2 DEF SaveEdit, TypeOK, queues, history
  <2>2. Pending' = Pending
    BY <2>1 DEF Pending
  <2> QED
    BY <1>2, <2>1, <2>2 DEF Gone
<1>3. CASE Deliver
  <2>1. PICK message \in Messages : Dispatch(message)
    BY <1>3 DEF Deliver
  <2>2. sent' = Append(sent, message) /\ sent \in Seq(Messages) /\ UNCHANGED <<pool, removed>>
    BY <2>1 DEF Dispatch, TypeOK, history
  <2>3. pool.at # "idle" => sent'[pool.msg] = sent[pool.msg]
    BY <2>2, AppendProperties, LenProperties DEF QueueInv
  <2>4. Pending' = Pending
    BY <2>2, <2>3 DEF Pending
  <2> QED
    BY <2>2, <2>4 DEF Gone
<1>4. CASE ~SendMsgByMojoPullResp /\ ~SaveEdit /\ ~Deliver
  <2>1. UNCHANGED <<pool, removed, sent>>
    BY <1>4 DEF Next, Main, StartMojo, CreateScheduler, StartWorkers, Proceed,
       ShutdownProcess, OnRemoteDisconnect, UiThread, NextUiTask, SaveAdded, InitObs, LoadDefault,
       LoadScene, LoadItem, LoadItemId, LoadCounter, Ready, SendLoadSceneItemData, AnswerStart,
       CreatePreviewDisplay, PoolThread, vars, queues, history
  <2> QED
    BY <2>1 DEF Gone, Pending
<1> QED
  BY <1>1, <1>2, <1>3, <1>4

KeptOnce == ~restarted /\ ~mistaken => KeptInv
GoneOnce == ~restarted /\ ~early => GoneInv

(* The saves, and the steps that leave scene and project alone.            *)
LEMMA KeptSave ==
  ASSUME StartInv, KeptInv, ~restarted, SaveProject, Gone' = Gone,
         UNCHANGED <<scene, is_initialize_, real, toLoad>>,
         ui' = ui \/ (ui.at = "save" /\ ui'.at = "idle")
  PROVE  KeptInv'
<1>1. SceneIds' = SceneIds /\ Keys' = Keys
  BY DEF SceneIds, Keys
<1>2. CASE ~is_initialize_
  <2>1. json' = json
    BY <1>2, SaveFacts DEF StartInv
  <2>2. SavedIds' = SavedIds
    BY <2>1 DEF SavedIds
  <2>3. ui.at = "save" => SceneIds = {}
    BY <1>2 DEF StartInv, ReadyInv, Loading, InObsInit, SceneIds
  <2> QED
    BY <1>1, <1>2, <2>2, <2>3 DEF KeptInv
<1>3. CASE is_initialize_
  <2>1. scene # None /\ ui'.at \notin {"item", "id", "ready"}
    BY <1>3 DEF StartInv, ReadyInv, Loading, InObsInit
  <2>2. json' # Absent /\ ToSet(json'.items) = SceneIds
    BY <1>3, <2>1, SaveFacts DEF StartInv
  <2>3. SavedIds' = SceneIds
    BY <2>2 DEF SavedIds
  <2> QED
    BY <1>1, <1>3, <2>1, <2>3 DEF KeptInv
<1> QED
  BY <1>2, <1>3

LEMMA KeptAdd ==
  ASSUME StartInv, KeptInv, ~restarted, NextUiTask, Gone' = Gone
  PROVE  KeptInv'
<1>1. /\ ui.at = "idle" /\ ui'.at \in {"idle", "init", "save"}
      /\ UNCHANGED <<is_initialize_, json, toLoad>> /\ SavedIds' = SavedIds
  BY DEF NextUiTask, UiAt, SavedIds
<1>2. CASE UNCHANGED <<scene, real>>
  <2>1. SceneIds' = SceneIds
    BY <1>2 DEF SceneIds
  <2> QED
    BY <1>1, <1>2, <2>1 DEF KeptInv
<1>3. CASE /\ scene # None /\ id_counter < MaxId
           /\ id_counter' = id_counter + 1
           /\ scene' = Append(scene, [key |-> id_counter', id |-> id_counter'])
           /\ real' = real \cup {id_counter'}
           /\ ui'.at = "save"
  <2>1. TypeOK /\ id_counter' \in Ids
    BY <1>3, CountTypes DEF StartInv
  <2>2. SceneIds' = SceneIds \cup {id_counter'}
    BY <1>3, <2>1, AddFacts
  <2> QED
    BY <1>1, <1>3, <2>2 DEF KeptInv
<1> QED
  BY <1>2, <1>3 DEF NextUiTask

LEMMA KeptLoad ==
  ASSUME StartInv, KeptInv, ~restarted, Gone' = Gone, StartInv', ~restarted',
         InitObs \/ LoadDefault \/ LoadScene \/ LoadItem \/ LoadItemId \/ LoadCounter
  PROVE  KeptInv'
<1> USE DEF UiAt
<1>1. ~is_initialize_ /\ is_initialize_' = is_initialize_
  <2>1. InitObs => (is_initialize_ => restarted')
    BY Zenon DEF InitObs
  <2>2. InitObs \/ Loading
    BY DEF LoadDefault, LoadScene, LoadItem, LoadItemId, LoadCounter, Loading, InObsInit
  <2>3. is_initialize_' = is_initialize_
    BY DEF InitObs, LoadDefault, LoadScene, LoadItem, LoadItemId, LoadCounter
  <2> QED
    BY <2>1, <2>2, <2>3 DEF StartInv, ReadyInv
<1>2. real' = SavedIds' /\ json' = json /\ SavedIds' = SavedIds
  <2>1. real' = SavedIds'
    BY <1>1 DEF StartInv, OnceInv, FirstStart
  <2>2. json' = json
    BY <1>1 DEF InitObs, LoadDefault, LoadScene, LoadItem, LoadItemId, LoadCounter
  <2> QED
    BY <2>1, <2>2 DEF SavedIds
<1>3. /\ ui'.at = "item" => SavedIds' \subseteq ToSet(toLoad') \cup Keys' \cup Gone'
      /\ ui'.at = "id" => SavedIds' \subseteq ToSet(Tail(toLoad')) \cup Keys' \cup Gone'
      /\ ui'.at = "ready" => SavedIds' \subseteq Keys' \cup Gone'
  <2>1. CASE InitObs
    <3>1. ui'.at \in {"load", "answer"}
      BY <2>1 DEF InitObs, StartInv, TypeOK
    <3> QED
      BY <3>1
  <2>2. CASE LoadDefault
    <3>1. ui'.at = "ready" /\ SavedIds = {}
      BY <2>2 DEF LoadDefault, StartInv, TypeOK, SavedIds
    <3> QED
      BY <1>2, <3>1
  <2>3. CASE LoadScene
    <3>1. ui'.at = "item" /\ ToSet(toLoad') = SavedIds
      BY <2>3 DEF LoadScene, StartInv, TypeOK, SavedIds
    <3> QED
      BY <1>2, <3>1
  <2>4. CASE LoadItem
    <3>1. /\ ui.at = "item" /\ ui'.at = "id" /\ toLoad' = toLoad /\ toLoad # <<>> /\ TypeOK
          /\ scene # None /\ id_counter' \in Ids /\ Head(toLoad) \in Ids
      BY <2>4, CountTypes, HeadTypes DEF LoadItem, StageInv, StartInv, TypeOK
    <3>2. ToSet(toLoad) = {Head(toLoad)} \cup ToSet(Tail(toLoad))
      BY <3>1, TailFacts
    <3>3. scene' = Append(scene, [key |-> Head(toLoad), id |-> id_counter'])
      BY <2>4 DEF LoadItem
    <3>4. Keys' = Keys \cup {Head(toLoad)}
      BY <3>1, <3>3, AddFacts
    <3>5. SavedIds \subseteq ToSet(toLoad) \cup Keys \cup Gone
      BY <3>1 DEF KeptInv
    <3> QED
      BY <1>2, <3>1, <3>2, <3>4, <3>5
  <2>5. CASE LoadItemId
    <3>1. /\ ui.at = "id" /\ ui'.at = "item" /\ toLoad # <<>> /\ toLoad' = Tail(toLoad)
          /\ scene # None /\ TypeOK
      BY <2>5 DEF LoadItemId, StageInv, StartInv, TypeOK
    <3>2. Keys' = Keys
      BY <2>5, <3>1, LoadItemIdFacts
    <3> QED
      BY <1>2, <3>1, <3>2 DEF KeptInv
  <2>6. CASE LoadCounter
    <3>1. ui.at = "item" /\ ui'.at = "ready" /\ UNCHANGED scene /\ ToSet(toLoad) = {}
      BY <2>6 DEF LoadCounter, StartInv, TypeOK, ToSet
    <3> QED
      BY <1>2, <3>1 DEF KeptInv, Keys
  <2> QED
    BY <2>1, <2>2, <2>3, <2>4, <2>5, <2>6
<1> QED
  BY <1>1, <1>2, <1>3 DEF KeptInv

LEMMA KeptEdit ==
  ASSUME StartInv, KeptInv, ~restarted, NextPoolTask, ~mistaken'
  PROVE  KeptInv'
<1>1. UNCHANGED <<is_initialize_, json, toLoad, ui, real>> /\ SavedIds' = SavedIds
  BY DEF NextPoolTask, SavedIds
<1>2. TypeOK
  BY DEF StartInv
<1>3. CASE UNCHANGED scene /\ Gone' = Gone
  <2>1. SceneIds' = SceneIds /\ Keys' = Keys
    BY <1>3 DEF SceneIds, Keys
  <2> QED
    BY <1>1, <1>3, <2>1 DEF KeptInv
<1>4. ASSUME NEW i \in DOMAIN scene, scene # None, scene' = RemoveAt(scene, i),
             scene[i].id \in Gone', Gone \subseteq Gone',
             mistaken' = (mistaken \/ scene[i].key # scene[i].id)
      PROVE  KeptInv'
  <2>1. scene[i].key = scene[i].id
    BY <1>4, Zenon
  <2>2. SceneIds \subseteq SceneIds' \cup Gone' /\ Keys \subseteq Keys' \cup Gone'
    BY <1>2, <1>4, <2>1, RemoveFacts
  <2> QED
    BY <1>1, <1>4, <2>2 DEF KeptInv
<1>5. /\ Gone = removed /\ removed' = removed
      /\ \/ UNCHANGED scene /\ Gone' = removed
         \/ \E i \in DOMAIN scene :
              /\ scene # None /\ scene' = RemoveAt(scene, i)
              /\ scene[i].id \in Gone'
              /\ mistaken' = (mistaken \/ scene[i].key # scene[i].id)
  BY <1>2, EditBegins
<1>6. Gone \subseteq Gone'
  BY <1>5 DEF Gone
<1> QED
  BY <1>3, <1>4, <1>5, <1>6

LEMMA KeptNext ==
  ASSUME StartInv, StartInv', KeptOnce, [Next]_vars
  PROVE  KeptOnce'
<1> SUFFICES ASSUME ~restarted', ~mistaken'
             PROVE  KeptInv'
  BY DEF KeptOnce
<1> DEFINE same == UNCHANGED <<scene, is_initialize_, real, json, toLoad>>
<1>1. ~restarted /\ KeptInv /\ TypeOK /\ QueueInv
  BY HistoryGrows DEF StartInv, KeptOnce
<1>2. CASE NextPoolTask
  BY <1>1, <1>2, KeptEdit
<1>3. CASE ~NextPoolTask
  <2>1. Gone' = Gone
    BY <1>1, <1>3, EditEnds
  <2>2. CASE OnRemoteDisconnect \/ SaveAdded \/ SaveEdit
    <3>1. /\ SaveProject /\ UNCHANGED <<scene, is_initialize_, real, toLoad>>
          /\ ui' = ui \/ (ui.at = "save" /\ ui'.at = "idle")
      BY <2>2 DEF OnRemoteDisconnect, SaveAdded, SaveEdit, UiAt, Idle, history
    <3> QED
      BY <1>1, <2>1, <3>1, KeptSave
  <2>3. CASE NextUiTask
    BY <1>1, <2>1, <2>3, KeptAdd
  <2>4. CASE InitObs \/ LoadDefault \/ LoadScene \/ LoadItem \/ LoadItemId \/ LoadCounter
    BY <1>1, <2>1, <2>4, KeptLoad
  <2>5. CASE Ready
    <3>1. /\ ui.at = "ready" /\ ui'.at = "report" /\ ~is_initialize_
          /\ UNCHANGED <<scene, json, real>> /\ SavedIds' = SavedIds
      BY <1>1, <2>5 DEF Ready, UiAt, TypeOK, StartInv, ReadyInv, Loading, InObsInit, SavedIds,
                       history
    <3>2. SceneIds = Keys /\ SceneIds' = SceneIds
      BY <3>1, LoadedFacts DEF StartInv, SceneIds
    <3>3. real = SavedIds
      BY <1>1, <3>1 DEF StartInv, OnceInv, FirstStart
    <3> QED
      BY <1>1, <2>1, <3>1, <3>2, <3>3 DEF KeptInv
  <2>6. CASE same /\ ui' = ui
    <3>1. SceneIds' = SceneIds /\ Keys' = Keys /\ SavedIds' = SavedIds
      BY <2>6 DEF SceneIds, Keys, SavedIds
    <3> QED
      BY <1>1, <2>1, <2>6, <3>1 DEF KeptInv
  <2>7. CASE SendLoadSceneItemData \/ AnswerStart \/ CreatePreviewDisplay
    <3>1. /\ UNCHANGED <<scene, is_initialize_, real, json>> /\ ui.at # "save"
          /\ ui'.at \in {"answer", "display", "idle"}
      BY <1>1, <2>7 DEF SendLoadSceneItemData, AnswerStart, CreatePreviewDisplay, UiAt, TypeOK,
                       Idle, state, history
    <3>2. SceneIds' = SceneIds /\ SavedIds' = SavedIds
      BY <3>1 DEF SceneIds, SavedIds
    <3> QED
      BY <1>1, <2>1, <3>1, <3>2 DEF KeptInv
  <2>8. Main \/ Deliver \/ ShutdownProcess \/ SendMsgByMojoPullResp \/ UNCHANGED vars
          => same /\ ui' = ui
    BY DEF Main, StartMojo, CreateScheduler, StartWorkers, Proceed, Deliver, Dispatch,
           ShutdownProcess, SendMsgByMojoPullResp, vars, state, history
  <2> QED
    BY <1>3, <2>2, <2>3, <2>4, <2>5, <2>6, <2>7, <2>8 DEF Next, UiThread, PoolThread
<1> QED
  BY <1>2, <1>3

(* What is gone stays gone.                                                *)
LEMMA GoneNext ==
  ASSUME StartInv, StartInv', GoneOnce, [Next]_vars
  PROVE  GoneOnce'
<1> SUFFICES ASSUME ~restarted', ~early'
             PROVE  GoneInv'
  BY DEF GoneOnce
<1> USE DEF UiAt
<1>1. /\ ~restarted /\ ~early /\ GoneInv /\ TypeOK /\ QueueInv
      /\ StageInv /\ ItemsInv /\ ReadyInv /\ OnceInv
  BY HistoryGrows DEF StartInv, GoneOnce
<1>2. CASE NextPoolTask
  <2>1. /\ UNCHANGED <<is_initialize_, json, id_counter>> /\ SavedIds' = SavedIds
    BY <1>2 DEF NextPoolTask, SavedIds
  <2>2. Gone = removed /\ removed' = removed
    BY <1>1, <1>2, EditBegins
  <2>3. CASE UNCHANGED scene /\ Gone' = removed
    <3>1. SceneIds' = SceneIds
      BY <2>3 DEF SceneIds
    <3> QED
      BY <1>1, <2>1, <2>2, <2>3, <3>1 DEF GoneInv
  <2>4. ASSUME NEW i \in DOMAIN scene, scene # None, scene' = RemoveAt(scene, i),
               Gone' \subseteq removed \cup {scene[i].id}, pool'.at = "save",
               early' = (early \/ ~is_initialize_)
        PROVE  GoneInv'
    <3>1. is_initialize_
      BY <2>4, Zenon
    <3>2. /\ SceneIds' \subseteq SceneIds /\ scene[i].id \notin SceneIds'
          /\ SceneIds \subseteq 1 .. id_counter
      BY <1>1, <2>4, <3>1, RemoveFacts DEF OnceInv, LiveInv
    <3>3. scene[i].id \in SceneIds
      BY <2>4 DEF SceneIds
    <3> QED
      BY <1>1, <2>1, <2>2, <2>4, <3>1, <3>2, <3>3 DEF GoneInv
  <2> QED
    BY <1>1, <1>2, <2>3, <2>4, EditBegins
<1>3. CASE ~NextPoolTask
  <2>1. /\ Gone' = Gone /\ (~SendMsgByMojoPullResp => removed' = removed)
        /\ ~SendMsgByMojoPullResp /\ ~SaveEdit => pool' = pool
    BY <1>1, <1>3, EditEnds
  <2>2. CASE OnRemoteDisconnect \/ SaveAdded \/ SaveEdit
    <3>1. SaveProject /\ UNCHANGED <<scene, is_initialize_, id_counter, removed>>
      BY <2>2 DEF OnRemoteDisconnect, SaveAdded, SaveEdit, history
    <3>2. SceneIds' = SceneIds
      BY <3>1 DEF SceneIds
    <3>3. SavedIds' \cap Gone = {}
      <4>1. CASE ~is_initialize_
        BY <1>1, <4>1 DEF GoneInv
      <4>2. CASE is_initialize_
        <5>1. SavedIds' = SceneIds
          BY <1>1, <3>1, <4>2, SaveFacts DEF SavedIds, ReadyInv
        <5> QED
          BY <1>1, <4>2, <5>1 DEF GoneInv
      <4> QED
        BY <4>1, <4>2
    <3>4. removed \subseteq Gone
      BY DEF Gone
    <3> QED
      BY <1>1, <2>1, <3>1, <3>2, <3>3, <3>4 DEF GoneInv
  <2>3. CASE NextUiTask
    <3>1. UNCHANGED <<is_initialize_, json, removed, pool>> /\ SavedIds' = SavedIds
      BY <2>3 DEF NextUiTask, SavedIds
    <3>2. CASE UNCHANGED <<scene, id_counter>>
      <4>1. SceneIds' = SceneIds
        BY <3>2 DEF SceneIds
      <4> QED
        BY <1>1, <2>1, <3>1, <3>2, <4>1 DEF GoneInv
    <3>3. CASE /\ scene # None /\ id_counter < MaxId
               /\ id_counter' = id_counter + 1
               /\ scene' = Append(scene, [key |-> id_counter', id |-> id_counter'])
      <4>1. id_counter' \in Ids /\ id_counter \in Nat
        BY <1>1, <3>3, CountTypes DEF TypeOK, Ids
      <4>2. SceneIds' = SceneIds \cup {id_counter'}
        BY <1>1, <3>3, <4>1, AddFacts
      <4>3. is_initialize_ => /\ Gone \subseteq 1 .. id_counter'
                              /\ id_counter' \notin Gone
        BY <1>1, <3>3, <4>1 DEF GoneInv
      <4> QED
        BY <1>1, <2>1, <3>1, <4>2, <4>3 DEF GoneInv
    <3> QED
      BY <2>3, <3>2, <3>3 DEF NextUiTask
  <2>4. CASE InitObs \/ LoadDefault \/ LoadScene \/ LoadItem \/ LoadItemId \/ LoadCounter
    <3>1. ~is_initialize_ /\ is_initialize_' = is_initialize_
      <4>1. InitObs => (is_initialize_ => restarted')
        BY Zenon DEF InitObs
      <4>2. InitObs \/ Loading
        BY <2>4 DEF LoadDefault, LoadScene, LoadItem, LoadItemId, LoadCounter, Loading, InObsInit
      <4>3. is_initialize_' = is_initialize_
        BY <2>4 DEF InitObs, LoadDefault, LoadScene, LoadItem, LoadItemId, LoadCounter
      <4> QED
        BY <1>1, <2>4, <4>1, <4>2, <4>3 DEF ReadyInv
    <3>2. Gone = {} /\ removed' = removed
      BY <1>1, <2>4, <3>1
      DEF GoneInv, InitObs, LoadDefault, LoadScene, LoadItem, LoadItemId, LoadCounter, history
    <3>3. removed = {}
      BY <3>2 DEF Gone
    <3> QED
      BY <2>1, <3>1, <3>2, <3>3 DEF GoneInv
  <2>5. CASE Ready
    <3>1. ~is_initialize_ /\ removed' = removed
      BY <1>1, <2>5 DEF Ready, ReadyInv, Loading, InObsInit, history
    <3>2. Gone = {} /\ removed = {}
      BY <1>1, <3>1 DEF GoneInv, Gone
    <3> QED
      BY <2>1, <3>1, <3>2 DEF GoneInv
  <2>6. CASE SendMsgByMojoPullResp
    <3>1. /\ pool.at = "answer" /\ pool'.at = "idle"
          /\ UNCHANGED <<scene, json, is_initialize_, id_counter>>
      BY <2>6 DEF SendMsgByMojoPullResp, PoolAt, Idle, state
    <3>2. SceneIds' = SceneIds /\ SavedIds' = SavedIds /\ removed' \subseteq Gone'
      BY <3>1 DEF SceneIds, SavedIds, Gone
    <3> QED
      BY <1>1, <2>1, <3>1, <3>2 DEF GoneInv
  <2>7. CASE UNCHANGED <<scene, json, is_initialize_, id_counter, removed, pool>>
    <3>1. SceneIds' = SceneIds /\ SavedIds' = SavedIds
      BY <2>7 DEF SceneIds, SavedIds
    <3> QED
      BY <1>1, <2>1, <2>7, <3>1 DEF GoneInv
  <2>8. Main \/ Deliver \/ ShutdownProcess \/ SendLoadSceneItemData \/ AnswerStart
          \/ CreatePreviewDisplay \/ UNCHANGED vars => <2>7!1
    BY DEF Main, StartMojo, CreateScheduler, StartWorkers, Proceed, Deliver, Dispatch,
           ShutdownProcess, SendLoadSceneItemData, AnswerStart, CreatePreviewDisplay, vars, state,
           history
  <2> QED
    BY <1>3, <2>2, <2>3, <2>4, <2>5, <2>6, <2>7, <2>8 DEF Next, UiThread, PoolThread
<1> QED
  BY <1>2, <1>3

(* What a start leaves on disk (ProjectIsKept): no item that a project     *)
(* ever had is lost but by an acknowledged edit, and none is back that was *)
(* removed, wherever edits, saves and the end of the process fall in the   *)
(* start, as long as OBSInit does not run again after it succeeded.        *)
THEOREM StartsKeepTheProject == Spec => []ProjectIsKept
<1>1. Init => KeptOnce /\ GoneOnce
  BY DEF Init, KeptOnce, GoneOnce, KeptInv, GoneInv, Gone, Pending, Idle, SavedIds
<1>2. StartInv /\ StartInv' /\ KeptOnce /\ GoneOnce /\ [Next]_vars => KeptOnce' /\ GoneOnce'
  BY KeptNext, GoneNext
<1>3. StartInv /\ KeptOnce /\ GoneOnce => ProjectIsKept
  <2> SUFFICES ASSUME StartInv, KeptOnce, GoneOnce
               PROVE  ProjectIsKept
    OBVIOUS
  <2>1. ProjectSurvivesStart
    BY DEF KeptOnce, KeptInv, Gone, Pending, ProjectSurvivesStart
  <2>2. AcknowledgedEditSaved
    BY DEF GoneOnce, GoneInv, AcknowledgedEditSaved
  <2> QED
    BY <2>1, <2>2 DEF ProjectIsKept
<1> QED
  BY <1>1, <1>2, <1>3, StartInvHolds, PTL DEF Spec
=============================================================================
