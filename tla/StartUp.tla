------------------------------- MODULE StartUp -------------------------------
(***************************************************************************)
(* The start of the process and the first requests: main(), the three      *)
(* dispatchers with the two queues they post to, and FLOBSManager::OBSInit *)
(* as far as the load of the project.                                      *)
(*                                                                         *)
(* The mojo thread delivers messages as soon as FLMojoService::Start has   *)
(* run, while the main thread has still to create the TaskScheduler, to    *)
(* start its workers and to run its message loop.  OBSInit is a task of    *)
(* the UI thread; the pool worker serves edits while it runs, and the mojo *)
(* thread may save the project and end the process at any point of it.     *)
(*                                                                         *)
(* A save is one step here: ProjectStore is about what it does to files.   *)
(***************************************************************************)
EXTENDS Naturals, SequencesExt

CONSTANTS
  MaxRequests,  \* bound: messages the host sends
  MaxId,        \* bound: ids of items
  Projects,     \* what default.json may hold at first: its items' ids, id_counter
  Absent,       \* there is no default.json
  None          \* no scene, no message

ASSUME BoundAssumption == MaxRequests \in Nat /\ MaxId \in Nat
(* A project has each id once, and its counter has reached them all: so it *)
(* is saved as long as OBSInit does not run again after it succeeded.      *)
ASSUME ProjectAssumption ==
  /\ \A project \in Projects \ {Absent} :
       /\ project \in [items : Seq(1 .. MaxId), counter : 0 .. MaxId]
       /\ IsInjective(project.items)
       /\ ToSet(project.items) \subseteq 1 .. project.counter
  /\ Absent \notin [items : Seq(1 .. MaxId), counter : 0 .. MaxId]
  /\ None \notin Seq([key : 1 .. MaxId, id : 1 .. MaxId])

Ids == 1 .. MaxId
Requests == 1 .. MaxRequests

(* The messages by the thread that serves them and by what they do: start, *)
(* add and edit are STARTREMOTEINFOREQ, OBSITEMINFO and OBSITEMEDITINFOREQ *)
(* (to remove an item); query stands for the requests about devices.  An   *)
(* edit that does not parse is answered like one of an item there is not.  *)
Kinds == {"start", "add", "edit", "query", "unknown"}
Pulls == {"start", "edit", "query"}
Messages ==
  [kind : Kinds \ {"edit"}, parses : BOOLEAN, id : {1}] \cup
  [kind : {"edit"}, parses : {TRUE}, id : Ids]

MainSteps == {"mojo", "create", "workers", "run"}
UiSteps == {"idle", "init", "load", "item", "id", "ready", "report", "answer",
            "display", "save"}
InObsInit == {"init", "load", "item", "id", "ready"}
PoolSteps == {"idle", "save", "answer"}

VARIABLES
  main,       \* where main() is
  process,    \* "up"; "crashed" or "ended"
  sent,       \* the messages delivered, in order
  uiQueue, poolQueue,  \* the messages whose tasks wait
  obs,        \* libobs runs (obs_startup)
  is_initialize_,
  scene,      \* m_currentSceneData.scene: the items; key: the id it is saved by
  id_counter, \* of the scene
  json,       \* default.json
  m_display,
  ui, pool,   \* where each thread is, the message it serves, its ret_code
  toLoad,     \* the items the UI thread has still to load
  answer,     \* the answers to each message: their ret_code
  told,       \* how often each id was reported to the host
  real,       \* history: the ids items were given to keep
  removed,    \* history: the ids removed by an edit that was acknowledged
  early,      \* history: an edit removed an item before is_initialize_
  mistaken,   \* history: an edit removed an item that was to get another id
  restarted   \* history: OBSInit began again after it had succeeded

queues == <<sent, uiQueue, poolQueue>>
state == <<obs, is_initialize_, scene, id_counter, json, m_display>>
history == <<real, removed, early, mistaken, restarted>>
vars == <<main, process, queues, state, ui, pool, toLoad, answer, told, history>>

Idle == [at |-> "idle", msg |-> 0, code |-> 1]
SavedIds == IF json = Absent THEN {} ELSE ToSet(json.items)
SceneIds == IF scene = None THEN {} ELSE {scene[i].id : i \in DOMAIN scene}

(* Mutant of SaveProject: it does not look at is_initialize_.              *)
SaveAlways ==
  json' = IF scene = None THEN [items |-> <<>>, counter |-> 0]
          ELSE [items |-> [i \in DOMAIN scene |-> scene[i].id], counter |-> id_counter]

(* SaveProject: without a scene the project saved is an empty one.         *)
SaveProject ==
  json' = IF ~is_initialize_ THEN json
          ELSE IF scene = None THEN [items |-> <<>>, counter |-> 0]
          ELSE [items |-> [i \in DOMAIN scene |-> scene[i].id], counter |-> id_counter]

Init ==
  /\ main = "mojo" /\ process = "up"
  /\ sent = <<>> /\ uiQueue = <<>> /\ poolQueue = <<>>
  /\ obs = FALSE /\ is_initialize_ = FALSE /\ scene = None /\ id_counter = 0
  /\ json \in Projects
  /\ m_display = FALSE
  /\ ui = Idle /\ pool = Idle /\ toLoad = <<>>
  /\ answer = [m \in Requests |-> <<>>]
  /\ told = [i \in Ids |-> 0]
  /\ real = SavedIds
  /\ removed = {} /\ early = FALSE /\ mistaken = FALSE /\ restarted = FALSE

-----------------------------------------------------------------------------
(* main().                                                                 *)
Proceed(here, there) ==
  /\ process = "up"
  /\ main = here /\ main' = there
  /\ UNCHANGED <<process, queues, state, ui, pool, toLoad, answer, told, history>>

StartMojo == Proceed("mojo", "create")
CreateScheduler == Proceed("create", "workers")
StartWorkers == Proceed("workers", "run")

Connected == process = "up" /\ main # "mojo"
SchedulerCreated == main \in {"workers", "run"}

-----------------------------------------------------------------------------
(* The dispatchers, on the mojo thread.                                    *)
PostToUi(m) == uiQueue' = Append(uiQueue, m) /\ UNCHANGED <<process, poolQueue>>

(* Mutant of PostToPool: a task posted before the workers run is lost.     *)
PostToRunningPool(m) ==
  \/ /\ main = "run"
     /\ poolQueue' = Append(poolQueue, m)
     /\ UNCHANGED <<process, uiQueue>>
  \/ /\ main # "run"
     /\ UNCHANGED <<process, uiQueue, poolQueue>>

(* A task posted before the workers are started waits for them; without a  *)
(* TaskScheduler the null pointer is dereferenced.                         *)
PostToPool(m) ==
  \/ /\ SchedulerCreated
     /\ poolQueue' = Append(poolQueue, m)
     /\ UNCHANGED <<process, uiQueue>>
  \/ /\ ~SchedulerCreated
     /\ process' = "crashed"
     /\ UNCHANGED <<uiQueue, poolQueue>>

Dispatch(message) ==
  LET m == Len(sent) + 1 IN
  /\ Connected /\ m \in Requests
  /\ sent' = Append(sent, message)
  /\ \/ message.kind \in {"start", "add"} /\ PostToUi(m)
     \/ message.kind \in {"edit", "query"} /\ PostToPool(m)
     \/ message.kind = "unknown" /\ UNCHANGED <<process, uiQueue, poolQueue>>
  /\ UNCHANGED <<main, state, ui, pool, toLoad, answer, told, history>>

Deliver == \E message \in Messages : Dispatch(message)

(* The ends of the process: a connection that fails or breaks down.        *)
ShutdownProcess ==
  /\ Connected
  /\ process' = "ended"
  /\ UNCHANGED <<main, queues, state, ui, pool, toLoad, answer, told, history>>

OnRemoteDisconnect ==
  /\ Connected
  /\ process' = "ended"
  /\ SaveProject
  /\ UNCHANGED <<main, queues, obs, is_initialize_, scene, id_counter, m_display,
                 ui, pool, toLoad, answer, told, history>>

-----------------------------------------------------------------------------
(* The UI thread.                                                          *)
UiAt(here) == process = "up" /\ main = "run" /\ ui.at = here

(* The next task: its message is read, and dropped if it does not parse.   *)
(* An added source is looked up by name before anything else, in libobs.   *)
NextUiTask ==
  LET m == Head(uiQueue) IN
  /\ UiAt("idle") /\ uiQueue # <<>>
  /\ uiQueue' = Tail(uiQueue)
  /\ \/ /\ ~sent[m].parses
        /\ UNCHANGED <<process, ui, scene, id_counter, told, real>>
     \/ /\ sent[m].parses /\ sent[m].kind = "start"
        /\ ui' = [at |-> "init", msg |-> m, code |-> 1]
        /\ UNCHANGED <<process, scene, id_counter, told, real>>
     \/ /\ sent[m].parses /\ sent[m].kind = "add" /\ ~obs
        /\ process' = "crashed"
        /\ UNCHANGED <<ui, scene, id_counter, told, real>>
     \/ /\ sent[m].parses /\ sent[m].kind = "add" /\ obs /\ scene = None
        /\ ui' = [at |-> "save", msg |-> m, code |-> 0]
        /\ UNCHANGED <<process, scene, id_counter, told, real>>
     \/ /\ sent[m].parses /\ sent[m].kind = "add" /\ obs /\ scene # None
        /\ id_counter < MaxId
        /\ id_counter' = id_counter + 1
        /\ scene' = Append(scene, [key |-> id_counter', id |-> id_counter'])
        /\ told' = IF is_initialize_ THEN [told EXCEPT ![id_counter'] = @ + 1] ELSE told
        /\ real' = real \cup {id_counter'}
        /\ ui' = [at |-> "save", msg |-> m, code |-> 0]
        /\ UNCHANGED process
  /\ UNCHANGED <<main, sent, poolQueue, obs, is_initialize_, json, m_display, pool,
                 toLoad, answer, removed, early, mistaken, restarted>>

SaveAdded ==
  /\ UiAt("save")
  /\ SaveProject
  /\ ui' = Idle
  /\ UNCHANGED <<main, process, queues, obs, is_initialize_, scene, id_counter,
                 m_display, pool, toLoad, answer, told, history>>

(* OBSInit: the scene is forgotten, libobs starts, and then configuration, *)
(* audio or video may fail.                                                *)
InitObs ==
  /\ UiAt("init")
  /\ scene' = None /\ obs' = TRUE
  /\ restarted' = (restarted \/ is_initialize_)
  /\ \E next \in {"load", "answer"} : ui' = [ui EXCEPT !.at = next]
  /\ UNCHANGED <<main, process, queues, is_initialize_, id_counter, json, m_display,
                 pool, toLoad, answer, told, real, removed, early, mistaken>>

(* Load.  The default scene is saved, for what it is worth.                *)
LoadDefault ==
  /\ UiAt("load") /\ json = Absent
  /\ scene' = <<>> /\ id_counter' = 0
  /\ json' = IF is_initialize_ THEN [items |-> <<>>, counter |-> 0] ELSE json
  /\ ui' = [ui EXCEPT !.at = "ready"]
  /\ UNCHANGED <<main, process, queues, obs, is_initialize_, m_display, pool,
                 toLoad, answer, told, history>>

(* The scene's source is made first, then its items one by one.            *)
LoadScene ==
  /\ UiAt("load") /\ json # Absent
  /\ scene' = <<>> /\ id_counter' = 0
  /\ toLoad' = json.items
  /\ ui' = [ui EXCEPT !.at = "item"]
  /\ UNCHANGED <<main, process, queues, obs, is_initialize_, json, m_display, pool,
                 answer, told, history>>

(* The signal item_add: the item has the id libobs gave it.                *)
AddSceneItem(id) ==
  told' = IF is_initialize_ THEN [told EXCEPT ![id] = @ + 1] ELSE told

LoadItem ==
  /\ UiAt("item") /\ toLoad # <<>>
  /\ id_counter < MaxId
  /\ id_counter' = id_counter + 1
  /\ scene' = Append(scene, [key |-> Head(toLoad), id |-> id_counter'])
  /\ AddSceneItem(id_counter')
  /\ ui' = [ui EXCEPT !.at = "id"]
  /\ UNCHANGED <<main, process, queues, obs, is_initialize_, json, m_display, pool,
                 toLoad, answer, history>>

(* scene_load_item gives it the id it is saved by.  If the pool has removed *)
(* it meanwhile, its memory may be gone: the write is lost, or fatal.      *)
LoadItemId ==
  /\ UiAt("id")
  /\ scene' = [i \in DOMAIN scene |->
                 [scene[i] EXCEPT !.id = IF scene[i].key = Head(toLoad) THEN Head(toLoad) ELSE @]]
  /\ toLoad' = Tail(toLoad)
  /\ ui' = [ui EXCEPT !.at = "item"]
  /\ \/ UNCHANGED process
     \/ /\ \A i \in DOMAIN scene : scene[i].key # Head(toLoad)
        /\ process' = "crashed"
  /\ UNCHANGED <<main, queues, obs, is_initialize_, id_counter, json,
                 m_display, pool, answer, told, history>>

LoadCounter ==
  /\ UiAt("item") /\ toLoad = <<>>
  /\ id_counter' = json.counter
  /\ ui' = [ui EXCEPT !.at = "ready"]
  /\ UNCHANGED <<main, process, queues, obs, is_initialize_, scene, json, m_display,
                 pool, toLoad, answer, told, history>>

(* Mutant of Ready: the answer is sent first.                              *)
ReadyToAnswer ==
  /\ UiAt("ready")
  /\ is_initialize_' = TRUE
  /\ ui' = [ui EXCEPT !.at = "answer", !.code = 0]
  /\ UNCHANGED <<main, process, queues, obs, scene, id_counter, json, m_display, pool,
                 toLoad, answer, told, history>>

(* OBSInit succeeded.                                                      *)
Ready ==
  /\ UiAt("ready")
  /\ is_initialize_' = TRUE
  /\ ui' = [ui EXCEPT !.at = "report", !.code = 0]
  /\ UNCHANGED <<main, process, queues, obs, scene, id_counter, json, m_display, pool,
                 toLoad, answer, told, history>>

(* The scene is locked while its items are enumerated.                     *)
SendLoadSceneItemData ==
  /\ UiAt("report")
  /\ told' = [i \in Ids |-> IF i \in SceneIds THEN told[i] + 1 ELSE told[i]]
  /\ ui' = [ui EXCEPT !.at = "answer"]
  /\ UNCHANGED <<main, process, queues, state, pool, toLoad, answer, history>>

AnswerStart ==
  /\ UiAt("answer")
  /\ answer' = [answer EXCEPT ![ui.msg] = Append(@, ui.code)]
  /\ ui' = IF ui.code = 0 THEN [ui EXCEPT !.at = "display"] ELSE Idle
  /\ UNCHANGED <<main, process, queues, state, pool, toLoad, told, history>>

CreatePreviewDisplay ==
  /\ UiAt("display")
  /\ m_display' = TRUE
  /\ ui' = Idle
  /\ UNCHANGED <<main, process, queues, obs, is_initialize_, scene, id_counter, json,
                 pool, toLoad, answer, told, history>>

UiThread ==
  \/ NextUiTask \/ SaveAdded \/ InitObs \/ LoadDefault \/ LoadScene \/ LoadItem
  \/ LoadItemId \/ LoadCounter \/ Ready \/ SendLoadSceneItemData
  \/ AnswerStart \/ CreatePreviewDisplay

-----------------------------------------------------------------------------
(* The pool worker.                                                        *)
PoolAt(here) == process = "up" /\ main = "run" /\ pool.at = here

(* EditSourceItem, to remove an item: refused without a scene or an item.  *)
(* GetSceneItemById finds the first one that has the id.                   *)
EditSourceItem(m) ==
  \/ /\ scene # None
     /\ \E i \in DOMAIN scene :
          /\ scene[i].id = sent[m].id
          /\ \A j \in 1 .. i - 1 : scene[j].id # sent[m].id
          /\ scene' = RemoveAt(scene, i)
          /\ mistaken' = (mistaken \/ scene[i].key # sent[m].id)
     /\ early' = (early \/ ~is_initialize_)
     /\ pool' = [at |-> "save", msg |-> m, code |-> 0]
  \/ /\ sent[m].id \notin SceneIds
     /\ pool' = [at |-> "answer", msg |-> m, code |-> 1]
     /\ UNCHANGED <<scene, early, mistaken>>

NextPoolTask ==
  LET m == Head(poolQueue) IN
  /\ PoolAt("idle") /\ poolQueue # <<>>
  /\ poolQueue' = Tail(poolQueue)
  /\ \/ sent[m].kind = "edit" /\ EditSourceItem(m)
     \/ /\ sent[m].kind = "query" /\ sent[m].parses
        /\ pool' = [at |-> "answer", msg |-> m, code |-> 0]
        /\ UNCHANGED <<scene, early, mistaken>>
     \/ /\ sent[m].kind = "query" /\ ~sent[m].parses
        /\ UNCHANGED <<pool, scene, early, mistaken>>
  /\ UNCHANGED <<main, process, sent, uiQueue, obs, is_initialize_, id_counter, json,
                 m_display, ui, toLoad, answer, told, real, removed, restarted>>

SaveEdit ==
  /\ PoolAt("save")
  /\ SaveProject
  /\ pool' = [pool EXCEPT !.at = "answer"]
  /\ UNCHANGED <<main, process, queues, obs, is_initialize_, scene, id_counter,
                 m_display, ui, toLoad, answer, told, history>>

SendMsgByMojoPullResp ==
  /\ PoolAt("answer")
  /\ answer' = [answer EXCEPT ![pool.msg] = Append(@, pool.code)]
  /\ removed' = IF pool.code = 0 /\ sent[pool.msg].kind = "edit"
                THEN removed \cup {sent[pool.msg].id} ELSE removed
  /\ pool' = Idle
  /\ UNCHANGED <<main, process, queues, state, ui, toLoad, told, real, early, mistaken, restarted>>

PoolThread == NextPoolTask \/ SaveEdit \/ SendMsgByMojoPullResp

Main == StartMojo \/ CreateScheduler \/ StartWorkers

Next == Main \/ Deliver \/ ShutdownProcess \/ OnRemoteDisconnect \/ UiThread \/ PoolThread

(* The three threads run; the host sends what it likes.                    *)
Fairness == WF_vars(Main) /\ WF_vars(UiThread) /\ WF_vars(PoolThread)

Spec == Init /\ [][Next]_vars /\ Fairness

-----------------------------------------------------------------------------
(* What must hold.                                                         *)

TypeOK ==
  /\ main \in MainSteps /\ process \in {"up", "crashed", "ended"}
  /\ sent \in Seq(Messages) /\ Len(sent) <= MaxRequests
  /\ uiQueue \in Seq(DOMAIN sent) /\ poolQueue \in Seq(DOMAIN sent)
  /\ {obs, is_initialize_, m_display, early, mistaken, restarted} \subseteq BOOLEAN
  /\ scene = None \/ scene \in Seq([key : Ids, id : Ids])
  /\ id_counter \in Ids \cup {0}
  /\ json = Absent \/ json \in [items : Seq(Ids), counter : Ids \cup {0}]
  /\ ui \in [at : UiSteps, msg : Requests \cup {0}, code : {0, 1}]
  /\ pool \in [at : PoolSteps, msg : Requests \cup {0}, code : {0, 1}]
  /\ toLoad \in Seq(Ids)
  /\ answer \in [Requests -> Seq({0, 1})]
  /\ told \in [Ids -> Nat]
  /\ real \subseteq Ids /\ removed \subseteq Ids

(* As long as OBSInit does not begin again after it succeeded, the host    *)
(* hears of an item only by the id the item keeps, and once, whether it    *)
(* was loaded or added: the ids items have for a moment while the scene is *)
(* loaded stay inside (AddSceneItem, SendLoadSceneItemData).               *)
ReportedOnceByItsId ==
  ~restarted => \A i \in Ids : told[i] > 0 => told[i] = 1 /\ i \in real

(* When the host is told that the start succeeded, it has been told of     *)
(* everything in the scene, though the pool may have edited it meanwhile.  *)
StartAnswerComesLast ==
  \A m \in DOMAIN sent :
    sent[m].kind = "start" /\ answer[m] = <<0>> /\ ui.at \notin InObsInit \cup {"report"}
      => \A i \in SceneIds : told[i] > 0

(* However early the host goes away or edits, no item that a project on    *)
(* disk ever had is lost from it but by an acknowledged edit, or one about *)
(* to be: a half-loaded scene is never saved (SaveProject's first check).  *)
(* Excepted are edits by an id an item has for a moment during the load.   *)
ProjectSurvivesStart ==
  ~restarted /\ ~mistaken => \A i \in real :
    \/ i \in SavedIds \cup removed
    \/ /\ pool.at \in {"save", "answer"} /\ pool.code = 0
       /\ sent[pool.msg].kind = "edit" /\ sent[pool.msg].id = i
    \/ i \in SceneIds /\ ui.at = "save"

(* An edit that is acknowledged is on disk, unless the scene was being     *)
(* loaded when it was made: its save did nothing then.                     *)
AcknowledgedEditSaved == ~early /\ ~restarted => removed \cap SavedIds = {}

(* Every pull that parses is answered, if the process lives: the queues    *)
(* are served from whatever point of the start a request arrives at.       *)
PullsAnswered ==
  \A m \in Requests :
    (m \in DOMAIN sent /\ sent[m].kind \in Pulls /\ sent[m].parses)
      ~> (answer[m] # <<>> \/ process # "up")

(* What the host hears of a start: each item once, by its id, and all of   *)
(* them before the answer.                                                 *)
HostHearsOfStart == ReportedOnceByItsId /\ StartAnswerComesLast

(* What a start leaves on disk: no item lost that was not removed, and no  *)
(* item back that was.                                                     *)
ProjectIsKept == ProjectSurvivesStart /\ AcknowledgedEditSaved
=============================================================================
