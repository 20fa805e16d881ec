--------------------------- MODULE CameraBeautify ---------------------------
(***************************************************************************)
(* The hand-over of camera frames to the host for beautification, from     *)
(* flobs/flobs_camera_beautify.cc.                                         *)
(*                                                                         *)
(* Every camera has a capture thread of its own (the DirectShow streaming  *)
(* thread) that calls CameraVideoBeautifyCallback once per frame.  The     *)
(* callback sends the frame to the host and blocks on the one condition    *)
(* variable all cameras share; the host's answer comes back as a task of   *)
(* the single pool worker, which attaches it to the camera's entry of      *)
(* lst_infos_ and calls notify_one.  mutex_ is held from the top of the    *)
(* critical section to the wait, and from the return of the wait to the    *)
(* end of it, so each of the two halves is one action.                     *)
(*                                                                         *)
(* A frame is its number in its camera's stream, counted from 1.  A        *)
(* picture is the number of the frame the host computed it from, and Raw   *)
(* is the picture the camera itself delivered.                             *)
(***************************************************************************)
EXTENDS Naturals, Sequences, FiniteSets

CONSTANTS
  Cameras,        \* the cameras, each a source with its scene item
  MaxFrame,       \* bound: frames a camera captures in a behaviour
  OneFrame,       \* bound: the cameras that capture only one
  HostMayFail,    \* may the host ignore a request or answer it unreadably?
  HostInOrder,    \* does the host answer a camera's requests in order?
  WithRemoval,    \* may scene items be removed?
  WithUninit      \* may OBSUninit run?

ASSUME CamerasAssumption == IsFiniteSet(Cameras)
ASSUME FrameAssumption == MaxFrame \in Nat \ {0}
ASSUME OneFrameAssumption == OneFrame \subseteq Cameras
ASSUME SwitchAssumption ==
  {HostMayFail, HostInOrder, WithRemoval, WithUninit} \subseteq BOOLEAN

Raw == 0
Frames == 1 .. MaxFrame
Pictures == {Raw} \cup Frames

(* An entry of lst_infos_: the frame that waits, and the answer attached   *)
(* to it (Raw while task is null).  Frame 0 stands for an absent entry.    *)
Entry == [frame : {0} \cup Frames, task : Pictures]
NoEntry == [frame |-> 0, task |-> Raw]

(* What the thread takes out of the critical section, source_ptr and       *)
(* frame_ptr; sent records whether the frame had gone to the host.         *)
Output == [frame : {0} \cup Frames, picture : Pictures, sent : BOOLEAN]
NoOutput == [frame |-> 0, picture |-> Raw, sent |-> FALSE]

(* A task of the pool worker: an answer for a camera's entry.  An answer   *)
(* whose attachment does not parse is Raw.                                 *)
Answer == [cam : Cameras, picture : Pictures]

VARIABLES
  pc,        \* where the capture thread of each camera is
  frame,     \* the number of the last frame each camera captured
  item,      \* the camera's scene item: "none", "inScene" or "removed"
  uninit,    \* OBSUninit: "no", "begun" (is_working_ cleared) or "done"
  infos,     \* lst_infos_
  out,       \* source_ptr and frame_ptr of each callback
  requests,  \* frames sent that the host has not answered
  tasks,     \* answers posted to the pool, oldest first
  shown,     \* history: the frames output by each camera, in order
  early,     \* history: returns of wait that found no answer in the entry
  fake,      \* history: has a wait returned without a notification?
  late       \* history: the frame of each camera that was between the tests
             \* of the callback and its lock when the camera was withdrawn

vars == <<pc, frame, item, uninit, infos, out, requests, tasks, shown, early, fake, late>>

Listed(c) == infos[c].frame # 0
IsWorking == uninit = "no"

Init ==
  /\ pc = [c \in Cameras |-> "capture"]
  /\ frame = [c \in Cameras |-> 0]
  /\ item = [c \in Cameras |-> "none"]
  /\ uninit = "no"
  /\ infos = [c \in Cameras |-> NoEntry]
  /\ out = [c \in Cameras |-> NoOutput]
  /\ requests = {}
  /\ tasks = <<>>
  /\ shown = [c \in Cameras |-> <<>>]
  /\ early = 0
  /\ fake = FALSE
  /\ late = [c \in Cameras |-> 0]

-----------------------------------------------------------------------------
(* The capture threads.                                                    *)

(* The callback is entered with the next frame.  Without a scene item, or  *)
(* once is_working_ is cleared, the frame is output as it is.              *)
CaptureFrame(c) ==
  /\ pc[c] = "capture"
  /\ frame[c] < IF c \in OneFrame THEN 1 ELSE MaxFrame
  /\ frame' = [frame EXCEPT ![c] = @ + 1]
  /\ IF IsWorking /\ item[c] = "inScene"
     THEN /\ pc' = [pc EXCEPT ![c] = "lock"]
          /\ UNCHANGED out
     ELSE /\ pc' = [pc EXCEPT ![c] = "output"]
          /\ out' = [out EXCEPT ![c] = [frame |-> frame[c] + 1,
                                        picture |-> Raw, sent |-> FALSE]]
  /\ UNCHANGED <<item, uninit, infos, requests, tasks, shown, early, fake, late>>

(* Mutant of NewEntry: the answer of an earlier frame survives in the      *)
(* entry.                                                                  *)
NewEntryKeepsTask(c) == [frame |-> frame[c], task |-> infos[c].task]

(* The entry that replaces what lst_infos_ has for c, which goes away with *)
(* the answer it may hold.                                                 *)
NewEntry(c) == [frame |-> frame[c], task |-> Raw]

(* The first half of the critical section: the frame is sent, its entry    *)
(* put in place, and the thread waits.                                     *)
SubmitFrame(c) ==
  /\ pc[c] = "lock"
  /\ pc' = [pc EXCEPT ![c] = "wait"]
  /\ infos' = [infos EXCEPT ![c] = NewEntry(c)]
  /\ requests' = requests \cup {[cam |-> c, picture |-> frame[c]]}
  /\ UNCHANGED <<frame, item, uninit, out, tasks, shown, early, fake, late>>

(* The same when there is no shared memory to send the frame in.           *)
SubmitFails(c) ==
  /\ pc[c] = "lock"
  /\ pc' = [pc EXCEPT ![c] = "output"]
  /\ out' = [out EXCEPT ![c] = [frame |-> frame[c], picture |-> Raw, sent |-> FALSE]]
  /\ UNCHANGED <<frame, item, uninit, infos, requests, tasks, shown, early, fake, late>>

(* condition_.wait has no predicate, and may return without being notified. *)
SpuriousWake(c) ==
  /\ pc[c] = "wait"
  /\ pc' = [pc EXCEPT ![c] = "woken"]
  /\ fake' = TRUE
  /\ UNCHANGED <<frame, item, uninit, infos, out, requests, tasks, shown, early, late>>

(* The frame of the entry is output with whatever answer is attached.      *)
Emit(c) ==
  /\ pc' = [pc EXCEPT ![c] = "output"]
  /\ out' = [out EXCEPT ![c] = [frame |-> infos[c].frame,
                                picture |-> infos[c].task, sent |-> TRUE]]
  /\ early' = IF infos[c].task = Raw THEN early + 1 ELSE early

Skip(c) ==
  /\ pc' = [pc EXCEPT ![c] = "capture"]
  /\ UNCHANGED <<out, early>>

(* Mutants of Resume: the entry is erased once its frame is taken; a frame *)
(* without an answer is dropped; the thread waits again until it has an    *)
(* answer.                                                                 *)
ResumeErases(c) ==
  /\ pc[c] = "woken"
  /\ IF Listed(c) THEN Emit(c) ELSE Skip(c)
  /\ infos' = [infos EXCEPT ![c] = NoEntry]
  /\ UNCHANGED <<frame, item, uninit, requests, tasks, shown, fake, late>>

ResumeDropsUnanswered(c) ==
  /\ pc[c] = "woken"
  /\ IF infos[c].task # Raw THEN Emit(c) ELSE Skip(c)
  /\ UNCHANGED <<frame, item, uninit, infos, requests, tasks, shown, fake, late>>

ResumeWaitsForAnswer(c) ==
  /\ pc[c] = "woken"
  /\ IF infos[c].task # Raw
     THEN Emit(c)
     ELSE pc' = [pc EXCEPT ![c] = "wait"] /\ UNCHANGED <<out, early>>
  /\ UNCHANGED <<frame, item, uninit, infos, requests, tasks, shown, fake, late>>

(* The second half: the wait returns, for whatever reason.  An erased      *)
(* entry means the frame is dropped; an entry stays in lst_infos_.         *)
Resume(c) ==
  /\ pc[c] = "woken"
  /\ IF Listed(c) THEN Emit(c) ELSE Skip(c)
  /\ UNCHANGED <<frame, item, uninit, infos, requests, tasks, shown, fake, late>>

(* obs_source_output_video2 returns, after the critical section.           *)
OutputFrame(c) ==
  /\ pc[c] = "output"
  /\ pc' = [pc EXCEPT ![c] = "capture"]
  /\ shown' = [shown EXCEPT ![c] = Append(@, out[c])]
  /\ out' = [out EXCEPT ![c] = NoOutput]
  /\ UNCHANGED <<frame, item, uninit, infos, requests, tasks, early, fake, late>>

-----------------------------------------------------------------------------
(* The condition variable: the threads blocked in wait, and what           *)
(* notify_one and notify_all do to them.                                   *)

Waiting == {c \in Cameras : pc[c] = "wait"}

NotifyOne ==
  \/ Waiting = {} /\ UNCHANGED pc
  \/ \E w \in Waiting : pc' = [pc EXCEPT ![w] = "woken"]

NotifyAll ==
  pc' = [c \in Cameras |-> IF pc[c] = "wait" THEN "woken" ELSE pc[c]]

-----------------------------------------------------------------------------
(* The host, and the pool worker that runs its answers.                    *)

HostAnswer(r) ==
  /\ r \in requests
  /\ HostInOrder => \A q \in requests : q.cam = r.cam => r.picture <= q.picture
  /\ requests' = requests \ {r}
  /\ tasks' = Append(tasks, r)
  /\ UNCHANGED <<pc, frame, item, uninit, infos, out, shown, early, fake, late>>

HostAnswerUnreadable(r) ==
  /\ HostMayFail
  /\ r \in requests
  /\ requests' = requests \ {r}
  /\ tasks' = Append(tasks, [cam |-> r.cam, picture |-> Raw])
  /\ UNCHANGED <<pc, frame, item, uninit, infos, out, shown, early, fake, late>>

HostIgnore(r) ==
  /\ HostMayFail
  /\ r \in requests
  /\ requests' = requests \ {r}
  /\ UNCHANGED <<pc, frame, item, uninit, infos, out, tasks, shown, early, fake, late>>

(* The answer is found by its camera only; an unreadable one, or one whose *)
(* entry is erased, goes nowhere.                                          *)
Attach(a) ==
  IF a.picture # Raw /\ Listed(a.cam)
  THEN [infos EXCEPT ![a.cam] = [frame |-> @.frame, task |-> a.picture]]
  ELSE infos

(* Mutant of WakeCameraVideoBeautify: answers run out of order, as several *)
(* pool workers would run them.                                            *)
WakeAnyOrder ==
  \E i \in DOMAIN tasks :
    /\ tasks' = SubSeq(tasks, 1, i - 1) \o SubSeq(tasks, i + 1, Len(tasks))
    /\ infos' = Attach(tasks[i])
    /\ NotifyOne
    /\ UNCHANGED <<frame, item, uninit, out, requests, shown, early, fake, late>>

(* The pool worker runs the oldest answer.  notify_one is called whether   *)
(* or not it was attached.                                                 *)
WakeCameraVideoBeautify ==
  /\ tasks # <<>>
  /\ tasks' = Tail(tasks)
  /\ infos' = Attach(Head(tasks))
  /\ NotifyOne
  /\ UNCHANGED <<frame, item, uninit, out, requests, shown, early, fake, late>>

-----------------------------------------------------------------------------
(* Scene items, and the end of the scene.                                  *)

AddItem(c) ==
  /\ item[c] = "none"
  /\ item' = [item EXCEPT ![c] = "inScene"]
  /\ UNCHANGED <<pc, frame, uninit, infos, out, requests, tasks, shown, early, fake, late>>

Overtake(withdrawn) ==
  late' = [c \in Cameras |-> IF c \in withdrawn /\ pc[c] = "lock" THEN frame[c] ELSE late[c]]

(* Mutant of CameraVideoBeautifyDestory: the thread that waits for the     *)
(* erased entry is not notified.                                           *)
DestoryWithoutNotify(c) ==
  /\ WithRemoval
  /\ item[c] = "inScene"
  /\ item' = [item EXCEPT ![c] = "removed"]
  /\ infos' = [infos EXCEPT ![c] = NoEntry]
  /\ Overtake({c})
  /\ UNCHANGED <<pc, frame, uninit, out, requests, tasks, shown, early, fake>>

(* RemoveSceneItem calls CameraVideoBeautifyDestory.  libobs holds the     *)
(* scene's lock from the item_remove signal until the item is detached, so *)
(* no callback looks the item up between the two.                          *)
CameraVideoBeautifyDestory(c) ==
  /\ WithRemoval
  /\ item[c] = "inScene"
  /\ item' = [item EXCEPT ![c] = "removed"]
  /\ infos' = [infos EXCEPT ![c] = NoEntry]
  /\ NotifyOne
  /\ Overtake({c})
  /\ UNCHANGED <<frame, uninit, out, requests, tasks, shown, early, fake>>

(* Mutant of CameraVideoBeautifyDestoryAll: notify_one for notify_all.     *)
DestoryAllNotifiesOne ==
  /\ uninit = "begun"
  /\ uninit' = "done"
  /\ infos' = [c \in Cameras |-> NoEntry]
  /\ NotifyOne
  /\ Overtake(Cameras)
  /\ UNCHANGED <<frame, item, out, requests, tasks, shown, early, fake>>

CameraVideoBeautifyIsWorking ==
  /\ WithUninit
  /\ uninit = "no"
  /\ uninit' = "begun"
  /\ UNCHANGED <<pc, frame, item, infos, out, requests, tasks, shown, early, fake, late>>

CameraVideoBeautifyDestoryAll ==
  /\ uninit = "begun"
  /\ uninit' = "done"
  /\ infos' = [c \in Cameras |-> NoEntry]
  /\ NotifyAll
  /\ Overtake(Cameras)
  /\ UNCHANGED <<frame, item, out, requests, tasks, shown, early, fake>>

-----------------------------------------------------------------------------

Camera(c) ==
  \/ CaptureFrame(c)
  \/ SubmitFrame(c)
  \/ SubmitFails(c)
  \/ SpuriousWake(c)
  \/ Resume(c)
  \/ OutputFrame(c)
  \/ AddItem(c)
  \/ CameraVideoBeautifyDestory(c)

Host(r) ==
  \/ HostAnswer(r)
  \/ HostAnswerUnreadable(r)
  \/ HostIgnore(r)

Next ==
  \/ \E c \in Cameras : Camera(c)
  \/ \E r \in requests : Host(r)
  \/ WakeCameraVideoBeautify
  \/ CameraVideoBeautifyIsWorking
  \/ CameraVideoBeautifyDestoryAll

Spec == Init /\ [][Next]_vars

(* The threads of the process are scheduled; mutex_ is only ever held for  *)
(* a bounded time, so a thread that asks for it gets it.  Cameras need not *)
(* deliver frames and nobody has to remove an item.                        *)
ThreadFairness ==
  /\ \A c \in Cameras : /\ WF_vars(SubmitFrame(c) \/ SubmitFails(c))
                        /\ WF_vars(Resume(c))
                        /\ WF_vars(OutputFrame(c))
  /\ WF_vars(WakeCameraVideoBeautify)
  /\ WF_vars(CameraVideoBeautifyDestoryAll)

(* The host answers what it is asked.                                      *)
HostFairness == WF_vars(\E r \in requests : HostAnswer(r))

FairHostSpec == Spec /\ ThreadFairness /\ HostFairness

-----------------------------------------------------------------------------
(* What must hold.                                                         *)

(* Types, and two shapes: a thread inside the callback carries a frame,    *)
(* and one inside the wait finds its own frame in its entry of lst_infos_  *)
(* or finds no entry.                                                      *)
TypeOK ==
  /\ pc \in [Cameras -> {"capture", "lock", "wait", "woken", "output"}]
  /\ frame \in [Cameras -> {0} \cup Frames]
  /\ item \in [Cameras -> {"none", "inScene", "removed"}]
  /\ uninit \in {"no", "begun", "done"}
  /\ infos \in [Cameras -> Entry]
  /\ out \in [Cameras -> Output]
  /\ requests \subseteq Answer
  /\ tasks \in Seq(Answer)
  /\ shown \in [Cameras -> Seq(Output)]
  /\ early \in Nat /\ fake \in BOOLEAN
  /\ late \in [Cameras -> {0} \cup Frames]
  /\ \A c \in Cameras : pc[c] # "capture" => frame[c] # 0
  /\ \A c \in Cameras : pc[c] \in {"wait", "woken"} /\ Listed(c)
                          => infos[c].frame = frame[c]

(* A camera whose thread has nothing left to wait for: its answer is       *)
(* attached, or its entry is gone.                                         *)
Served(c) == ~Listed(c) \/ infos[c].task # Raw

Stranded == {c \in Waiting : Served(c)}
Snatched == {c \in Cameras : pc[c] = "woken" /\ ~Served(c)}

(* All cameras share one condition variable, and notify_one may wake the   *)
(* thread of another camera than the one that was served.  No notification *)
(* is lost otherwise: there are never more threads asleep with their       *)
(* answer attached (or their entry erased) than there have been waits that *)
(* returned before their answer.                                           *)
LostWakeupsAreStolen ==
  Cardinality(Stranded) <= Cardinality(Snatched) + early

(* The camera was removed or the scene torn down while it ran.             *)
Withdrawn(c) == item[c] = "removed" \/ uninit = "done"

(* Frame i of what camera c output had gone to the host and did not come   *)
(* out with its own picture.                                               *)
Missed(o) == o.sent /\ o.picture # o.frame

(* An answer names its camera and not its frame.  It is put on a later     *)
(* frame than its own only after the wait of its own frame had returned    *)
(* without it.                                                             *)
StalePictureWasMissed ==
  \A c \in Cameras : \A i \in DOMAIN shown[c] :
    LET o == shown[c][i] IN
    o.picture \notin {Raw, o.frame} =>
      \/ Withdrawn(c)
      \/ \E j \in 1 .. i - 1 : shown[c][j].frame = o.picture /\ Missed(shown[c][j])

(* A host picture is output outside mutex_, straight from the shared       *)
(* memory its entry owns.  As long as none of the camera's waits returned  *)
(* early and the camera was not withdrawn, the entry keeps that memory     *)
(* until the output is done.                                               *)
BorrowedPictureAlive ==
  \A c \in Cameras :
    pc[c] = "output" /\ out[c].picture # Raw =>
      \/ infos[c].task = out[c].picture
      \/ Withdrawn(c)
      \/ Missed(out[c])
      \/ \E i \in DOMAIN shown[c] : Missed(shown[c][i])

(* The host pictures a camera outputs never go back in time, if the host   *)
(* answers each camera's requests in their order: the pool worker is one   *)
(* thread and runs the answers as they were posted.                        *)
PicturesNeverRewind ==
  \A c \in Cameras : \A i, j \in DOMAIN shown[c] :
    /\ i < j
    /\ shown[c][i].picture # Raw
    /\ shown[c][j].picture # Raw
    => shown[c][i].picture < shown[c][j].picture

(* With a single camera and a host that answers, every frame sent comes    *)
(* out with its own picture, unless some wait has returned without being   *)
(* notified.                                                               *)
EveryPictureOnItsFrame ==
  ~fake => \A c \in Cameras : \A i \in DOMAIN shown[c] : ~Missed(shown[c][i])

(* The two together: what a picture is shown on, and in which order.       *)
PicturesInStep == EveryPictureOnItsFrame /\ PicturesNeverRewind

(* is_working_ and the item are tested before mutex_ is taken, so a camera *)
(* can be withdrawn while its thread is in between, and that thread goes   *)
(* on to wait when the notification is over.  This can befall one frame of *)
(* a camera and no more: nothing else enters lst_infos_ for a withdrawn    *)
(* camera, or holds the host's memory there, and no other thread of such a *)
(* camera is asleep, but for one whose notification another camera took    *)
(* before the teardown, which leaves nobody out.                           *)
LateFramesOnly ==
  \A c \in Cameras : Withdrawn(c) =>
    /\ Listed(c) => infos[c].frame = late[c]
    /\ pc[c] = "lock" => frame[c] = late[c]
    /\ pc[c] = "wait" => frame[c] = late[c] \/ (~Listed(c) /\ uninit # "done")

Relay == INSTANCE FrameRelay WITH
  taken <- frame,
  holding <- [c \in Cameras |-> pc[c] # "capture"],
  shown <- [c \in Cameras |-> [i \in DOMAIN shown[c] |->
              [frame |-> shown[c][i].frame, picture |-> shown[c][i].picture]]],
  gone <- [c \in Cameras |-> Withdrawn(c)]

(* The threads, the mutex and the condition variable implement the relay:  *)
(* no frame is lost, duplicated or overtaken, and no answer is used twice. *)
ImplementsRelay == Relay!Spec

(* With a single camera and a host that answers, no frame stays inside the *)
(* callback for ever.                                                      *)
ImplementsFairRelay == Relay!FairSpec
=============================================================================
