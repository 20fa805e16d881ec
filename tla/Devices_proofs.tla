--------------------------- MODULE Devices_proofs ---------------------------
(***************************************************************************)
(* What holds of the devices whose data pass from thread to thread.        *)
(*                                                                         *)
(* Of cameras, for any finite set of them, any number of frames and every  *)
(* setting of the environment's switches: the types; that wakeups are only *)
(* ever stolen, never lost; that every step is one of FrameRelay; and      *)
(* where the pictures end up: stale ones only after a miss, none read      *)
(* after it was freed, in their order if the host answers in order, each   *)
(* on its own frame if there is one camera and every frame is answered.    *)
(*                                                                         *)
(* Of an audio device, for any kinds of filter, any levels and any threads *)
(* that signal it: what its entry knows of its filters, and from that one  *)
(* filter of a kind, one level wherever it is kept, and no use of what was *)
(* freed; and of its volume, that it does not creep away from the one that *)
(* was chosen, although every reading of it truncates a float.             *)
(***************************************************************************)
EXTENDS CameraBeautify, AudioFilters, AudioVolumes,
        FiniteSetTheorems, WellFoundedInduction, TLAPS

-----------------------------------------------------------------------------
(* Cameras: types.                                                         *)
LEMMA InitTypeOK == Init => TypeOK
<1> SUFFICES ASSUME Init PROVE TypeOK
  OBVIOUS
<1>1. fake \in BOOLEAN
  BY DEF Init
<1> QED BY <1>1, FrameAssumption
  DEF Init, TypeOK, Entry, NoEntry, Output, NoOutput, Answer, Frames, Pictures, Raw, Listed

(* notify_one and notify_all only move threads from the wait.              *)
LEMMA NotifyType ==
  ASSUME TypeOK, NotifyOne \/ NotifyAll
  PROVE  /\ pc' \in [Cameras -> {"capture", "lock", "wait", "woken", "output"}]
         /\ \A c \in Cameras : \/ pc'[c] = pc[c]
                               \/ pc[c] = "wait" /\ pc'[c] = "woken"
  BY DEF TypeOK, NotifyOne, NotifyAll, Waiting

LEMMA CameraTypeOK ==
  ASSUME TypeOK, NEW c \in Cameras, Camera(c)
  PROVE  TypeOK'
<1> USE FrameAssumption DEF TypeOK, Frames, Raw, Pictures, Listed
<1>1. CASE CaptureFrame(c)
  <2>1. frame[c] + 1 \in Frames
    <3>1. frame[c] \in {0} \cup 1 .. MaxFrame /\ frame[c] < MaxFrame
      BY <1>1 DEF CaptureFrame
    <3>2. MaxFrame \in Nat
      OBVIOUS
    <3>3. HIDE DEF TypeOK
    <3>4. QED
      BY <3>1, <3>2
  <2>2. [frame |-> frame[c] + 1, picture |-> Raw, sent |-> FALSE] \in Output
    BY <2>1 DEF Output
  <2>3. out' \in [Cameras -> Output] /\ frame' \in [Cameras -> {0} \cup Frames]
    BY <1>1, <2>1, <2>2 DEF CaptureFrame
  <2>4. \A d \in Cameras : /\ pc'[d] # "capture" => frame'[d] # 0
                           /\ pc'[d] \in {"wait", "woken"} => d # c
    BY <1>1, <2>1 DEF CaptureFrame
  <2>5. QED
    BY <1>1, <2>3, <2>4 DEF CaptureFrame
<1>2. CASE SubmitFrame(c)
  BY <1>2 DEF SubmitFrame, NewEntry, Entry, Answer
<1>3. CASE SubmitFails(c)
  BY <1>3 DEF SubmitFails, Output
<1>4. CASE SpuriousWake(c)
  BY <1>4 DEF SpuriousWake
<1>5. CASE Resume(c)
  <2>1. [frame |-> infos[c].frame, picture |-> infos[c].task, sent |-> TRUE] \in Output
    BY DEF Entry, Output
  <2>2. out' \in [Cameras -> Output]
    BY <1>5, <2>1 DEF Resume, Emit, Skip
  <2>4. early' \in Nat
    BY <1>5 DEF Resume, Emit, Skip
  <2>3. QED
    BY <1>5, <2>2, <2>4 DEF Resume, Emit, Skip
<1>6. CASE OutputFrame(c)
  <2>1. shown'[c] \in Seq(Output)
    BY <1>6 DEF OutputFrame
  <2>2. NoOutput \in Output
    BY DEF NoOutput, Output
  <2>3. shown' \in [Cameras -> Seq(Output)] /\ out' \in [Cameras -> Output]
    BY <1>6, <2>1, <2>2 DEF OutputFrame
  <2>4. QED
    BY <1>6, <2>3 DEF OutputFrame
<1>7. CASE AddItem(c)
  BY <1>7 DEF AddItem
<1>8. CASE CameraVideoBeautifyDestory(c)
  BY <1>8, NotifyType DEF CameraVideoBeautifyDestory, Overtake, NoEntry, Entry
<1>9. QED
  BY <1>1, <1>2, <1>3, <1>4, <1>5, <1>6, <1>7, <1>8 DEF Camera

LEMMA HostTypeOK ==
  ASSUME TypeOK, NEW r \in requests, Host(r)
  PROVE  TypeOK'
<1>1. r \in Answer /\ [cam |-> r.cam, picture |-> Raw] \in Answer
  BY DEF TypeOK, Answer, Pictures
<1>2. requests' \subseteq Answer
  BY <1>1 DEF TypeOK, Host, HostAnswer, HostAnswerUnreadable, HostIgnore
<1>3. ASSUME NEW a \in Answer PROVE Append(tasks, a) \in Seq(Answer)
  BY DEF TypeOK
<1>4. tasks' \in Seq(Answer)
  BY <1>1, <1>3 DEF TypeOK, Host, HostAnswer, HostAnswerUnreadable, HostIgnore
<1>5. QED
  BY <1>2, <1>4 DEF TypeOK, Host, HostAnswer, HostAnswerUnreadable, HostIgnore, Listed

LEMMA WakeTypeOK ==
  ASSUME TypeOK, WakeCameraVideoBeautify
  PROVE  TypeOK'
<1>1. Head(tasks) \in Answer /\ Tail(tasks) \in Seq(Answer)
  BY DEF TypeOK, WakeCameraVideoBeautify
<1>2. ASSUME NEW a \in Answer
      PROVE  /\ Attach(a) \in [Cameras -> Entry]
             /\ \A c \in Cameras : Attach(a)[c].frame = infos[c].frame
  BY DEF Attach, TypeOK, Answer, Entry
<1>3. QED
  BY <1>1, <1>2, NotifyType DEF TypeOK, WakeCameraVideoBeautify, Listed

LEMMA UninitTypeOK ==
  ASSUME TypeOK, CameraVideoBeautifyIsWorking \/ CameraVideoBeautifyDestoryAll
  PROVE  TypeOK'
<1>1. CASE CameraVideoBeautifyIsWorking
  BY <1>1 DEF TypeOK, CameraVideoBeautifyIsWorking, Listed
<1>2. CASE CameraVideoBeautifyDestoryAll
  <2>1. late' \in [Cameras -> {0} \cup Frames]
    BY <1>2 DEF TypeOK, CameraVideoBeautifyDestoryAll, Overtake
  <2>2. pc' \in [Cameras -> {"capture", "lock", "wait", "woken", "output"}]
        /\ \A c \in Cameras : pc'[c] # "capture" => pc[c] # "capture"
    BY <1>2 DEF TypeOK, CameraVideoBeautifyDestoryAll, NotifyAll
  <2> QED
    BY <1>2, <2>1, <2>2 DEF TypeOK, CameraVideoBeautifyDestoryAll, NoEntry, Entry, Pictures, Raw,
       Listed
<1> QED BY <1>1, <1>2

LEMMA NextTypeOK == TypeOK /\ [Next]_vars => TypeOK'
<1> SUFFICES ASSUME TypeOK, [Next]_vars PROVE TypeOK'
  OBVIOUS
<1>1. CASE UNCHANGED vars
  BY <1>1 DEF vars, TypeOK, Listed
<1>2. CASE Next
  BY <1>2, CameraTypeOK, HostTypeOK, WakeTypeOK, UninitTypeOK DEF Next
<1>3. QED
  BY <1>1, <1>2

(* Every variable keeps its type, a thread inside the callback carries a   *)
(* frame, and one inside the wait finds its own frame in its entry.        *)
THEOREM TypeCorrect == Spec => []TypeOK
  BY InitTypeOK, NextTypeOK, PTL DEF Spec

-----------------------------------------------------------------------------
(* The frames that a withdrawal overtakes.  By TypeOK an entry that a      *)
(* thread waits with is that of its own frame.                             *)
LEMMA LateThread ==
  ASSUME TypeOK, LateFramesOnly, NEW c \in Cameras, Camera(c), ~CameraVideoBeautifyDestory(c)
  PROVE  LateFramesOnly'
<1> USE DEF TypeOK, LateFramesOnly, Withdrawn, Listed
<1>1. CASE CaptureFrame(c)
  BY <1>1 DEF CaptureFrame, IsWorking
<1>2. CASE SubmitFrame(c)
  BY <1>2 DEF SubmitFrame, NewEntry
<1>3. CASE SubmitFails(c) \/ SpuriousWake(c) \/ OutputFrame(c) \/ AddItem(c)
  BY <1>3 DEF SubmitFails, SpuriousWake, OutputFrame, AddItem
<1>4. CASE Resume(c)
  BY <1>4 DEF Resume, Emit, Skip
<1> QED BY <1>1, <1>2, <1>3, <1>4 DEF Camera

(* A camera is withdrawn: what was past the tests is late, the entry is    *)
(* gone, and only a teardown leaves nobody asleep.                         *)
LEMMA LateWithdrawal ==
  ASSUME TypeOK, LateFramesOnly,
         \/ \E c \in Cameras : CameraVideoBeautifyDestory(c)
         \/ CameraVideoBeautifyDestoryAll
  PROVE  LateFramesOnly'
<1> USE DEF TypeOK, LateFramesOnly, Withdrawn, Listed, NoEntry
<1>1. ASSUME NEW c \in Cameras, CameraVideoBeautifyDestory(c) PROVE LateFramesOnly'
  <2>1. \A d \in Cameras : pc'[d] = pc[d] \/ (pc[d] = "wait" /\ pc'[d] = "woken")
    <3>1. NotifyOne
      BY <1>1 DEF CameraVideoBeautifyDestory
    <3> QED BY <3>1, NotifyType
  <2>2. late' = [d \in Cameras |-> IF d = c /\ pc[d] = "lock" THEN frame[d] ELSE late[d]]
        /\ item' = [item EXCEPT ![c] = "removed"] /\ infos' = [infos EXCEPT ![c] = NoEntry]
        /\ item[c] = "inScene" /\ UNCHANGED <<frame, uninit>>
    BY <1>1 DEF CameraVideoBeautifyDestory, Overtake
  <2> QED BY <2>1, <2>2
<1>2. CASE CameraVideoBeautifyDestoryAll
  BY <1>2 DEF CameraVideoBeautifyDestoryAll, NotifyAll, Overtake
<1> QED BY <1>1, <1>2

LEMMA LateOthers ==
  ASSUME TypeOK, LateFramesOnly,
         \/ \E r \in requests : Host(r)
         \/ WakeCameraVideoBeautify
         \/ CameraVideoBeautifyIsWorking
         \/ UNCHANGED vars
  PROVE  LateFramesOnly'
<1> USE DEF LateFramesOnly, Withdrawn, Listed
<1>1. CASE \E r \in requests : Host(r)
  BY <1>1 DEF Host, HostAnswer, HostAnswerUnreadable, HostIgnore
<1>2. CASE WakeCameraVideoBeautify
  <2>1. \A d \in Cameras : pc'[d] = pc[d] \/ (pc[d] = "wait" /\ pc'[d] = "woken")
    <3>1. NotifyOne
      BY <1>2 DEF WakeCameraVideoBeautify
    <3> QED BY <3>1, NotifyType
  <2>2. \A d \in Cameras : infos'[d].frame = infos[d].frame
    BY <1>2 DEF WakeCameraVideoBeautify, Attach, TypeOK, Entry
  <2> QED BY <1>2, <2>1, <2>2 DEF WakeCameraVideoBeautify
<1>3. CASE CameraVideoBeautifyIsWorking
  BY <1>3 DEF CameraVideoBeautifyIsWorking
<1>4. CASE UNCHANGED vars
  BY <1>4 DEF vars
<1> QED BY <1>1, <1>2, <1>3, <1>4

(* Of a withdrawn camera only the one frame that was past the tests of the *)
(* callback enters lst_infos_ or the wait again.                           *)
THEOREM WithdrawalsAreOvertakenOnce == Spec => []LateFramesOnly
<1>1. Init => LateFramesOnly
  BY DEF Init, LateFramesOnly, Withdrawn, Listed, NoEntry
<1>2. TypeOK /\ LateFramesOnly /\ [Next]_vars => LateFramesOnly'
  BY LateThread, LateWithdrawal, LateOthers DEF Next, Camera
<1> QED BY InitTypeOK, NextTypeOK, <1>1, <1>2, PTL DEF Spec

-----------------------------------------------------------------------------
(* How many threads are asleep although they were served, against how many *)
(* waits have returned early.                                              *)

LEMMA CountTypes ==
  ASSUME TypeOK
  PROVE  /\ IsFiniteSet(Stranded) /\ Cardinality(Stranded) \in Nat
         /\ IsFiniteSet(Snatched) /\ Cardinality(Snatched) \in Nat
<1>1. Stranded \in SUBSET Cameras /\ Snatched \in SUBSET Cameras
  BY DEF Stranded, Snatched, Waiting
<1>2. IsFiniteSet(Stranded) /\ IsFiniteSet(Snatched)
  BY <1>1, CamerasAssumption, FS_Subset
<1>3. QED
  BY <1>2, FS_CardinalityType

LEMMA NextCountTypes ==
  ASSUME TypeOK'
  PROVE  /\ IsFiniteSet(Stranded') /\ Cardinality(Stranded') \in Nat
         /\ IsFiniteSet(Snatched') /\ Cardinality(Snatched') \in Nat
<1>1. Stranded' \in SUBSET Cameras /\ Snatched' \in SUBSET Cameras
  BY DEF Stranded, Snatched, Waiting
<1>2. IsFiniteSet(Stranded') /\ IsFiniteSet(Snatched')
  BY <1>1, CamerasAssumption, FS_Subset
<1>3. QED
  BY <1>2, FS_CardinalityType

(* A step under which no thread becomes stranded and none stops being      *)
(* snatched keeps the bound.                                               *)
LEMMA QuietStep ==
  ASSUME TypeOK, TypeOK', LostWakeupsAreStolen,
         Stranded' \subseteq Stranded, Snatched \subseteq Snatched', early' = early
  PROVE  LostWakeupsAreStolen'
<1>1. Cardinality(Stranded') <= Cardinality(Stranded)
  BY CountTypes, FS_Subset
<1>2. Cardinality(Snatched) <= Cardinality(Snatched')
  BY NextCountTypes, FS_Subset
<1>3. QED
  BY <1>1, <1>2, CountTypes, NextCountTypes DEF LostWakeupsAreStolen, TypeOK

(* One camera x is served and one waiting thread w is notified: if w is    *)
(* not the thread that was served, it is either one stranded before, now   *)
(* released, or one snatched now.                                          *)
LEMMA ServeAndNotify ==
  ASSUME TypeOK, TypeOK', LostWakeupsAreStolen, NEW x \in Cameras,
         \A c \in Cameras \ {x} : Served(c)' = Served(c),
         Served(x) => Served(x)',
         NotifyOne, early' = early
  PROVE  LostWakeupsAreStolen'
<1>1. CASE Waiting = {} /\ UNCHANGED pc
  <2>1. Stranded' = {}
    BY <1>1 DEF Stranded, Waiting
  <2>2. QED
    BY <2>1, FS_EmptySet, NextCountTypes DEF LostWakeupsAreStolen, TypeOK
<1>2. ASSUME NEW w \in Waiting, pc' = [pc EXCEPT ![w] = "woken"]
      PROVE  LostWakeupsAreStolen'
  <2> DEFINE A == Stranded \ {w}
             B == Snatched \ {x}
  <2>1. w \in Cameras /\ Waiting' = Waiting \ {w} /\ w \notin Snatched
    BY <1>2 DEF Waiting, TypeOK, Snatched
  <2>2. /\ Stranded' \subseteq A \cup {x}
        /\ x = w \/ x \notin Waiting => Stranded' \subseteq A
    BY <2>1 DEF Stranded, Waiting
  <2>3. /\ B \subseteq Snatched'
        /\ x \in Waiting => Snatched \subseteq Snatched'
    BY <1>2, <2>1 DEF Snatched, Waiting, TypeOK
  <2>4. ~Served(w) /\ w # x => w \in Snatched'
    BY <1>2, <2>1 DEF Snatched, TypeOK
  <2>5. w \in Stranded <=> Served(w)
    BY DEF Stranded
  <2>6. /\ IsFiniteSet(A) /\ Cardinality(A) \in Nat
        /\ Cardinality(A) = IF w \in Stranded THEN Cardinality(Stranded) - 1
                                              ELSE Cardinality(Stranded)
    BY CountTypes, FS_RemoveElement, FS_CardinalityType
  <2>7. /\ IsFiniteSet(B) /\ Cardinality(B) \in Nat
        /\ Cardinality(B) >= Cardinality(Snatched) - 1
    <3>1. /\ IsFiniteSet(B)
          /\ Cardinality(B) = IF x \in Snatched THEN Cardinality(Snatched) - 1
                                                ELSE Cardinality(Snatched)
      BY CountTypes, FS_RemoveElement
    <3>2. Cardinality(B) \in Nat
      BY <3>1, FS_CardinalityType
    <3>3. CASE x \in Snatched
      BY <3>1, <3>2, <3>3, CountTypes
    <3>4. CASE x \notin Snatched
      BY <3>1, <3>2, <3>4, CountTypes
    <3>5. QED
      BY <3>3, <3>4
  <2>8. Cardinality(Stranded') <= Cardinality(A) + 1
    <3>1. IsFiniteSet(A \cup {x}) /\ Cardinality(A \cup {x}) <= Cardinality(A) + 1
      <4>1. /\ IsFiniteSet(A \cup {x})
            /\ Cardinality(A \cup {x}) = IF x \in A THEN Cardinality(A)
                                                    ELSE Cardinality(A) + 1
        BY <2>6, FS_AddElement
      <4>2. CASE x \in A
        BY <4>1, <4>2, <2>6
      <4>3. CASE x \notin A
        BY <4>1, <4>3, <2>6
      <4>4. QED
        BY <4>2, <4>3
    <3>2. Cardinality(Stranded') <= Cardinality(A \cup {x})
      BY <2>2, <3>1, FS_Subset
    <3>3. Cardinality(A \cup {x}) \in Nat
      BY <3>1, FS_CardinalityType
    <3>4. QED
      BY <3>1, <3>2, <3>3, <2>6, NextCountTypes
  <2>9. x = w \/ x \notin Waiting => Cardinality(Stranded') <= Cardinality(A)
    BY <2>2, <2>6, FS_Subset
  <2>10. x \in Waiting => Cardinality(Snatched) <= Cardinality(Snatched')
    BY <2>3, NextCountTypes, FS_Subset
  <2>11. Cardinality(B) <= Cardinality(Snatched')
    BY <2>3, NextCountTypes, FS_Subset
  (* A thread newly snatched is one more than those snatched before. *)
  <2>12. ASSUME NEW S, IsFiniteSet(S), S \subseteq Snatched', w \notin S, ~Served(w), w # x
         PROVE  Cardinality(S) + 1 <= Cardinality(Snatched')
    <3>1. Cardinality(S \cup {w}) = Cardinality(S) + 1
      BY <2>12, FS_AddElement
    <3>2. S \cup {w} \in SUBSET Snatched'
      BY <2>4, <2>12
    <3>3. QED
      BY <3>1, <3>2, NextCountTypes, FS_Subset
  <2>13. x \in Waiting /\ w # x /\ ~Served(w)
         => Cardinality(Snatched) + 1 <= Cardinality(Snatched')
    BY <2>1, <2>3, <2>12, CountTypes
  <2>14. x \notin Waiting /\ ~Served(w) => Cardinality(B) + 1 <= Cardinality(Snatched')
    <3>1. x \notin Waiting => w # x
      OBVIOUS
    <3>2. QED
      BY <2>1, <2>3, <2>7, <2>12, <3>1
  <2>15. early' = early /\ early \in Nat
         /\ Cardinality(Stranded) <= Cardinality(Snatched) + early
    BY DEF LostWakeupsAreStolen, TypeOK
  <2>16. Cardinality(Stranded') <= Cardinality(Snatched') + early'
    <3>1. CASE x = w
      BY <3>1, <2>1, <2>6, <2>9, <2>10, <2>15, CountTypes, NextCountTypes
    <3>2. CASE x # w /\ x \in Waiting /\ Served(w)
      BY <3>2, <2>5, <2>6, <2>8, <2>10, <2>15, CountTypes, NextCountTypes
    <3>3. CASE x # w /\ x \in Waiting /\ ~Served(w)
      BY <3>3, <2>5, <2>6, <2>8, <2>13, <2>15, CountTypes, NextCountTypes
    <3>4. CASE x \notin Waiting /\ Served(w)
      BY <3>4, <2>5, <2>6, <2>7, <2>9, <2>11, <2>15, CountTypes, NextCountTypes
    <3>5. CASE x \notin Waiting /\ ~Served(w)
      BY <3>5, <2>5, <2>6, <2>7, <2>9, <2>14, <2>15, CountTypes, NextCountTypes
    <3>6. QED
      BY <3>1, <3>2, <3>3, <3>4, <3>5
  <2>17. QED
    BY <2>16 DEF LostWakeupsAreStolen
<1>3. QED
  BY <1>1, <1>2 DEF NotifyOne

LEMMA CameraKeepsCount ==
  ASSUME TypeOK, TypeOK', LostWakeupsAreStolen, NEW c \in Cameras, Camera(c)
  PROVE  LostWakeupsAreStolen'
<1> USE DEF Waiting, Stranded, Snatched, Served, Listed
<1>1. CASE CaptureFrame(c)
  BY <1>1, QuietStep DEF CaptureFrame, TypeOK
<1>2. CASE SubmitFrame(c)
  BY <1>2, QuietStep DEF SubmitFrame, NewEntry, TypeOK
<1>3. CASE SubmitFails(c)
  BY <1>3, QuietStep DEF SubmitFails, TypeOK
<1>4. CASE SpuriousWake(c)
  BY <1>4, QuietStep DEF SpuriousWake, TypeOK
<1>5. CASE Resume(c) /\ Served(c)
  BY <1>5, QuietStep DEF Resume, Emit, Skip, TypeOK
<1>6. CASE Resume(c) /\ ~Served(c)
  <2>1. Stranded' = Stranded /\ Snatched' = Snatched \ {c} /\ c \in Snatched
    BY <1>6 DEF Resume, Emit, TypeOK
  <2>2. early' = early + 1
    BY <1>6 DEF Resume, Emit
  <2>3. Cardinality(Snatched') = Cardinality(Snatched) - 1
    BY <2>1, CountTypes, FS_RemoveElement
  <2>4. early \in Nat /\ Cardinality(Stranded) <= Cardinality(Snatched) + early
    BY DEF LostWakeupsAreStolen, TypeOK
  <2> HIDE DEF Stranded, Snatched
  <2>5. Cardinality(Stranded') <= Cardinality(Snatched') + early'
    BY <2>1, <2>2, <2>3, <2>4, CountTypes
  <2>6. QED
    BY <2>5 DEF LostWakeupsAreStolen
<1>7. CASE OutputFrame(c)
  BY <1>7, QuietStep DEF OutputFrame, TypeOK
<1>8. CASE AddItem(c)
  BY <1>8, QuietStep DEF AddItem
<1>9. CASE CameraVideoBeautifyDestory(c)
  <2>1. \A d \in Cameras \ {c} : Served(d)' = Served(d)
    BY <1>9 DEF CameraVideoBeautifyDestory, TypeOK
  <2>2. Served(c)'
    BY <1>9 DEF CameraVideoBeautifyDestory, NoEntry, TypeOK
  <2>3. NotifyOne /\ early' = early
    BY <1>9 DEF CameraVideoBeautifyDestory
  <2>4. QED
    BY <2>1, <2>2, <2>3, ServeAndNotify
<1>10. QED
  BY <1>1, <1>2, <1>3, <1>4, <1>5, <1>6, <1>7, <1>8, <1>9 DEF Camera

LEMMA WakeKeepsCount ==
  ASSUME TypeOK, TypeOK', LostWakeupsAreStolen, WakeCameraVideoBeautify
  PROVE  LostWakeupsAreStolen'
<1> DEFINE a == Head(tasks)
<1>1. a \in Answer
  BY DEF TypeOK, WakeCameraVideoBeautify
<1>2. a.cam \in Cameras
  BY <1>1 DEF Answer
<1>3. infos' = Attach(a) /\ NotifyOne /\ early' = early
  BY DEF WakeCameraVideoBeautify
<1>4. \A d \in Cameras \ {a.cam} : infos'[d] = infos[d]
  BY <1>2, <1>3 DEF Attach, TypeOK
<1>5. infos'[a.cam] = infos[a.cam]
      \/ infos'[a.cam].task # Raw
  BY <1>2, <1>3 DEF Attach, TypeOK
<1>6. QED
  BY <1>2, <1>3, <1>4, <1>5, ServeAndNotify DEF Served, Listed

LEMMA DestoryAllKeepsCount ==
  ASSUME TypeOK, TypeOK', LostWakeupsAreStolen, CameraVideoBeautifyDestoryAll
  PROVE  LostWakeupsAreStolen'
<1>1. Stranded' = {}
  BY DEF CameraVideoBeautifyDestoryAll, NotifyAll, Stranded, Waiting, TypeOK
<1>2. QED
  BY <1>1, FS_EmptySet, NextCountTypes DEF LostWakeupsAreStolen, TypeOK

(* For any number of cameras, the threads asleep with nothing left to wait *)
(* for are never more than the waits that returned before their answer:    *)
(* the shared condition variable lets a camera steal another's wakeup, and *)
(* that is the only way one is missing.                                    *)
THEOREM WakeupsOnlyStolen == Spec => []LostWakeupsAreStolen
<1>1. Init => LostWakeupsAreStolen
  <2>1. Init => Stranded = {} /\ Snatched = {} /\ early = 0
    BY DEF Init, Stranded, Snatched, Waiting
  <2>2. QED
    BY <2>1, FS_EmptySet DEF LostWakeupsAreStolen
<1>2. TypeOK /\ TypeOK' /\ LostWakeupsAreStolen /\ [Next]_vars => LostWakeupsAreStolen'
  <2> SUFFICES ASSUME TypeOK, TypeOK', LostWakeupsAreStolen, [Next]_vars
               PROVE  LostWakeupsAreStolen'
    OBVIOUS
  <2>1. ASSUME NEW r \in requests, Host(r) PROVE LostWakeupsAreStolen'
    BY <2>1, QuietStep DEF Host, HostAnswer, HostAnswerUnreadable, HostIgnore,
         Stranded, Snatched, Waiting, Served, Listed
  <2>2. CASE CameraVideoBeautifyIsWorking
    BY <2>2, QuietStep DEF CameraVideoBeautifyIsWorking,
         Stranded, Snatched, Waiting, Served, Listed
  <2>3. CASE UNCHANGED vars
    BY <2>3, QuietStep DEF vars, Stranded, Snatched, Waiting, Served, Listed
  <2>4. QED
    BY <2>1, <2>2, <2>3, CameraKeepsCount, WakeKeepsCount, DestoryAllKeepsCount DEF Next
<1>3. QED
  BY <1>1, <1>2, TypeCorrect, PTL DEF Spec

-----------------------------------------------------------------------------
(* Where the answers of the host are.  An answer is open while the host or *)
(* the pool has it; then it is attached to an entry, taken out of the      *)
(* critical section and shown.                                             *)

Open == requests \cup {tasks[i] : i \in {j \in DOMAIN tasks : tasks[j].picture # Raw}}

(* No answer is open twice.                                                *)
Posted ==
  /\ \A r \in requests : r.picture # Raw
  /\ \A i \in DOMAIN tasks : tasks[i] \notin requests
  /\ \A i, j \in DOMAIN tasks : tasks[i].picture # Raw /\ i # j => tasks[i] # tasks[j]

LEMMA AppendedTask ==
  ASSUME NEW s \in Seq(Answer), NEW a \in Answer, NEW i \in DOMAIN Append(s, a)
  PROVE  \/ i = Len(s) + 1 /\ Append(s, a)[i] = a
         \/ i \in DOMAIN s /\ i < Len(s) + 1 /\ Append(s, a)[i] = s[i]
  OBVIOUS

LEMMA RemainingTask ==
  ASSUME NEW s \in Seq(Answer), s # <<>>
  PROVE  /\ 1 \in DOMAIN s /\ Head(s) = s[1]
         /\ \A i \in DOMAIN Tail(s) : i + 1 \in DOMAIN s /\ i + 1 # 1 /\ Tail(s)[i] = s[i + 1]
  OBVIOUS

LEMMA OpenAnswers == TypeOK => Open \subseteq Answer
  BY DEF Open, TypeOK

(* What a step does to the open answers: a frame that is submitted opens   *)
(* its own, the host may lose one, and the pool closes the one it runs.    *)
LEMMA SubmitOpens ==
  ASSUME TypeOK, NEW c \in Cameras, SubmitFrame(c)
  PROVE  Open' = Open \cup {[cam |-> c, picture |-> frame[c]]}
  BY DEF SubmitFrame, Open

LEMMA HostKeepsOpen ==
  ASSUME TypeOK, Posted, NEW r \in requests, Host(r)
  PROVE  Open' \subseteq Open /\ Posted'
<1>1. r \in Answer /\ r.picture # Raw /\ tasks \in Seq(Answer) /\ r \in Open
  BY DEF TypeOK, Posted, Open
<1>2. CASE HostAnswer(r)
  <2>1. requests' = requests \ {r} /\ tasks' = Append(tasks, r)
    BY <1>2 DEF HostAnswer
  <2>2. \A i \in DOMAIN tasks' : \/ i = Len(tasks) + 1 /\ tasks'[i] = r
                                 \/ i \in DOMAIN tasks /\ i < Len(tasks) + 1 /\ tasks'[i] = tasks[i]
    BY <1>1, <2>1, AppendedTask
  <2>3. Open' \subseteq Open
    BY <1>1, <2>1, <2>2 DEF Open
  <2>4. Posted'
    BY <1>1, <2>1, <2>2 DEF Posted
  <2> QED  BY <2>3, <2>4
<1>3. CASE HostAnswerUnreadable(r)
  <2> DEFINE a == [cam |-> r.cam, picture |-> Raw]
  <2>1. requests' = requests \ {r} /\ tasks' = Append(tasks, a)
    BY <1>3 DEF HostAnswerUnreadable
  <2>2. a \in Answer /\ a.picture = Raw
    BY <1>1 DEF Answer, Pictures
  <2> HIDE DEF a
  <2>3. \A i \in DOMAIN tasks' : \/ i = Len(tasks) + 1 /\ tasks'[i] = a
                                 \/ i \in DOMAIN tasks /\ i < Len(tasks) + 1 /\ tasks'[i] = tasks[i]
    BY <1>1, <2>1, <2>2, AppendedTask
  <2>4. Open' \subseteq Open
    BY <1>1, <2>1, <2>2, <2>3 DEF Open
  <2>5. Posted'
    BY <1>1, <2>1, <2>2, <2>3 DEF Posted
  <2> QED  BY <2>4, <2>5
<1>4. CASE HostIgnore(r)
  BY <1>4 DEF HostIgnore, Open, Posted
<1> QED  BY <1>2, <1>3, <1>4 DEF Host

LEMMA WakeCloses ==
  ASSUME TypeOK, Posted, WakeCameraVideoBeautify
  PROVE  /\ Open' \subseteq Open /\ Posted'
         /\ Head(tasks) \in Answer
         /\ Head(tasks).picture # Raw => Head(tasks) \in Open /\ Head(tasks) \notin Open'
<1>1. tasks \in Seq(Answer) /\ tasks # <<>> /\ tasks' = Tail(tasks) /\ requests' = requests
  BY DEF TypeOK, WakeCameraVideoBeautify
<1>2. /\ 1 \in DOMAIN tasks /\ Head(tasks) = tasks[1]
      /\ \A i \in DOMAIN tasks' : i + 1 \in DOMAIN tasks /\ i + 1 # 1 /\ tasks'[i] = tasks[i + 1]
  BY <1>1, RemainingTask
<1>3. Head(tasks) \in Answer
  BY <1>1
<1>4. Open' \subseteq Open
  BY <1>1, <1>2 DEF Open
<1>5. \A i, j \in DOMAIN tasks' : i # j => i + 1 # j + 1
  BY <1>1
<1>6. Posted'
  BY <1>1, <1>2, <1>5 DEF Posted
<1>7. Head(tasks).picture # Raw => Head(tasks) \in Open /\ Head(tasks) \notin Open'
  BY <1>1, <1>2 DEF Open, Posted
<1> QED  BY <1>3, <1>4, <1>6, <1>7

(* What the answer that is run does to an entry.                           *)
LEMMA AttachEffect ==
  ASSUME TypeOK, NEW a \in Answer, NEW c \in Cameras
  PROVE  \/ Attach(a)[c] = infos[c]
         \/ /\ a.cam = c /\ a.picture # Raw /\ Listed(c)
            /\ Attach(a)[c] = [frame |-> infos[c].frame, task |-> a.picture]
  BY DEF Attach, TypeOK, Answer

-----------------------------------------------------------------------------
(* The relay: each frame has one way through, and each picture one place   *)
(* on its way back.                                                        *)

(* A thread that outputs carries the last frame captured, and one that     *)
(* finds its entry erased has been withdrawn.                              *)
Shapes ==
  \A c \in Cameras :
    /\ pc[c] = "output" => out[c].frame = frame[c]
    /\ pc[c] # "output" => out[c].picture = Raw
    /\ pc[c] \in {"wait", "woken"} /\ ~Listed(c) => Withdrawn(c)

(* Picture p of camera c is of a frame that may have gone to the host.     *)
Past(c, p) == p <= frame[c] /\ (pc[c] = "lock" => p # frame[c])

PicturesArePast ==
  /\ \A a \in Open : Past(a.cam, a.picture)
  /\ \A c \in Cameras : /\ Past(c, infos[c].task)
                        /\ Past(c, out[c].picture)
                        /\ \A i \in DOMAIN shown[c] : Past(c, shown[c][i].picture)

Fresh(s, p) == \A i \in DOMAIN s : s[i].picture # p

(* An open answer has not been used.  One attached has not been shown when *)
(* the thread comes for it, although it may stay in the entry afterwards.  *)
AnswersAreFresh ==
  /\ \A a \in Open : /\ infos[a.cam].task # a.picture
                     /\ out[a.cam].picture # a.picture
                     /\ Fresh(shown[a.cam], a.picture)
  /\ \A c \in Cameras :
       /\ pc[c] \in {"wait", "woken"} /\ infos[c].task # Raw => Fresh(shown[c], infos[c].task)
       /\ out[c].picture # Raw => Fresh(shown[c], out[c].picture)

RelayInv == Shapes /\ Posted /\ PicturesArePast /\ AnswersAreFresh

LEMMA AppendedOutput ==
  ASSUME NEW s \in Seq(Output), NEW o \in Output
  PROVE  /\ DOMAIN Append(s, o) = DOMAIN s \cup {Len(s) + 1}
         /\ Append(s, o)[Len(s) + 1] = o
         /\ \A i \in DOMAIN s : Append(s, o)[i] = s[i] /\ i < Len(s) + 1 /\ i \in Nat
  OBVIOUS

(* Numbers: what the frames and pictures of a well-typed state are.        *)
LEMMA OutputTypes ==
  ASSUME NEW o \in Output
  PROVE  o.frame \in Nat /\ o.picture \in Nat
  BY FrameAssumption DEF Output, Frames, Pictures, Raw

LEMMA EntryTypes ==
  ASSUME NEW e \in Entry
  PROVE  e.frame \in Nat /\ e.task \in Nat
  BY FrameAssumption DEF Entry, Frames, Pictures, Raw

LEMMA AnswerTypes ==
  ASSUME NEW a \in Answer
  PROVE  a.cam \in Cameras /\ a.picture \in Nat
  BY FrameAssumption DEF Answer, Frames, Pictures, Raw

LEMMA PictureTypes ==
  ASSUME TypeOK
  PROVE  /\ \A c \in Cameras : /\ frame[c] \in Nat
                               /\ infos[c].frame \in Nat /\ infos[c].task \in Nat
                               /\ out[c].frame \in Nat /\ out[c].picture \in Nat
                               /\ \A i \in DOMAIN shown[c] : /\ shown[c][i] \in Output
                                                             /\ shown[c][i].frame \in Nat
                                                             /\ shown[c][i].picture \in Nat
         /\ \A a \in Open : a.cam \in Cameras /\ a.picture \in Nat
<1>1. \A c \in Cameras : frame[c] \in Nat
  BY FrameAssumption DEF TypeOK, Frames
<1>2. \A c \in Cameras : infos[c] \in Entry /\ out[c] \in Output /\ shown[c] \in Seq(Output)
  BY DEF TypeOK
<1>3. \A c \in Cameras : \A i \in DOMAIN shown[c] : shown[c][i] \in Output
  BY <1>2
<1> QED  BY <1>1, <1>2, <1>3, OpenAnswers, OutputTypes, EntryTypes, AnswerTypes

LEMMA OpenNotRaw == Posted => \A a \in Open : a.picture # Raw
  BY DEF Posted, Open

LEMMA CaptureRelayInv ==
  ASSUME TypeOK, RelayInv, NEW c \in Cameras, CaptureFrame(c)
  PROVE  RelayInv'
<1>1. Open' = Open
  BY DEF Open, CaptureFrame
<1>2. /\ frame' = [frame EXCEPT ![c] = @ + 1] /\ infos' = infos /\ shown' = shown
      /\ frame'[c] = frame[c] + 1
      /\ \A d \in Cameras \ {c} : frame'[d] = frame[d] /\ pc'[d] = pc[d] /\ out'[d] = out[d]
      /\ pc[c] = "capture" /\ pc'[c] \in {"lock", "output"}
      /\ pc'[c] = "lock" => out'[c] = out[c]
      /\ pc'[c] = "output" => out'[c].picture = Raw /\ out'[c].frame = frame'[c]
  BY DEF CaptureFrame, TypeOK
<1>3. \A d \in Cameras : Withdrawn(d)' = Withdrawn(d)
  BY DEF CaptureFrame, Withdrawn
<1>4. Shapes'
  BY <1>2, <1>3 DEF RelayInv, Shapes, Listed
<1>5. Posted'
  BY DEF CaptureFrame, RelayInv, Posted
<1>6. \A d \in Cameras, p \in Nat : Past(d, p) => Past(d, p)'
  BY <1>2, PictureTypes DEF Past
<1>7. PicturesArePast'
  <2>1. Past(c, Raw)'
    BY <1>2, PictureTypes DEF Past, Raw
  <2> QED  BY <1>1, <1>2, <1>6, <2>1, PictureTypes DEF RelayInv, PicturesArePast
<1>8. AnswersAreFresh'
  BY <1>1, <1>2, PictureTypes DEF RelayInv, AnswersAreFresh, Fresh, Shapes, PicturesArePast, Past
<1> QED  BY <1>4, <1>5, <1>7, <1>8 DEF RelayInv

LEMMA SubmitRelayInv ==
  ASSUME TypeOK, RelayInv, NEW c \in Cameras, SubmitFrame(c)
  PROVE  RelayInv'
<1> DEFINE r == [cam |-> c, picture |-> frame[c]]
<1>1. Open' = Open \cup {r}
  BY SubmitOpens
<1>2. /\ frame' = frame /\ shown' = shown /\ out' = out
      /\ pc[c] = "lock" /\ pc'[c] = "wait"
      /\ infos'[c] = [frame |-> frame[c], task |-> Raw]
      /\ \A d \in Cameras \ {c} : pc'[d] = pc[d] /\ infos'[d] = infos[d]
  BY DEF SubmitFrame, NewEntry, TypeOK
<1>3. \A d \in Cameras : Withdrawn(d)' = Withdrawn(d)
  BY DEF SubmitFrame, Withdrawn
<1>4. frame[c] \in Nat /\ frame[c] # 0
  BY <1>2, PictureTypes DEF TypeOK
<1>5. Shapes'
  BY <1>2, <1>3, <1>4 DEF RelayInv, Shapes, Listed
<1>6. \A a \in Open : a # r
  BY <1>2 DEF RelayInv, PicturesArePast, Past
<1>7. Posted'
  <2>1. requests' = requests \cup {r} /\ tasks' = tasks
    BY DEF SubmitFrame
  <2>2. \A i \in DOMAIN tasks : tasks[i] # r
    BY <1>4, <1>6 DEF Open, Raw
  <2>3. r.picture # Raw
    BY <1>4 DEF Raw
  <2> HIDE DEF r
  <2> QED  BY <2>1, <2>2, <2>3 DEF RelayInv, Posted
<1>8. PicturesArePast'
  BY <1>1, <1>2, <1>4, PictureTypes DEF RelayInv, PicturesArePast, Past, Raw
<1>9. AnswersAreFresh'
  <2>1. /\ infos'[c].task # frame[c] /\ out'[c].picture # frame[c] /\ Fresh(shown[c], frame[c])
    BY <1>2, <1>4 DEF RelayInv, Shapes, PicturesArePast, Past, Fresh, Raw
  <2>2. \A a \in Open' : infos'[a.cam].task # a.picture /\ out'[a.cam].picture # a.picture
                         /\ Fresh(shown'[a.cam], a.picture)
    <3>1. \A a \in Open : /\ infos'[a.cam].task # a.picture
                          /\ Fresh(shown'[a.cam], a.picture)
      BY <1>2, PictureTypes, OpenNotRaw DEF RelayInv, AnswersAreFresh, Fresh
    <3>2. \A a \in Open : out'[a.cam].picture # a.picture
      BY <1>2 DEF RelayInv, AnswersAreFresh
    <3>3. Fresh(shown'[c], frame[c])
      BY <1>2, <2>1 DEF Fresh
    <3> QED  BY <1>1, <2>1, <3>1, <3>2, <3>3
  <2> QED  BY <1>2, <2>2 DEF RelayInv, AnswersAreFresh, Fresh
<1> QED  BY <1>5, <1>7, <1>8, <1>9 DEF RelayInv

(* Steps of one thread that leave its entry and the answers alone.         *)
LEMMA ThreadRelayInv ==
  ASSUME TypeOK, RelayInv, NEW c \in Cameras,
         SubmitFails(c) \/ SpuriousWake(c) \/ Resume(c) \/ OutputFrame(c) \/ AddItem(c)
  PROVE  RelayInv'
<1>1. Open' = Open /\ infos' = infos /\ frame' = frame /\ requests' = requests /\ tasks' = tasks
  BY DEF SubmitFails, SpuriousWake, Resume, OutputFrame, AddItem, Open
<1>2. \A d \in Cameras \ {c} : pc'[d] = pc[d] /\ out'[d] = out[d] /\ shown'[d] = shown[d]
  BY DEF TypeOK, SubmitFails, SpuriousWake, Resume, OutputFrame, AddItem, Emit, Skip
<1>3. \A d \in Cameras : Withdrawn(d)' = Withdrawn(d)
  BY DEF SubmitFails, SpuriousWake, Resume, OutputFrame, AddItem, Withdrawn, TypeOK
<1>4. Posted'
  BY <1>1 DEF RelayInv, Posted
<1>5. CASE SubmitFails(c) \/ Resume(c)
  <2>1. /\ shown' = shown /\ pc[c] \in {"lock", "woken"} /\ pc'[c] \in {"output", "capture"}
        /\ pc'[c] = "output" => /\ out'[c].frame = frame[c]
                                /\ \/ out'[c].picture = Raw
                                   \/ pc[c] = "woken" /\ out'[c].picture = infos[c].task
        /\ pc'[c] = "capture" => out'[c] = out[c]
    BY <1>5 DEF TypeOK, SubmitFails, Resume, Emit, Skip, Listed
  <2>2. Shapes'
    BY <1>1, <1>2, <1>3, <2>1 DEF RelayInv, Shapes, Listed
  <2>3. PicturesArePast'
    BY <1>1, <1>2, <2>1, PictureTypes DEF RelayInv, PicturesArePast, Past, Raw, Shapes
  <2>4. AnswersAreFresh'
    <3>1. \A a \in Open : out'[a.cam].picture # a.picture
      BY <1>2, <2>1, PictureTypes, OpenNotRaw DEF RelayInv, AnswersAreFresh, Shapes
    <3>2. out'[c].picture # Raw => Fresh(shown[c], out'[c].picture)
      BY <2>1 DEF RelayInv, AnswersAreFresh, Shapes
    <3>3. \A d \in Cameras : pc'[d] \in {"wait", "woken"} => pc[d] \in {"wait", "woken"}
      BY <1>2, <2>1
    <3> QED  BY <1>1, <1>2, <2>1, <3>1, <3>2, <3>3, PictureTypes DEF RelayInv, AnswersAreFresh
  <2> QED  BY <1>4, <2>2, <2>3, <2>4 DEF RelayInv
<1>6. CASE SpuriousWake(c) \/ AddItem(c)
  <2>1. /\ shown' = shown /\ out' = out
        /\ pc'[c] = pc[c] \/ (pc[c] = "wait" /\ pc'[c] = "woken")
    <3>1. CASE SpuriousWake(c)
      BY <3>1 DEF TypeOK, SpuriousWake
    <3>2. CASE AddItem(c)
      BY <3>2 DEF AddItem
    <3> QED  BY <1>6, <3>1, <3>2
  <2>2. Shapes'
    BY <1>1, <1>2, <1>3, <2>1 DEF RelayInv, Shapes, Listed
  <2>3. PicturesArePast'
    BY <1>1, <1>2, <2>1, PictureTypes DEF RelayInv, PicturesArePast, Past
  <2>4. AnswersAreFresh'
    BY <1>1, <1>2, <2>1, PictureTypes DEF RelayInv, AnswersAreFresh, Fresh
  <2> QED  BY <1>4, <2>2, <2>3, <2>4 DEF RelayInv
<1>7. CASE OutputFrame(c)
  <2>1. /\ pc[c] = "output" /\ pc'[c] = "capture" /\ out'[c].picture = Raw
        /\ shown'[c] = Append(shown[c], out[c])
    BY <1>7 DEF TypeOK, OutputFrame, NoOutput
  <2>2. \A i \in DOMAIN shown'[c] : \/ i \in DOMAIN shown[c] /\ shown'[c][i] = shown[c][i]
                                    \/ shown'[c][i] = out[c]
    <3>1. shown[c] \in Seq(Output) /\ out[c] \in Output
      BY DEF TypeOK
    <3> QED  BY <2>1, <3>1, AppendedOutput
  <2>3. Shapes'
    BY <1>1, <1>2, <1>3, <2>1 DEF RelayInv, Shapes, Listed
  <2>4. PicturesArePast'
    <3>1. \A d \in Cameras, p \in Nat : Past(d, p) => Past(d, p)'
      BY <1>1, <1>2, <2>1 DEF Past
    <3>2. \A d \in Cameras : \A i \in DOMAIN shown'[d] : Past(d, shown'[d][i].picture)
      BY <1>2, <2>2, PictureTypes DEF RelayInv, PicturesArePast
    <3>3. \A d \in Cameras : Past(d, out'[d].picture)
      BY <1>2, <2>1, PictureTypes DEF RelayInv, PicturesArePast, Past, Raw
    <3>4. \A d \in Cameras : /\ out'[d].picture \in Nat
                             /\ \A i \in DOMAIN shown'[d] : shown'[d][i].picture \in Nat
      <4>1. \A d \in Cameras : out'[d].picture \in Nat
        BY <1>2, <2>1, PictureTypes DEF Raw
      <4>2. \A d \in Cameras : \A i \in DOMAIN shown'[d] : shown'[d][i].picture \in Nat
        BY <1>2, <2>2, PictureTypes
      <4> QED  BY <4>1, <4>2
    <3> QED  BY <1>1, <3>1, <3>2, <3>3, <3>4, PictureTypes DEF RelayInv, PicturesArePast
  <2>5. AnswersAreFresh'
    <3>1. ASSUME NEW a \in Open
          PROVE  out'[a.cam].picture # a.picture /\ Fresh(shown'[a.cam], a.picture)
      <4>1. /\ a.cam \in Cameras /\ a.picture # Raw
            /\ out[a.cam].picture # a.picture /\ Fresh(shown[a.cam], a.picture)
        BY PictureTypes, OpenNotRaw DEF RelayInv, AnswersAreFresh
      <4>2. CASE a.cam = c
        BY <2>1, <2>2, <4>1, <4>2 DEF Fresh
      <4> QED  BY <1>2, <2>1, <4>1, <4>2
    <3>2. \A d \in Cameras \ {c} : shown'[d] = shown[d]
                                 /\ out'[d] = out[d]
      BY <1>1, <1>2
    <3> QED  BY <1>1, <1>2, <2>1, <3>1, <3>2 DEF RelayInv, AnswersAreFresh
  <2> QED  BY <1>4, <2>3, <2>4, <2>5 DEF RelayInv
<1> QED  BY <1>5, <1>6, <1>7

(* Steps of the host, the pool and the scene: no thread moves but from its *)
(* wait, and an entry is left, erased with its camera withdrawn, or given  *)
(* an answer that is no longer open.                                       *)
OutsideStep ==
  /\ frame' = frame /\ out' = out /\ shown' = shown
  /\ Open' \subseteq Open /\ Posted'
  /\ \A d \in Cameras :
       /\ pc'[d] = pc[d] \/ (pc[d] = "wait" /\ pc'[d] = "woken")
       /\ Withdrawn(d) => Withdrawn(d)'
       /\ \/ infos'[d] = infos[d]
          \/ infos'[d] = NoEntry /\ Withdrawn(d)'
          \/ \E a \in Open \ Open' :
               /\ a.cam = d /\ Listed(d)
               /\ infos'[d] = [frame |-> infos[d].frame, task |-> a.picture]

LEMMA OutsideSteps ==
  ASSUME TypeOK, Posted,
         \/ \E r \in requests : Host(r)
         \/ WakeCameraVideoBeautify
         \/ \E c \in Cameras : CameraVideoBeautifyDestory(c)
         \/ CameraVideoBeautifyIsWorking
         \/ CameraVideoBeautifyDestoryAll
         \/ UNCHANGED vars
  PROVE  OutsideStep
<1>1. ASSUME NEW r \in requests, Host(r) PROVE OutsideStep
  <2>1. /\ frame' = frame /\ out' = out /\ shown' = shown /\ pc' = pc /\ infos' = infos
        /\ item' = item /\ uninit' = uninit
    BY <1>1 DEF Host, HostAnswer, HostAnswerUnreadable, HostIgnore
  <2> QED  BY <1>1, <2>1, HostKeepsOpen DEF OutsideStep, Withdrawn
<1>2. CASE WakeCameraVideoBeautify
  <2>1. /\ frame' = frame /\ out' = out /\ shown' = shown
        /\ item' = item /\ uninit' = uninit /\ infos' = Attach(Head(tasks)) /\ NotifyOne
    BY <1>2 DEF WakeCameraVideoBeautify
  <2>2. \A d \in Cameras : \/ infos'[d] = infos[d]
                           \/ \E a \in Open \ Open' :
                               /\ a.cam = d /\ Listed(d)
                               /\ infos'[d] = [frame |-> infos[d].frame, task |-> a.picture]
    BY <1>2, <2>1, WakeCloses, AttachEffect
  <2> QED  BY <1>2, <2>1, <2>2, WakeCloses, NotifyType DEF OutsideStep, Withdrawn
<1>3. ASSUME NEW c \in Cameras, CameraVideoBeautifyDestory(c) PROVE OutsideStep
  <2>1. /\ frame' = frame /\ out' = out /\ shown' = shown /\ uninit' = uninit
        /\ requests' = requests /\ tasks' = tasks /\ NotifyOne
        /\ item'[c] = "removed" /\ infos'[c] = NoEntry
        /\ \A d \in Cameras \ {c} : item'[d] = item[d] /\ infos'[d] = infos[d]
    BY <1>3 DEF CameraVideoBeautifyDestory, TypeOK
  <2>2. Open' = Open /\ Posted'
    BY <2>1 DEF Open, Posted
  <2>3. \A d \in Cameras : /\ Withdrawn(d) => Withdrawn(d)'
                           /\ infos'[d] = infos[d] \/ (infos'[d] = NoEntry /\ Withdrawn(d)')
    BY <2>1 DEF Withdrawn
  <2> QED  BY <2>1, <2>2, <2>3, NotifyType DEF OutsideStep
<1>4. CASE CameraVideoBeautifyIsWorking \/ UNCHANGED vars
  <2>1. /\ frame' = frame /\ out' = out /\ shown' = shown /\ pc' = pc /\ infos' = infos
        /\ requests' = requests /\ tasks' = tasks /\ item' = item
        /\ uninit = "done" => uninit' = "done"
    BY <1>4 DEF CameraVideoBeautifyIsWorking, vars
  <2> QED  BY <2>1 DEF OutsideStep, Open, Posted, Withdrawn
<1>5. CASE CameraVideoBeautifyDestoryAll
  <2>1. /\ frame' = frame /\ out' = out /\ shown' = shown /\ uninit' = "done"
        /\ requests' = requests /\ tasks' = tasks /\ NotifyAll
        /\ \A d \in Cameras : infos'[d] = NoEntry
    BY <1>5 DEF CameraVideoBeautifyDestoryAll
  <2>2. Open' = Open /\ Posted'
    BY <2>1 DEF Open, Posted
  <2> QED  BY <2>1, <2>2, NotifyType DEF OutsideStep, Withdrawn
<1> QED  BY <1>1, <1>2, <1>3, <1>4, <1>5

LEMMA OutsideRelayInv ==
  ASSUME TypeOK, RelayInv, OutsideStep
  PROVE  RelayInv'
<1> USE DEF OutsideStep
<1>1. Posted'
  OBVIOUS
<1>2. ASSUME NEW d \in Cameras
      PROVE  \/ infos'[d] = infos[d]
             \/ infos'[d].task = Raw /\ Withdrawn(d)'
             \/ \E a \in Open : /\ a \notin Open' /\ a.cam = d
                               /\ infos'[d].task = a.picture /\ infos'[d].frame = infos[d].frame
  <2>1. CASE infos'[d] = NoEntry /\ Withdrawn(d)'
    BY <2>1 DEF NoEntry
  <2>2. ASSUME NEW a \in Open \ Open', a.cam = d,
               infos'[d] = [frame |-> infos[d].frame, task |-> a.picture]
        PROVE  infos'[d].task = a.picture /\ infos'[d].frame = infos[d].frame
    BY <2>2
  <2> QED  BY <2>1, <2>2
<1>3. Shapes'
  <2>1. ASSUME NEW d \in Cameras, pc'[d] \in {"wait", "woken"}, ~Listed(d)'
        PROVE  Withdrawn(d)'
    BY <1>2, <2>1 DEF RelayInv, Shapes, Listed
  <2> QED  BY <2>1 DEF RelayInv, Shapes
<1>4. PicturesArePast'
  <2>1. \A d \in Cameras, p \in Nat : Past(d, p) => Past(d, p)'
    BY DEF Past
  <2>2. \A d \in Cameras : Past(d, infos'[d].task) /\ infos'[d].task \in Nat
    <3>1. \A d \in Cameras : Past(d, Raw) /\ Raw \in Nat
      BY PictureTypes DEF Past, Raw, TypeOK
    <3> QED  BY <1>2, <3>1, PictureTypes DEF RelayInv, PicturesArePast
  <2> QED  BY <2>1, <2>2, PictureTypes DEF RelayInv, PicturesArePast
<1>5. AnswersAreFresh'
  <2>1. ASSUME NEW a \in Open' PROVE infos'[a.cam].task # a.picture
    <3>1. a \in Open /\ a \in Answer /\ a.cam \in Cameras /\ a.picture # Raw
          /\ infos[a.cam].task # a.picture
      BY OpenAnswers, PictureTypes, OpenNotRaw DEF RelayInv, AnswersAreFresh
    <3>2. ASSUME NEW b \in Open, b \notin Open', b.cam = a.cam
          PROVE  b.picture # a.picture
      <4>1. b \in Answer /\ b # a
        BY <3>2, OpenAnswers
      <4> QED  BY <3>1, <3>2, <4>1 DEF Answer
    <3> QED  BY <1>2, <3>1, <3>2
  <2>2. \A d \in Cameras : pc'[d] \in {"wait", "woken"} /\ infos'[d].task # Raw
                             => Fresh(shown[d], infos'[d].task)
    BY <1>2 DEF RelayInv, AnswersAreFresh
  <2> QED  BY <2>1, <2>2 DEF RelayInv, AnswersAreFresh
<1> QED  BY <1>1, <1>3, <1>4, <1>5 DEF RelayInv

LEMMA RelayInvariant == Spec => []RelayInv
<1>1. Init => RelayInv
  <2> SUFFICES ASSUME Init PROVE RelayInv
    OBVIOUS
  <2>1. Open = {} /\ tasks = <<>> /\ requests = {}
    BY DEF Init, Open
  <2>2. Posted
    BY <2>1 DEF Posted
  <2>3. Shapes
    BY DEF Init, Shapes, NoOutput
  <2>4. PicturesArePast /\ AnswersAreFresh
    BY <2>1 DEF Init, PicturesArePast, Past, AnswersAreFresh, NoEntry, NoOutput, Raw
  <2> QED  BY <2>2, <2>3, <2>4 DEF RelayInv
<1>2. TypeOK /\ RelayInv /\ [Next]_vars => RelayInv'
  BY CaptureRelayInv, SubmitRelayInv, ThreadRelayInv, OutsideSteps, OutsideRelayInv
     DEF Next, Camera, RelayInv
<1> QED
  BY <1>1, <1>2, TypeCorrect, PTL DEF Spec

-----------------------------------------------------------------------------
(* The refinement: every step of the threads is a step of the relay, or    *)
(* none.                                                                   *)

(* The mapping, a variable of the relay each.                              *)
Held == [c \in Cameras |-> pc[c] # "capture"]
Gone == [c \in Cameras |-> Withdrawn(c)]
Seen(s) == [i \in DOMAIN s |-> [frame |-> s[i].frame, picture |-> s[i].picture]]
Shown == [c \in Cameras |-> Seen(shown[c])]

LEMMA SeenAppends ==
  ASSUME NEW s \in Seq(Output), NEW o \in Output
  PROVE  /\ Seen(Append(s, o)) = Append(Seen(s), [frame |-> o.frame, picture |-> o.picture])
         /\ \A i \in DOMAIN Seen(s) : i \in DOMAIN s /\ Seen(s)[i].picture = s[i].picture
<1> DEFINE f(x) == [frame |-> x.frame, picture |-> x.picture]
<1>1. Seen(s) \in Seq({f(x) : x \in Output}) /\ Len(Seen(s)) = Len(s)
  BY DEF Seen
<1>2. DOMAIN Seen(Append(s, o)) = 1 .. Len(s) + 1
  BY DEF Seen
<1>3. DOMAIN Append(Seen(s), f(o)) = 1 .. Len(s) + 1
  BY <1>1
<1>4. \A i \in 1 .. Len(s) + 1 : Seen(Append(s, o))[i] = Append(Seen(s), f(o))[i]
  BY <1>1 DEF Seen
<1>5. Seen(Append(s, o)) = Append(Seen(s), f(o))
  BY <1>1, <1>2, <1>3, <1>4 DEF Seen
<1> QED  BY <1>5 DEF Seen

LEMMA RelayInit == Init => Relay!Init
<1> SUFFICES ASSUME Init PROVE Relay!Init
  OBVIOUS
<1>1. frame = [c \in Cameras |-> 0]
  BY DEF Init
<1>2. Held = [c \in Cameras |-> FALSE]
  BY DEF Init, Held
<1>3. Gone = [c \in Cameras |-> FALSE]
  BY DEF Init, Gone, Withdrawn
<1>4. Seen(<<>>) = <<>>
  BY DEF Seen
<1>5. Shown = [c \in Cameras |-> <<>>]
  BY <1>4 DEF Init, Shown
<1> QED  BY <1>1, <1>2, <1>3, <1>5 DEF Relay!Init, Held, Gone, Shown, Seen

LEMMA CaptureTakes ==
  ASSUME TypeOK, NEW c \in Cameras, CaptureFrame(c)
  PROVE  Relay!Take(c)
<1>1. pc[c] = "capture" /\ frame[c] < MaxFrame
  <2>1. frame[c] \in Nat /\ MaxFrame \in Nat \ {0}
    BY PictureTypes, FrameAssumption
  <2> QED  BY <2>1 DEF CaptureFrame
<1>2. frame' = [frame EXCEPT ![c] = @ + 1]
  BY DEF CaptureFrame
<1>3. Held' = [Held EXCEPT ![c] = TRUE]
  BY DEF CaptureFrame, Held, TypeOK
<1>4. Gone' = Gone /\ Shown' = Shown
  BY DEF CaptureFrame, Gone, Withdrawn, Shown
<1> QED  BY <1>1, <1>2, <1>3, <1>4 DEF Relay!Take, Held, Gone, Shown, Seen

LEMMA OutputDelivers ==
  ASSUME TypeOK, RelayInv, NEW c \in Cameras, OutputFrame(c)
  PROVE  Relay!Deliver(c)
<1> DEFINE o == [frame |-> frame[c], picture |-> out[c].picture]
<1>1. pc[c] = "output" /\ frame' = frame
  BY DEF OutputFrame
<1>2. Held' = [Held EXCEPT ![c] = FALSE] /\ Gone' = Gone
  BY DEF OutputFrame, Held, TypeOK, Gone, Withdrawn
<1>3. shown[c] \in Seq(Output) /\ out[c] \in Output /\ shown \in [Cameras -> Seq(Output)]
  BY DEF TypeOK
<1>4. out[c].frame = frame[c]
  BY <1>1 DEF RelayInv, Shapes
<1>5. Shown' = [Shown EXCEPT ![c] = Append(@, o)]
  <2>1. shown' = [shown EXCEPT ![c] = Append(@, out[c])]
    BY DEF OutputFrame
  <2>2. Seen(Append(shown[c], out[c])) = Append(Seen(shown[c]), o)
    BY <1>3, <1>4, SeenAppends
  <2> QED  BY <1>3, <2>1, <2>2 DEF Shown
<1>6. out[c].picture \in {Raw} \cup
        {p \in 1 .. frame[c] : \A i \in DOMAIN Shown[c] : Shown[c][i].picture # p}
  <2>1. out[c].picture \in Nat /\ frame[c] \in Nat /\ out[c].picture <= frame[c]
    BY PictureTypes DEF RelayInv, PicturesArePast, Past
  <2>2. out[c].picture # Raw =>
          \A i \in DOMAIN Seen(shown[c]) : Seen(shown[c])[i].picture # out[c].picture
    BY <1>3, SeenAppends DEF RelayInv, AnswersAreFresh, Fresh
  <2> QED  BY <2>1, <2>2 DEF Shown, Raw
<1>7. \E p \in {Raw} \cup
        {p \in 1 .. frame[c] : \A i \in DOMAIN Shown[c] : Shown[c][i].picture # p} :
          Shown' = [Shown EXCEPT ![c] = Append(@, [frame |-> frame[c], picture |-> p])]
  BY <1>5, <1>6
<1> QED  BY <1>1, <1>2, <1>7 DEF Relay!Deliver, Relay!Unused, Held, Gone, Shown, Seen

LEMMA RelayUnchanged ==
  ASSUME frame' = frame, Held' = Held, Shown' = Shown, Gone' = Gone
  PROVE  UNCHANGED Relay!vars
  BY DEF Relay!vars, Held, Shown, Seen, Gone

(* A thread that finds its entry erased drops its frame; the other steps   *)
(* of a thread between capture and output are not seen.                    *)
LEMMA ThreadRelays ==
  ASSUME TypeOK, RelayInv, NEW c \in Cameras,
         SubmitFrame(c) \/ SubmitFails(c) \/ SpuriousWake(c) \/ Resume(c) \/ AddItem(c)
  PROVE  Relay!Drop(c) \/ UNCHANGED Relay!vars
<1>1. frame' = frame /\ shown' = shown
  BY DEF SubmitFrame, SubmitFails, SpuriousWake, Resume, AddItem
<1>2. Shown' = Shown
  BY <1>1 DEF Shown
<1>3. \A d \in Cameras : Withdrawn(d)' = Withdrawn(d)
  BY DEF SubmitFrame, SubmitFails, SpuriousWake, Resume, AddItem, Withdrawn, TypeOK
<1>4. Gone' = Gone
  BY <1>3 DEF Gone
<1>5. CASE Resume(c) /\ ~Listed(c)
  <2>1. pc[c] = "woken" /\ Gone[c]
    BY <1>5 DEF Resume, RelayInv, Shapes, Gone
  <2>2. Held[c] /\ Held' = [Held EXCEPT ![c] = FALSE]
    BY <1>5 DEF Resume, Skip, Held, TypeOK
  <2> QED  BY <1>1, <1>2, <1>4, <2>1, <2>2 DEF Relay!Drop, Held, Gone, Shown, Seen
<1>6. CASE ~(Resume(c) /\ ~Listed(c))
  <2>1. \A d \in Cameras : (pc'[d] = "capture") = (pc[d] = "capture")
    BY <1>6 DEF SubmitFrame, SubmitFails, SpuriousWake, Resume, Emit, AddItem, TypeOK
  <2>2. Held' = Held
    BY <2>1 DEF Held
  <2> QED  BY <1>1, <1>2, <1>4, <2>2, RelayUnchanged
<1> QED  BY <1>5, <1>6

(* Removal and teardown withdraw cameras; the host and the pool are not    *)
(* seen at all.                                                            *)
LEMMA OutsideRelays ==
  ASSUME TypeOK, OutsideStep
  PROVE  (\E S \in SUBSET Cameras : Relay!Withdraw(S)) \/ UNCHANGED Relay!vars
<1> DEFINE S == {d \in Cameras : Withdrawn(d)'}
<1>1. frame' = frame /\ Shown' = Shown
  BY DEF OutsideStep, Shown
<1>2. \A d \in Cameras : (pc'[d] = "capture") = (pc[d] = "capture")
  BY DEF OutsideStep
<1>3. Held' = Held
  BY <1>2 DEF Held
<1>4. Gone' = [d \in Cameras |-> Gone[d] \/ d \in S]
  <2>1. \A d \in Cameras : Gone[d] => Withdrawn(d)'
    BY DEF OutsideStep, Gone
  <2>2. \A d \in Cameras : Withdrawn(d)' <=> (Gone[d] \/ d \in S)
    BY <2>1
  <2>3. \A d \in Cameras : Withdrawn(d)' = (Gone[d] \/ d \in S)
    BY <2>2, Zenon DEF Withdrawn
  <2> HIDE DEF S
  <2> QED  BY <2>3, Zenon DEF Gone
<1>5. S \in SUBSET Cameras
  OBVIOUS
<1> HIDE DEF S
<1>6. Relay!Withdraw(S)
  BY <1>1, <1>3, <1>4 DEF Relay!Withdraw, Held, Gone, Shown, Seen
<1> QED  BY <1>5, <1>6

(* The capture threads, the mutex, the condition variable, the host and    *)
(* the pool implement the relay: each camera's frames come out one by one, *)
(* in order, none twice and none lost but of a withdrawn camera, and no    *)
(* picture of the host is output for two frames.                           *)
THEOREM RelayIsImplemented == Spec => ImplementsRelay
<1>1. TypeOK /\ RelayInv /\ [Next]_vars => [Relay!Next]_(Relay!vars)
  <2> SUFFICES ASSUME TypeOK, RelayInv, [Next]_vars
               PROVE  [Relay!Next]_(Relay!vars)
    OBVIOUS
  <2>1. ASSUME NEW c \in Cameras, Camera(c), ~CameraVideoBeautifyDestory(c)
        PROVE  [Relay!Next]_(Relay!vars)
    BY <2>1, CaptureTakes, OutputDelivers, ThreadRelays DEF Camera, Relay!Next
  <2>2. ASSUME OutsideStep
        PROVE  [Relay!Next]_(Relay!vars)
    BY <2>2, OutsideRelays DEF Relay!Next
  <2> QED  BY <2>1, <2>2, OutsideSteps DEF Next, Camera, RelayInv
<1> QED
  BY <1>1, RelayInit, TypeCorrect, RelayInvariant, PTL DEF Spec, ImplementsRelay, Relay!Spec

-----------------------------------------------------------------------------
(* Why a picture can be late, and a borrowed one be given up.              *)

Inside(c) == pc[c] \in {"wait", "woken"}
WasMissed(s, p) == \E i \in DOMAIN s : s[i].frame = p /\ Missed(s[i])

(* The frame that picture p of camera c was computed from still waits for  *)
(* it, or has left without it.                                             *)
Owed(c, p) ==
  \/ Withdrawn(c)
  \/ p = frame[c] /\ Inside(c)
  \/ p = frame[c] /\ pc[c] = "output" /\ Missed(out[c])
  \/ WasMissed(shown[c], p)

AnswersAreOwed ==
  /\ \A a \in Open : Owed(a.cam, a.picture)
  /\ \A c \in Cameras :
       /\ Inside(c) /\ infos[c].task # Raw =>
            Withdrawn(c) \/ infos[c].task = frame[c] \/ WasMissed(shown[c], infos[c].task)
       /\ out[c].picture \notin {Raw, frame[c]} =>
            Withdrawn(c) \/ WasMissed(shown[c], out[c].picture)

MissInv == AnswersAreOwed /\ StalePictureWasMissed /\ BorrowedPictureAlive

(* What is said of the frames shown stays true while they stay the same.   *)
LEMMA SameShown ==
  ASSUME StalePictureWasMissed, shown' = shown,
         \A d \in Cameras : Withdrawn(d) => Withdrawn(d)'
  PROVE  StalePictureWasMissed'
  BY DEF StalePictureWasMissed

LEMMA CaptureMissInv ==
  ASSUME TypeOK, RelayInv, MissInv, NEW c \in Cameras, CaptureFrame(c)
  PROVE  MissInv'
<1>1. Open' = Open
  BY DEF Open, CaptureFrame
<1>2. /\ infos' = infos /\ shown' = shown
      /\ \A d \in Cameras \ {c} : frame'[d] = frame[d] /\ pc'[d] = pc[d] /\ out'[d] = out[d]
      /\ pc[c] = "capture" /\ pc'[c] \in {"lock", "output"}
      /\ out'[c].picture = Raw
  BY DEF CaptureFrame, TypeOK, RelayInv, Shapes
<1>3. \A d \in Cameras : Withdrawn(d)' = Withdrawn(d)
  BY DEF CaptureFrame, Withdrawn
<1>4. AnswersAreOwed'
  <2>1. ASSUME NEW a \in Open PROVE Owed(a.cam, a.picture)'
    BY <1>2, <1>3, PictureTypes DEF MissInv, AnswersAreOwed, Owed, Inside
  <2> QED  BY <1>1, <1>2, <1>3, <2>1 DEF MissInv, AnswersAreOwed, Inside
<1>5. BorrowedPictureAlive'
  BY <1>2, <1>3 DEF MissInv, BorrowedPictureAlive
<1> QED  BY <1>2, <1>3, <1>4, <1>5, SameShown DEF MissInv

LEMMA SubmitMissInv ==
  ASSUME TypeOK, RelayInv, MissInv, NEW c \in Cameras, SubmitFrame(c)
  PROVE  MissInv'
<1> DEFINE r == [cam |-> c, picture |-> frame[c]]
<1>1. Open' = Open \cup {r}
  BY SubmitOpens
<1>2. /\ frame' = frame /\ shown' = shown /\ out' = out
      /\ pc[c] = "lock" /\ pc'[c] = "wait" /\ infos'[c].task = Raw
      /\ \A d \in Cameras \ {c} : pc'[d] = pc[d] /\ infos'[d] = infos[d]
  BY DEF SubmitFrame, NewEntry, TypeOK
<1>3. \A d \in Cameras : Withdrawn(d)' = Withdrawn(d)
  BY DEF SubmitFrame, Withdrawn
<1>4. AnswersAreOwed'
  <2>1. ASSUME NEW a \in Open PROVE Owed(a.cam, a.picture)'
    BY <1>2, <1>3, PictureTypes DEF MissInv, AnswersAreOwed, Owed, Inside
  <2>2. ASSUME NEW a, a = r PROVE Owed(a.cam, a.picture)'
    BY <1>2, <2>2 DEF Owed, Inside
  <2> HIDE DEF r
  <2>3. \A a \in Open' : Owed(a.cam, a.picture)'
    BY <1>1, <2>1, <2>2
  <2>4. \A d \in Cameras : Inside(d)' /\ infos'[d].task # Raw =>
          Withdrawn(d)' \/ infos'[d].task = frame'[d] \/ WasMissed(shown'[d], infos'[d].task)
    BY <1>2, <1>3 DEF MissInv, AnswersAreOwed, Inside
  <2>5. \A d \in Cameras : out'[d].picture \notin {Raw, frame'[d]} =>
          Withdrawn(d)' \/ WasMissed(shown'[d], out'[d].picture)
    BY <1>2, <1>3 DEF MissInv, AnswersAreOwed
  <2> QED  BY <2>3, <2>4, <2>5 DEF AnswersAreOwed
<1>5. BorrowedPictureAlive'
  BY <1>2, <1>3 DEF MissInv, BorrowedPictureAlive
<1> QED  BY <1>2, <1>3, <1>4, <1>5, SameShown DEF MissInv

(* A thread that leaves the wait without the picture of its frame misses   *)
(* it, for that is still open, and an open answer is in no entry.          *)
LEMMA ResumeMissInv ==
  ASSUME TypeOK, RelayInv, MissInv, NEW c \in Cameras, Resume(c)
  PROVE  MissInv'
<1>1. /\ Open' = Open /\ infos' = infos /\ frame' = frame /\ shown' = shown
      /\ \A d \in Cameras \ {c} : pc'[d] = pc[d] /\ out'[d] = out[d]
      /\ pc[c] = "woken"
  BY DEF Resume, Emit, Skip, Open, TypeOK
<1>2. \A d \in Cameras : Withdrawn(d)' = Withdrawn(d)
  BY DEF Resume, Withdrawn
<1>3. CASE Listed(c)
  <2>1. /\ pc'[c] = "output" /\ out'[c].frame = frame[c] /\ out'[c].picture = infos[c].task
        /\ out'[c].sent
    BY <1>3 DEF Resume, Emit, TypeOK
  <2>2. ASSUME NEW a \in Open PROVE Owed(a.cam, a.picture)'
    <3>1. a.cam \in Cameras /\ Owed(a.cam, a.picture) /\ infos[a.cam].task # a.picture
      BY PictureTypes DEF MissInv, AnswersAreOwed, RelayInv, AnswersAreFresh
    <3>2. CASE a.cam = c /\ a.picture = frame[c]
      BY <1>1, <2>1, <3>1, <3>2 DEF Owed, Missed
    <3> QED  BY <1>1, <1>2, <3>1, <3>2 DEF Owed, Inside
  <2>3. AnswersAreOwed'
    BY <1>1, <1>2, <2>1, <2>2 DEF MissInv, AnswersAreOwed, Inside
  <2>4. BorrowedPictureAlive'
    BY <1>1, <1>2, <2>1 DEF MissInv, BorrowedPictureAlive
  <2> QED  BY <1>1, <1>2, <2>3, <2>4, SameShown DEF MissInv
<1>4. CASE ~Listed(c)
  <2>1. pc'[c] = "capture" /\ out' = out /\ Withdrawn(c)
    BY <1>1, <1>4 DEF Resume, Skip, TypeOK, RelayInv, Shapes
  <2>2. ASSUME NEW a \in Open PROVE Owed(a.cam, a.picture)'
    BY <1>1, <1>2, <2>1, PictureTypes DEF MissInv, AnswersAreOwed, Owed, Inside
  <2>3. AnswersAreOwed'
    BY <1>1, <1>2, <2>1, <2>2 DEF MissInv, AnswersAreOwed, Inside
  <2>4. BorrowedPictureAlive'
    BY <1>1, <1>2, <2>1 DEF MissInv, BorrowedPictureAlive
  <2> QED  BY <1>1, <1>2, <2>3, <2>4, SameShown DEF MissInv
<1> QED  BY <1>3, <1>4

LEMMA ThreadMissInv ==
  ASSUME TypeOK, RelayInv, MissInv, NEW c \in Cameras,
         SubmitFails(c) \/ SpuriousWake(c) \/ AddItem(c)
  PROVE  MissInv'
<1>1. /\ Open' = Open /\ infos' = infos /\ frame' = frame /\ shown' = shown
      /\ \A d \in Cameras \ {c} : pc'[d] = pc[d] /\ out'[d] = out[d]
  BY DEF SubmitFails, SpuriousWake, AddItem, Open, TypeOK
<1>2. \A d \in Cameras : Withdrawn(d)' = Withdrawn(d)
  BY DEF SubmitFails, SpuriousWake, AddItem, Withdrawn, TypeOK
<1>3. \/ pc[c] = "lock" /\ pc'[c] = "output" /\ out'[c].picture = Raw
      \/ out'[c] = out[c] /\ (pc'[c] = pc[c] \/ (pc[c] = "wait" /\ pc'[c] = "woken"))
  BY DEF SubmitFails, SpuriousWake, AddItem, TypeOK
<1>4. AnswersAreOwed'
  <2>1. ASSUME NEW a \in Open PROVE Owed(a.cam, a.picture)'
    BY <1>1, <1>2, <1>3, PictureTypes DEF MissInv, AnswersAreOwed, Owed, Inside
  <2> QED  BY <1>1, <1>2, <1>3, <2>1 DEF MissInv, AnswersAreOwed, Inside
<1>5. BorrowedPictureAlive'
  BY <1>1, <1>2, <1>3 DEF MissInv, BorrowedPictureAlive
<1> QED  BY <1>1, <1>2, <1>4, <1>5, SameShown DEF MissInv

LEMMA OutputMissInv ==
  ASSUME TypeOK, RelayInv, MissInv, NEW c \in Cameras, OutputFrame(c)
  PROVE  MissInv'
<1>1. /\ Open' = Open /\ infos' = infos /\ frame' = frame
      /\ \A d \in Cameras \ {c} : pc'[d] = pc[d] /\ out'[d] = out[d] /\ shown'[d] = shown[d]
      /\ pc[c] = "output" /\ pc'[c] = "capture" /\ out'[c].picture = Raw
      /\ shown'[c] = Append(shown[c], out[c])
  BY DEF OutputFrame, Open, NoOutput, TypeOK
<1>2. \A d \in Cameras : Withdrawn(d)' = Withdrawn(d)
  BY DEF OutputFrame, Withdrawn
<1>3. out[c].frame = frame[c]
  BY <1>1 DEF RelayInv, Shapes
<1>4. /\ Len(shown[c]) \in Nat
      /\ DOMAIN shown'[c] = DOMAIN shown[c] \cup {Len(shown[c]) + 1}
      /\ shown'[c][Len(shown[c]) + 1] = out[c]
      /\ DOMAIN shown[c] = 1 .. Len(shown[c])
      /\ \A i \in DOMAIN shown[c] : shown'[c][i] = shown[c][i] /\ i < Len(shown[c]) + 1 /\ i \in Nat
  <2>1. shown[c] \in Seq(Output) /\ out[c] \in Output
    BY DEF TypeOK
  <2> QED  BY <1>1, <2>1, AppendedOutput
<1>5. /\ \A p : WasMissed(shown[c], p) => WasMissed(shown'[c], p)
      /\ Missed(out[c]) => WasMissed(shown'[c], frame[c])
  BY <1>3, <1>4 DEF WasMissed
<1>6. AnswersAreOwed'
  <2>1. ASSUME NEW a \in Open PROVE Owed(a.cam, a.picture)'
    <3>1. a.cam \in Cameras /\ Owed(a.cam, a.picture)
      BY PictureTypes DEF MissInv, AnswersAreOwed
    <3>2. CASE a.cam = c
      BY <1>1, <1>2, <1>5, <3>1, <3>2 DEF Owed, Inside
    <3>3. CASE a.cam # c
      BY <1>1, <1>2, <3>1, <3>3 DEF Owed, Inside
    <3> QED  BY <3>2, <3>3
  <2>2. \A d \in Cameras \ {c} : Inside(d)' = Inside(d)
    BY <1>1 DEF Inside
  <2>3. ~Inside(c)'
    BY <1>1 DEF Inside
  <2> QED  BY <1>1, <1>2, <2>1, <2>2, <2>3 DEF MissInv, AnswersAreOwed
<1>7. StalePictureWasMissed'
  <2> SUFFICES ASSUME NEW d \in Cameras, NEW i \in DOMAIN shown'[d],
                      shown'[d][i].picture \notin {Raw, shown'[d][i].frame}
               PROVE  \/ Withdrawn(d)'
                      \/ \E j \in 1 .. i - 1 : /\ shown'[d][j].frame = shown'[d][i].picture
                                               /\ Missed(shown'[d][j])
    BY DEF StalePictureWasMissed
  <2>1. CASE d # c
    BY <1>1, <1>2, <2>1 DEF MissInv, StalePictureWasMissed
  <2>2. CASE d = c /\ i \in DOMAIN shown[c]
    <3>1. \/ Withdrawn(c)
          \/ \E j \in 1 .. i - 1 : shown[c][j].frame = shown[c][i].picture /\ Missed(shown[c][j])
      BY <1>4, <2>2 DEF MissInv, StalePictureWasMissed
    <3>2. \A j \in 1 .. i - 1 : j \in DOMAIN shown[c]
      BY <1>4, <2>2
    <3> QED  BY <1>2, <1>4, <2>2, <3>1, <3>2
  <2>3. CASE d = c /\ i = Len(shown[c]) + 1
    <3>1. out[c].picture \notin {Raw, frame[c]}
      BY <1>3, <1>4, <2>3
    <3>2. Withdrawn(c) \/ WasMissed(shown[c], out[c].picture)
      BY <3>1 DEF MissInv, AnswersAreOwed
    <3>3. DOMAIN shown[c] = 1 .. i - 1
      BY <1>4, <2>3
    <3> QED  BY <1>2, <1>4, <2>3, <3>2, <3>3 DEF WasMissed
  <2> QED  BY <1>4, <2>1, <2>2, <2>3
<1>8. BorrowedPictureAlive'
  BY <1>1, <1>2 DEF MissInv, BorrowedPictureAlive
<1> QED  BY <1>6, <1>7, <1>8 DEF MissInv

(* An answer that comes while the thread outputs another picture is owed   *)
(* to a frame that went without it: the thread's own, or an earlier one.   *)
LEMMA OutsideMissInv ==
  ASSUME TypeOK, RelayInv, MissInv, OutsideStep
  PROVE  MissInv'
<1>1. /\ frame' = frame /\ out' = out /\ shown' = shown /\ Open' \subseteq Open
      /\ \A d \in Cameras : /\ pc'[d] = pc[d] \/ (pc[d] = "wait" /\ pc'[d] = "woken")
                            /\ Withdrawn(d) => Withdrawn(d)'
  BY DEF OutsideStep
<1>2. \A d \in Cameras : Inside(d)' = Inside(d) /\ (pc'[d] = "output" <=> pc[d] = "output")
  BY <1>1 DEF Inside
<1>3. ASSUME NEW d \in Cameras
      PROVE  \/ infos'[d] = infos[d]
             \/ infos'[d].task = Raw /\ Withdrawn(d)'
             \/ infos'[d].task \in Nat /\ Owed(d, infos'[d].task)
  <2>1. CASE infos'[d] = NoEntry /\ Withdrawn(d)'
    BY <2>1 DEF NoEntry
  <2>2. ASSUME NEW a \in Open, a.cam = d,
               infos'[d] = [frame |-> infos[d].frame, task |-> a.picture]
        PROVE  infos'[d].task \in Nat /\ Owed(d, infos'[d].task)
    BY <2>2, PictureTypes DEF MissInv, AnswersAreOwed
  <2> QED  BY <2>1, <2>2 DEF OutsideStep
<1>4. AnswersAreOwed'
  <2>1. ASSUME NEW a \in Open PROVE Owed(a.cam, a.picture)'
    BY <1>1, <1>2, PictureTypes DEF MissInv, AnswersAreOwed, Owed
  <2>2. ASSUME NEW d \in Cameras, Inside(d), infos'[d].task # Raw
        PROVE  Withdrawn(d)' \/ infos'[d].task = frame[d] \/ WasMissed(shown[d], infos'[d].task)
    BY <1>1, <1>3, <2>2 DEF MissInv, AnswersAreOwed, Owed, Inside
  <2> QED  BY <1>1, <1>2, <2>1, <2>2 DEF MissInv, AnswersAreOwed
<1>5. BorrowedPictureAlive'
  <2> SUFFICES ASSUME NEW d \in Cameras, pc[d] = "output", out[d].picture # Raw
               PROVE  \/ infos'[d].task = out[d].picture
                      \/ Withdrawn(d)'
                      \/ Missed(out[d])
                      \/ \E i \in DOMAIN shown[d] : Missed(shown[d][i])
    BY <1>1, <1>2 DEF BorrowedPictureAlive
  <2>1. CASE infos'[d] = infos[d]
    BY <1>1, <2>1 DEF MissInv, BorrowedPictureAlive
  <2>2. CASE Owed(d, infos'[d].task)
    BY <1>1, <2>2 DEF Owed, Inside, WasMissed
  <2> QED  BY <1>3, <2>1, <2>2
<1> QED  BY <1>1, <1>4, <1>5, SameShown DEF MissInv

LEMMA MissInvariant == Spec => []MissInv
<1>1. Init => MissInv
  <2> SUFFICES ASSUME Init PROVE MissInv
    OBVIOUS
  <2>1. Open = {}
    BY DEF Init, Open
  <2>2. \A c \in Cameras : shown[c] = <<>> /\ pc[c] = "capture" /\ out[c].picture = Raw
    BY DEF Init, NoOutput
  <2> QED  BY <2>1, <2>2 DEF MissInv, AnswersAreOwed, StalePictureWasMissed,
     BorrowedPictureAlive, Inside
<1>2. TypeOK /\ RelayInv /\ MissInv /\ [Next]_vars => MissInv'
  BY CaptureMissInv, SubmitMissInv, ResumeMissInv, ThreadMissInv, OutputMissInv,
     OutsideSteps, OutsideMissInv DEF Next, Camera, RelayInv
<1> QED
  BY <1>1, <1>2, TypeCorrect, RelayInvariant, PTL DEF Spec

(* An answer names its camera and not its frame: whatever the host does,   *)
(* it is put on a later frame only if the wait of its own returned early.  *)
THEOREM StaleOnlyAfterMissing == Spec => []StalePictureWasMissed
<1>1. MissInv => StalePictureWasMissed
  BY DEF MissInv
<1> QED
  BY <1>1, MissInvariant, PTL

(* The memory of a picture that is being output is kept by its entry, as   *)
(* long as no wait of the camera returned early and it is not withdrawn.   *)
THEOREM BorrowedStaysAlive == Spec => []BorrowedPictureAlive
<1>1. MissInv => BorrowedPictureAlive
  BY DEF MissInv
<1> QED
  BY <1>1, MissInvariant, PTL

-----------------------------------------------------------------------------
(* A host that answers each camera in order: the pictures never go back.   *)

(* The answers of one camera are on their way in the order of its frames.  *)
QueueInOrder ==
  /\ \A r \in requests : \A i \in DOMAIN tasks :
       r.cam = tasks[i].cam => tasks[i].picture < r.picture
  /\ \A i, j \in DOMAIN tasks :
       i < j /\ tasks[i].cam = tasks[j].cam /\ tasks[j].picture # Raw
         => tasks[i].picture < tasks[j].picture

After(s, p) == \A i \in DOMAIN s : s[i].picture < p

(* What is open comes after all that was attached, taken out and shown.    *)
ShownInOrder ==
  /\ \A a \in Open : /\ infos[a.cam].task < a.picture
                     /\ out[a.cam].picture < a.picture
                     /\ After(shown[a.cam], a.picture)
  /\ \A c \in Cameras :
       /\ Inside(c) /\ infos[c].task # Raw => After(shown[c], infos[c].task)
       /\ out[c].picture # Raw => After(shown[c], out[c].picture)

OrderInv == QueueInOrder /\ ShownInOrder /\ PicturesNeverRewind

LEMMA TaskTypes ==
  ASSUME TypeOK
  PROVE  /\ \A i \in DOMAIN tasks : tasks[i] \in Answer /\ i \in Nat
                                     /\ tasks[i].cam \in Cameras /\ tasks[i].picture \in Nat
         /\ \A r \in requests : r \in Answer /\ r.cam \in Cameras /\ r.picture \in Nat
<1>1. tasks \in Seq(Answer) /\ requests \subseteq Answer
  BY DEF TypeOK
<1>2. \A i \in DOMAIN tasks : tasks[i] \in Answer /\ i \in Nat
  BY <1>1
<1> QED  BY <1>1, <1>2, AnswerTypes

LEMMA HostKeepsOrder ==
  ASSUME TypeOK, HostInOrder, Posted, QueueInOrder, NEW r \in requests, Host(r)
  PROVE  QueueInOrder'
<1>1. r \in Answer /\ r.picture # Raw /\ tasks \in Seq(Answer)
  BY DEF TypeOK, Posted
<1>2. CASE HostAnswer(r)
  <2>1. /\ requests' = requests \ {r} /\ tasks' = Append(tasks, r)
        /\ \A q \in requests : q.cam = r.cam => r.picture <= q.picture
    BY <1>2 DEF HostAnswer
  <2>2. \A i \in DOMAIN tasks' : \/ i = Len(tasks) + 1 /\ tasks'[i] = r
                                 \/ i \in DOMAIN tasks /\ i < Len(tasks) + 1 /\ tasks'[i] = tasks[i]
    BY <1>1, <2>1, AppendedTask
  <2>3. ASSUME NEW q \in requests, q # r, q.cam = r.cam PROVE r.picture < q.picture
    <3>1. r.picture # q.picture
      BY <1>1, <2>3, TaskTypes DEF Answer
    <3> QED  BY <2>1, <2>3, <3>1, TaskTypes
  <2>4. \A q \in requests' : \A i \in DOMAIN tasks' :
          q.cam = tasks'[i].cam => tasks'[i].picture < q.picture
    BY <2>1, <2>2, <2>3 DEF QueueInOrder
  <2>5. ASSUME NEW i \in DOMAIN tasks', NEW j \in DOMAIN tasks', i < j,
               tasks'[i].cam = tasks'[j].cam, tasks'[j].picture # Raw
        PROVE  tasks'[i].picture < tasks'[j].picture
    <3>1. Len(tasks) \in Nat /\ i \in DOMAIN tasks /\ tasks'[i] = tasks[i]
      BY <1>1, <2>2, <2>5, TaskTypes
    <3> QED  BY <2>2, <2>5, <3>1 DEF QueueInOrder
  <2> QED  BY <2>4, <2>5 DEF QueueInOrder
<1>3. CASE HostAnswerUnreadable(r)
  <2> DEFINE a == [cam |-> r.cam, picture |-> Raw]
  <2>1. requests' = requests \ {r} /\ tasks' = Append(tasks, a)
    BY <1>3 DEF HostAnswerUnreadable
  <2>2. a \in Answer /\ a.picture = Raw
    BY <1>1 DEF Answer, Pictures
  <2> HIDE DEF a
  <2>3. \A i \in DOMAIN tasks' : \/ i = Len(tasks) + 1 /\ tasks'[i] = a
                                 \/ i \in DOMAIN tasks /\ i < Len(tasks) + 1 /\ tasks'[i] = tasks[i]
    BY <1>1, <2>1, <2>2, AppendedTask
  <2>4. \A q \in requests : q.picture # Raw /\ Raw < q.picture
    BY TaskTypes DEF Posted, Raw
  <2>5. \A q \in requests' : \A i \in DOMAIN tasks' :
          q.cam = tasks'[i].cam => tasks'[i].picture < q.picture
    BY <2>1, <2>2, <2>3, <2>4 DEF QueueInOrder
  <2>6. ASSUME NEW i \in DOMAIN tasks', NEW j \in DOMAIN tasks', i < j,
               tasks'[i].cam = tasks'[j].cam, tasks'[j].picture # Raw
        PROVE  tasks'[i].picture < tasks'[j].picture
    <3>1. j \in DOMAIN tasks /\ tasks'[j] = tasks[j] /\ j < Len(tasks) + 1
      BY <2>2, <2>3, <2>6
    <3>2. i \in DOMAIN tasks /\ tasks'[i] = tasks[i]
      <4>1. Len(tasks) \in Nat /\ j \in Nat
        BY <1>1, <3>1, TaskTypes
      <4> QED  BY <2>3, <2>6, <3>1, <4>1
    <3> QED  BY <2>6, <3>1, <3>2 DEF QueueInOrder
  <2> QED  BY <2>5, <2>6 DEF QueueInOrder
<1>4. CASE HostIgnore(r)
  BY <1>4 DEF HostIgnore, QueueInOrder
<1> QED  BY <1>2, <1>3, <1>4 DEF Host

LEMMA WakeKeepsOrder ==
  ASSUME TypeOK, QueueInOrder, WakeCameraVideoBeautify
  PROVE  /\ QueueInOrder'
         /\ \A b \in Open' : b.cam = Head(tasks).cam => Head(tasks).picture < b.picture
<1>1. tasks \in Seq(Answer) /\ tasks # <<>> /\ tasks' = Tail(tasks) /\ requests' = requests
  BY DEF TypeOK, WakeCameraVideoBeautify
<1>2. /\ 1 \in DOMAIN tasks /\ Head(tasks) = tasks[1]
      /\ \A i \in DOMAIN tasks' : i + 1 \in DOMAIN tasks /\ tasks'[i] = tasks[i + 1]
  BY <1>1, RemainingTask
<1>3. \A i \in DOMAIN tasks' : i \in Nat /\ 1 < i + 1
  BY <1>1
<1>4. \A i, j \in DOMAIN tasks' : i < j => i + 1 < j + 1
  BY <1>3
<1>5. QueueInOrder'
  BY <1>1, <1>2, <1>4 DEF QueueInOrder
<1>6. ASSUME NEW b \in Open', b.cam = Head(tasks).cam
      PROVE  Head(tasks).picture < b.picture
  <2>1. CASE b \in requests
    BY <1>2, <1>6, <2>1 DEF QueueInOrder
  <2>2. ASSUME NEW i \in DOMAIN tasks', tasks'[i] = b, b.picture # Raw
        PROVE  Head(tasks).picture < b.picture
    BY <1>2, <1>3, <1>6, <2>2 DEF QueueInOrder
  <2> QED  BY <1>1, <2>1, <2>2 DEF Open
<1> QED  BY <1>5, <1>6

LEMMA CaptureOrderInv ==
  ASSUME TypeOK, RelayInv, OrderInv, NEW c \in Cameras, CaptureFrame(c)
  PROVE  OrderInv'
<1>1. /\ requests' = requests /\ tasks' = tasks /\ infos' = infos /\ shown' = shown
      /\ \A d \in Cameras \ {c} : pc'[d] = pc[d] /\ out'[d] = out[d]
      /\ out[c].picture = Raw /\ out'[c].picture = Raw /\ ~Inside(c)'
  BY DEF CaptureFrame, TypeOK, RelayInv, Shapes, Inside
<1>2. Open' = Open /\ QueueInOrder' /\ PicturesNeverRewind'
  BY <1>1 DEF Open, OrderInv, QueueInOrder, PicturesNeverRewind
<1>3. \A d \in Cameras : out'[d].picture = out[d].picture
  BY <1>1
<1>4. \A d \in Cameras : Inside(d)' => Inside(d)
  BY <1>1 DEF Inside
<1> QED  BY <1>1, <1>2, <1>3, <1>4, PictureTypes DEF OrderInv, ShownInOrder

LEMMA SubmitOrderInv ==
  ASSUME TypeOK, RelayInv, OrderInv, NEW c \in Cameras, SubmitFrame(c)
  PROVE  OrderInv'
<1> DEFINE r == [cam |-> c, picture |-> frame[c]]
<1>1. Open' = Open \cup {r} /\ requests' = requests \cup {r} /\ tasks' = tasks
  BY SubmitOpens DEF SubmitFrame
<1>2. /\ frame' = frame /\ shown' = shown /\ out' = out
      /\ pc[c] = "lock" /\ infos'[c].task = Raw
      /\ \A d \in Cameras \ {c} : pc'[d] = pc[d] /\ infos'[d] = infos[d]
  BY DEF SubmitFrame, NewEntry, TypeOK
<1>3. frame[c] \in Nat /\ Raw < frame[c]
  BY <1>2, PictureTypes DEF TypeOK, Raw
<1>4. QueueInOrder'
  <2>1. \A i \in DOMAIN tasks : tasks[i].cam = c => tasks[i].picture < frame[c]
    <3> SUFFICES ASSUME NEW i \in DOMAIN tasks, tasks[i].cam = c PROVE tasks[i].picture < frame[c]
      OBVIOUS
    <3>1. tasks[i].picture \in Nat
      BY TaskTypes
    <3>2. CASE tasks[i].picture = Raw
      BY <1>3, <3>2
    <3>3. CASE tasks[i].picture # Raw
      <4>1. tasks[i].picture <= frame[c] /\ tasks[i].picture # frame[c]
        BY <1>2, <3>3 DEF RelayInv, PicturesArePast, Past, Open
      <4> QED  BY <1>3, <3>1, <4>1
    <3> QED  BY <3>2, <3>3
  <2> QED  BY <1>1, <2>1 DEF OrderInv, QueueInOrder
<1>5. ShownInOrder'
  <2>1. /\ infos'[c].task < frame[c] /\ out'[c].picture < frame[c] /\ After(shown'[c], frame[c])
    BY <1>2, <1>3, PictureTypes DEF RelayInv, Shapes, PicturesArePast, Past, After
  <2>2. ASSUME NEW a \in Open
        PROVE  /\ infos'[a.cam].task < a.picture /\ out'[a.cam].picture < a.picture
               /\ After(shown'[a.cam], a.picture)
    <3>1. Raw < a.picture /\ a.cam \in Cameras
      BY PictureTypes, OpenNotRaw DEF RelayInv, Raw
    <3> QED  BY <1>2, <3>1 DEF OrderInv, ShownInOrder
  <2>3. \A a \in Open' : /\ infos'[a.cam].task < a.picture /\ out'[a.cam].picture < a.picture
                         /\ After(shown'[a.cam], a.picture)
    BY <1>1, <2>1, <2>2
  <2>4. \A d \in Cameras : Inside(d)' /\ infos'[d].task # Raw => After(shown'[d], infos'[d].task)
    BY <1>2 DEF OrderInv, ShownInOrder, Inside
  <2> QED  BY <1>2, <2>3, <2>4 DEF OrderInv, ShownInOrder
<1>6. PicturesNeverRewind'
  BY <1>2 DEF OrderInv, PicturesNeverRewind
<1> QED  BY <1>4, <1>5, <1>6 DEF OrderInv

LEMMA ThreadOrderInv ==
  ASSUME TypeOK, RelayInv, OrderInv, NEW c \in Cameras,
         SubmitFails(c) \/ SpuriousWake(c) \/ Resume(c) \/ AddItem(c)
  PROVE  OrderInv'
<1>1. /\ requests' = requests /\ tasks' = tasks /\ infos' = infos /\ shown' = shown
      /\ \A d \in Cameras \ {c} : pc'[d] = pc[d] /\ out'[d] = out[d]
  BY DEF SubmitFails, SpuriousWake, Resume, Emit, Skip, AddItem, TypeOK
<1>2. Open' = Open /\ QueueInOrder' /\ PicturesNeverRewind'
  BY <1>1 DEF Open, OrderInv, QueueInOrder, PicturesNeverRewind
<1>3. /\ \/ out'[c].picture = Raw
         \/ out'[c] = out[c]
         \/ Inside(c) /\ out'[c].picture = infos[c].task
      /\ Inside(c)' => Inside(c)
  BY DEF SubmitFails, SpuriousWake, Resume, Emit, Skip, AddItem, TypeOK, Inside
<1>4. \A a \in Open : out'[a.cam].picture < a.picture
  <2>1. \A a \in Open : Raw < a.picture /\ a.cam \in Cameras
    BY PictureTypes, OpenNotRaw DEF RelayInv, Raw
  <2> QED  BY <1>1, <1>3, <2>1 DEF OrderInv, ShownInOrder
<1>5. \A d \in Cameras : out'[d].picture # Raw => After(shown[d], out'[d].picture)
  BY <1>1, <1>3 DEF OrderInv, ShownInOrder
<1>6. \A d \in Cameras : Inside(d)' => Inside(d)
  BY <1>1, <1>3 DEF Inside
<1> QED  BY <1>1, <1>2, <1>4, <1>5, <1>6 DEF OrderInv, ShownInOrder

LEMMA OutputOrderInv ==
  ASSUME TypeOK, RelayInv, OrderInv, NEW c \in Cameras, OutputFrame(c)
  PROVE  OrderInv'
<1>1. /\ requests' = requests /\ tasks' = tasks /\ infos' = infos
      /\ \A d \in Cameras \ {c} : pc'[d] = pc[d] /\ out'[d] = out[d] /\ shown'[d] = shown[d]
      /\ pc[c] = "output" /\ pc'[c] = "capture" /\ out'[c].picture = Raw
      /\ shown'[c] = Append(shown[c], out[c])
  BY DEF OutputFrame, NoOutput, TypeOK
<1>2. Open' = Open /\ QueueInOrder'
  BY <1>1 DEF Open, OrderInv, QueueInOrder
<1>3. /\ Len(shown[c]) \in Nat
      /\ DOMAIN shown'[c] = DOMAIN shown[c] \cup {Len(shown[c]) + 1}
      /\ shown'[c][Len(shown[c]) + 1] = out[c]
      /\ \A i \in DOMAIN shown[c] : shown'[c][i] = shown[c][i] /\ i < Len(shown[c]) + 1 /\ i \in Nat
  <2>1. shown[c] \in Seq(Output) /\ out[c] \in Output
    BY DEF TypeOK
  <2> QED  BY <1>1, <2>1, AppendedOutput
<1>4. ASSUME NEW a \in Open
      PROVE  /\ infos'[a.cam].task < a.picture /\ out'[a.cam].picture < a.picture
             /\ After(shown'[a.cam], a.picture)
  <2>1. /\ Raw < a.picture /\ a.cam \in Cameras /\ infos[a.cam].task < a.picture
        /\ out[a.cam].picture < a.picture /\ After(shown[a.cam], a.picture)
    BY PictureTypes, OpenNotRaw DEF RelayInv, Raw, OrderInv, ShownInOrder
  <2>2. CASE a.cam = c
    BY <1>1, <1>3, <2>1, <2>2 DEF After
  <2> QED  BY <1>1, <2>1, <2>2
<1>5. ShownInOrder'
  <2>1. \A d \in Cameras : Inside(d)' => Inside(d) /\ d # c
    BY <1>1 DEF Inside
  <2>2. \A d \in Cameras : out'[d].picture # Raw => d # c
    BY <1>1
  <2> QED  BY <1>1, <1>2, <1>4, <2>1, <2>2 DEF OrderInv, ShownInOrder
<1>6. PicturesNeverRewind'
  <2> SUFFICES ASSUME NEW d \in Cameras, NEW i \in DOMAIN shown'[d], NEW j \in DOMAIN shown'[d],
                      i < j, shown'[d][i].picture # Raw, shown'[d][j].picture # Raw
               PROVE  shown'[d][i].picture < shown'[d][j].picture
    BY DEF PicturesNeverRewind
  <2>1. CASE d # c
    BY <1>1, <2>1 DEF OrderInv, PicturesNeverRewind
  <2>2. CASE d = c /\ j \in DOMAIN shown[c]
    <3>1. i \in DOMAIN shown[c]
      BY <1>3, <2>2
    <3> QED  BY <1>3, <2>2, <3>1 DEF OrderInv, PicturesNeverRewind
  <2>3. CASE d = c /\ j = Len(shown[c]) + 1
    <3>1. i \in DOMAIN shown[c]
      BY <1>3, <2>3
    <3> QED  BY <1>3, <2>3, <3>1 DEF OrderInv, ShownInOrder, After
  <2> QED  BY <1>3, <2>1, <2>2, <2>3
<1> QED  BY <1>2, <1>5, <1>6 DEF OrderInv

LEMMA OutsideOrderInv ==
  ASSUME TypeOK, RelayInv, OrderInv, OutsideStep, QueueInOrder',
         \A a \in Open' : infos'[a.cam].task < a.picture
  PROVE  OrderInv'
<1>1. /\ frame' = frame /\ out' = out /\ shown' = shown /\ Open' \subseteq Open
      /\ \A d \in Cameras : Inside(d)' => Inside(d)
  BY DEF OutsideStep, Inside
<1>2. ASSUME NEW d \in Cameras, Inside(d), infos'[d].task # Raw
      PROVE  After(shown[d], infos'[d].task)
  <2>1. CASE infos'[d] = infos[d]
    BY <1>2, <2>1 DEF OrderInv, ShownInOrder
  <2>2. CASE infos'[d] = NoEntry
    BY <1>2, <2>2 DEF NoEntry
  <2>3. ASSUME NEW a \in Open, a.cam = d,
               infos'[d] = [frame |-> infos[d].frame, task |-> a.picture]
        PROVE  After(shown[d], infos'[d].task)
    BY <2>3 DEF OrderInv, ShownInOrder
  <2> QED  BY <2>1, <2>2, <2>3 DEF OutsideStep
<1>3. PicturesNeverRewind'
  BY <1>1 DEF OrderInv, PicturesNeverRewind
<1> QED  BY <1>1, <1>2, <1>3 DEF OrderInv, ShownInOrder

LEMMA NextOrderInv ==
  ASSUME TypeOK, RelayInv, OrderInv, HostInOrder, [Next]_vars
  PROVE  OrderInv'
<1>1. Posted /\ QueueInOrder
  BY DEF RelayInv, OrderInv
<1>2. ASSUME NEW r \in requests, Host(r) PROVE OrderInv'
  <2>1. infos' = infos /\ Open' \subseteq Open
    BY <1>1, <1>2, HostKeepsOpen DEF Host, HostAnswer, HostAnswerUnreadable, HostIgnore
  <2>2. OutsideStep /\ QueueInOrder'
    BY <1>1, <1>2, OutsideSteps, HostKeepsOrder
  <2> QED  BY <2>1, <2>2, OutsideOrderInv DEF OrderInv, ShownInOrder
(* The pool runs the oldest answer, which comes before all still open. *)
<1>3. CASE WakeCameraVideoBeautify
  <2>1. OutsideStep /\ QueueInOrder'
    BY <1>1, <1>3, OutsideSteps, WakeKeepsOrder
  <2>2. ASSUME NEW a \in Open' PROVE infos'[a.cam].task < a.picture
    <3>1. a \in Open /\ a.cam \in Cameras /\ infos[a.cam].task < a.picture
      BY <1>1, <1>3, WakeCloses, PictureTypes DEF OrderInv, ShownInOrder
    <3>2. Head(tasks).cam = a.cam => Head(tasks).picture < a.picture
      BY <1>1, <1>3, WakeKeepsOrder
    <3>3. infos' = Attach(Head(tasks)) /\ Head(tasks) \in Answer
      BY <1>1, <1>3, WakeCloses DEF WakeCameraVideoBeautify
    <3>4. infos'[a.cam] = infos[a.cam]
          \/ (Head(tasks).cam = a.cam /\ infos'[a.cam].task = Head(tasks).picture)
      <4> DEFINE h == Head(tasks)
      <4>1. h \in Answer /\ infos' = Attach(h)
        BY <3>3
      <4> HIDE DEF h
      <4>2. infos'[a.cam] = infos[a.cam] \/ (h.cam = a.cam /\ infos'[a.cam].task = h.picture)
        <5>1. ASSUME NEW d \in Cameras
              PROVE  Attach(h)[d] = infos[d] \/ (h.cam = d /\ Attach(h)[d].task = h.picture)
          <6>1. \/ Attach(h)[d] = infos[d]
                \/ h.cam = d /\ Attach(h)[d] = [frame |-> infos[d].frame, task |-> h.picture]
            BY <4>1, <5>1, AttachEffect, Zenon
          <6> QED  BY <6>1
        <5> QED  BY <3>1, <4>1, <5>1
      <4> QED  BY <4>2 DEF h
    <3> QED  BY <3>1, <3>2, <3>4
  <2> QED  BY <2>1, <2>2, OutsideOrderInv
<1>4. CASE \/ \E c \in Cameras : CameraVideoBeautifyDestory(c)
           \/ CameraVideoBeautifyIsWorking
           \/ CameraVideoBeautifyDestoryAll
           \/ UNCHANGED vars
  <2>1. requests' = requests /\ tasks' = tasks
    BY <1>4 DEF CameraVideoBeautifyDestory, CameraVideoBeautifyIsWorking,
       CameraVideoBeautifyDestoryAll, vars
  <2>2. OutsideStep /\ QueueInOrder' /\ Open' = Open
    BY <1>1, <1>4, <2>1, OutsideSteps DEF QueueInOrder, Open
  <2>3. \A d \in Cameras : infos'[d] = infos[d] \/ infos'[d] = NoEntry
    BY <1>4 DEF CameraVideoBeautifyDestory, CameraVideoBeautifyIsWorking,
       CameraVideoBeautifyDestoryAll,
         vars, TypeOK
  <2>4. ASSUME NEW a \in Open' PROVE infos'[a.cam].task < a.picture
    <3>1. /\ a.cam \in Cameras /\ infos[a.cam].task < a.picture /\ Raw < a.picture
      BY <1>1, <2>2, PictureTypes, OpenNotRaw DEF OrderInv, ShownInOrder, Raw
    <3> QED  BY <2>3, <3>1 DEF NoEntry
  <2> QED  BY <2>2, <2>4, OutsideOrderInv
<1>5. ASSUME NEW c \in Cameras, Camera(c), ~CameraVideoBeautifyDestory(c) PROVE OrderInv'
  BY <1>5, CaptureOrderInv, SubmitOrderInv, ThreadOrderInv, OutputOrderInv DEF Camera
<1> QED  BY <1>2, <1>3, <1>4, <1>5 DEF Next, Camera

(* If the host answers each camera's requests in their order, the pictures *)
(* a camera outputs never go back in time, with any number of cameras and  *)
(* whatever else fails.                                                    *)
THEOREM PicturesGoForward == HostInOrder => (Spec => []PicturesNeverRewind)
<1> SUFFICES ASSUME HostInOrder PROVE Spec => []PicturesNeverRewind
  OBVIOUS
<1>1. Init => OrderInv
  <2> SUFFICES ASSUME Init PROVE OrderInv
    OBVIOUS
  <2>1. Open = {} /\ tasks = <<>> /\ requests = {}
    BY DEF Init, Open
  <2>2. \A c \in Cameras : shown[c] = <<>> /\ pc[c] = "capture" /\ out[c].picture = Raw
    BY DEF Init, NoOutput
  <2> QED  BY <2>1, <2>2 DEF OrderInv, QueueInOrder, ShownInOrder, PicturesNeverRewind, Inside
<1>2. TypeOK /\ RelayInv /\ OrderInv /\ [Next]_vars => OrderInv'
  BY NextOrderInv
<1>3. OrderInv => PicturesNeverRewind
  BY DEF OrderInv
<1> QED
  BY <1>1, <1>2, <1>3, TypeCorrect, RelayInvariant, PTL DEF Spec

-----------------------------------------------------------------------------
(* One camera and a host that answers: each picture on its frame.          *)

(* The camera will not send a frame again, and nothing waits.              *)
Over(c) ==
  /\ item[c] = "removed" \/ uninit # "no"
  /\ pc[c] \notin {"lock", "wait"}
  /\ pc[c] = "woken" => ~Listed(c)

(* Until then an answer is open only while its own frame waits, and the    *)
(* thread is woken by it.                                                  *)
Punctual ==
  /\ \A i \in DOMAIN tasks : tasks[i].picture # Raw
  /\ \A a \in Open : (a.picture = frame[a.cam] /\ pc[a.cam] = "wait") \/ Over(a.cam)
  /\ \A c \in Cameras : /\ pc[c] = "woken" /\ Listed(c) => infos[c].task = frame[c]
                        /\ ~Missed(out[c])
                        /\ \A i \in DOMAIN shown[c] : ~Missed(shown[c][i])

PunctualInv == ~fake => Punctual

LEMMA NothingOpen ==
  ASSUME TypeOK, Punctual, NEW c \in Cameras, Cameras = {c},
         \/ pc[c] = "lock"
         \/ pc[c] = "woken" /\ Listed(c)
         \/ pc[c] # "wait" /\ item[c] # "removed" /\ uninit = "no"
  PROVE  Open = {}
<1>1. \A a \in Open : a.cam = c
  BY PictureTypes
<1> QED  BY <1>1 DEF Punctual, Over

LEMMA ThreadPunctual ==
  ASSUME TypeOK, RelayInv, PunctualInv, NEW c \in Cameras, Cameras = {c},
         Camera(c), ~CameraVideoBeautifyDestory(c), ~fake'
  PROVE  Punctual'
<1>1. \A a \in Open : a.cam = c
  BY PictureTypes
<1>2. CASE CaptureFrame(c)
  <2>1. /\ Punctual /\ Open' = Open /\ tasks' = tasks /\ infos' = infos /\ shown' = shown
        /\ item' = item /\ uninit' = uninit
    BY <1>2 DEF CaptureFrame, PunctualInv, Open
  <2>2. pc[c] = "capture" /\ pc'[c] \in {"lock", "output"} /\ ~Missed(out'[c])
    BY <1>2, <2>1 DEF CaptureFrame, TypeOK, Missed, Punctual
  <2>3. ASSUME NEW a \in Open PROVE Over(c)'
    <3>1. Over(c)
      BY <1>1, <2>1, <2>2 DEF Punctual
    <3> QED  BY <1>2, <2>2, <3>1 DEF Over, CaptureFrame, IsWorking, TypeOK
  <2> QED  BY <1>1, <2>1, <2>2, <2>3 DEF Punctual
<1>3. CASE SubmitFrame(c)
  <2>1. /\ Punctual /\ tasks' = tasks /\ shown' = shown /\ out' = out /\ frame' = frame
        /\ pc[c] = "lock" /\ pc'[c] = "wait"
    BY <1>3 DEF SubmitFrame, PunctualInv, TypeOK
  <2>2. \A a \in Open' : a.cam = c /\ a.picture = frame[c]
    BY <1>3, <2>1, SubmitOpens, NothingOpen
  <2> QED  BY <2>1, <2>2 DEF Punctual
<1>4. CASE SubmitFails(c)
  <2>1. /\ Punctual /\ Open' = Open /\ tasks' = tasks /\ shown' = shown /\ frame' = frame
        /\ pc[c] = "lock" /\ pc'[c] = "output" /\ ~Missed(out'[c])
    BY <1>4 DEF SubmitFails, PunctualInv, TypeOK, Missed, Open
  <2>2. Open = {}
    BY <2>1, NothingOpen
  <2> QED  BY <2>1, <2>2 DEF Punctual
<1>5. CASE SpuriousWake(c)
  BY <1>5 DEF SpuriousWake
<1>6. CASE Resume(c) /\ Listed(c)
  <2>1. /\ Punctual /\ Open' = Open /\ tasks' = tasks /\ shown' = shown /\ frame' = frame
        /\ pc[c] = "woken" /\ pc'[c] = "output"
        /\ out'[c].picture = infos[c].task /\ out'[c].frame = frame[c]
    BY <1>6 DEF Resume, Emit, PunctualInv, TypeOK, Open
  <2>2. Open = {} /\ infos[c].task = frame[c]
    BY <1>6, <2>1, NothingOpen DEF Punctual
  <2> QED  BY <2>1, <2>2 DEF Punctual, Missed
<1>7. CASE Resume(c) /\ ~Listed(c)
  <2>1. /\ Punctual /\ Open' = Open /\ tasks' = tasks /\ shown' = shown /\ out' = out
        /\ pc[c] = "woken" /\ pc'[c] = "capture" /\ item' = item /\ uninit' = uninit
    BY <1>7 DEF Resume, Skip, PunctualInv, TypeOK, Open
  <2>2. ASSUME NEW a \in Open PROVE Over(c)'
    BY <1>1, <2>1 DEF Punctual, Over
  <2> QED  BY <1>1, <2>1, <2>2 DEF Punctual
<1>8. CASE OutputFrame(c)
  <2>1. /\ Punctual /\ Open' = Open /\ tasks' = tasks /\ infos' = infos
        /\ pc[c] = "output" /\ pc'[c] = "capture" /\ item' = item /\ uninit' = uninit
        /\ shown'[c] = Append(shown[c], out[c]) /\ ~Missed(out'[c])
    BY <1>8 DEF OutputFrame, NoOutput, Missed, PunctualInv, TypeOK, Open
  <2>2. ASSUME NEW a \in Open PROVE Over(c)'
    BY <1>1, <2>1 DEF Punctual, Over
  <2>3. ASSUME NEW i \in DOMAIN shown'[c] PROVE ~Missed(shown'[c][i])
    <3>1. shown[c] \in Seq(Output) /\ out[c] \in Output
      BY DEF TypeOK
    <3>2. \/ i \in DOMAIN shown[c] /\ shown'[c][i] = shown[c][i]
          \/ shown'[c][i] = out[c]
      BY <2>1, <3>1, AppendedOutput
    <3> QED  BY <2>1, <3>2 DEF Punctual
  <2> QED  BY <1>1, <2>1, <2>2, <2>3 DEF Punctual
<1>9. CASE AddItem(c)
  <2>1. /\ Punctual /\ Open' = Open /\ tasks' = tasks /\ infos' = infos /\ frame' = frame
        /\ shown' = shown /\ out' = out /\ pc' = pc /\ uninit' = uninit /\ item[c] = "none"
    BY <1>9 DEF AddItem, PunctualInv, Open
  <2>2. Over(c) => Over(c)'
    BY <2>1 DEF Over, Listed
  <2> QED  BY <1>1, <2>1, <2>2 DEF Punctual, Listed
<1> QED  BY <1>2, <1>3, <1>4, <1>5, <1>6, <1>7, <1>8, <1>9 DEF Camera

(* Without a frame that waits, all that is open comes too late to be seen. *)
LEMMA WakePunctual ==
  ASSUME TypeOK, RelayInv, PunctualInv, NEW c \in Cameras, Cameras = {c},
         WakeCameraVideoBeautify, ~fake'
  PROVE  Punctual'
<1> DEFINE h == Head(tasks)
<1>1. /\ Punctual /\ frame' = frame /\ out' = out /\ shown' = shown
      /\ item' = item /\ uninit' = uninit /\ infos' = Attach(h) /\ NotifyOne
      /\ tasks # <<>> /\ tasks' = Tail(tasks)
  BY DEF WakeCameraVideoBeautify, PunctualInv
<1>2. /\ \A a \in Open : a.cam = c /\ a \in Answer
      /\ Open' \subseteq Open /\ h \in Open /\ h \notin Open'
      /\ \A i \in DOMAIN tasks' : tasks'[i].picture # Raw
  <2>1. tasks \in Seq(Answer)
    BY DEF TypeOK
  <2>2. /\ 1 \in DOMAIN tasks /\ h = tasks[1]
        /\ \A i \in DOMAIN Tail(tasks) : i + 1 \in DOMAIN tasks /\ Tail(tasks)[i] = tasks[i + 1]
    BY <1>1, <2>1, RemainingTask
  <2>3. h.picture # Raw
    BY <1>1, <2>2 DEF Punctual
  <2>4. \A i \in DOMAIN tasks' : tasks'[i].picture # Raw
    BY <1>1, <2>2 DEF Punctual
  <2> QED  BY <2>3, <2>4, WakeCloses, PictureTypes, OpenAnswers DEF RelayInv
<1>3. \/ infos'[c] = infos[c]
      \/ Listed(c) /\ infos'[c] = [frame |-> infos[c].frame, task |-> h.picture]
  <2> HIDE DEF h
  <2> QED  BY <1>1, <1>2, AttachEffect
<1> HIDE DEF h
<1>4. CASE pc[c] = "wait"
  <2>1. \A a \in Open : a.picture = frame[c]
    BY <1>1, <1>2, <1>4 DEF Punctual, Over
  <2>2. Open' = {}
    <3>1. ASSUME NEW a \in Open' PROVE FALSE
      <4>1. a \in Answer /\ h \in Answer /\ a.cam = h.cam /\ a.picture = h.picture
        BY <1>2, <2>1
      <4>2. a = h
        BY <4>1 DEF Answer
      <4> QED  BY <1>2, <4>2
    <3> QED  BY <3>1
  <2>3. pc'[c] = "woken"
    BY <1>1, <1>4 DEF NotifyOne, Waiting, TypeOK
  <2>4. Listed(c)' => infos'[c].task = frame[c]
    <3>1. h.picture = frame[c] /\ h.cam = c /\ h.picture # Raw
      BY <1>2, <2>1, OpenNotRaw DEF RelayInv
    <3>2. Listed(c) => infos'[c].task = h.picture
      BY <1>1, <3>1 DEF Attach, TypeOK
    <3> QED  BY <1>3, <3>1, <3>2 DEF Listed
  <2> QED  BY <1>1, <1>2, <2>2, <2>3, <2>4 DEF Punctual
<1>5. CASE pc[c] # "wait"
  <2>1. Over(c) /\ pc' = pc
    BY <1>1, <1>2, <1>5 DEF Punctual, NotifyOne, Waiting
  <2>2. Listed(c)' => Listed(c)
    BY <1>3 DEF Listed
  <2>3. Over(c)' /\ ~(pc'[c] = "woken" /\ Listed(c)')
    BY <1>1, <2>1, <2>2 DEF Over
  <2> QED  BY <1>1, <1>2, <2>3 DEF Punctual
<1> QED  BY <1>4, <1>5

LEMMA HostPunctual ==
  ASSUME TypeOK, RelayInv, PunctualInv, ~HostMayFail, NEW r \in requests, Host(r), ~fake'
  PROVE  Punctual'
<1>1. /\ Punctual /\ tasks' = Append(tasks, r)
      /\ UNCHANGED <<pc, frame, item, uninit, infos, out, shown>>
  BY DEF Host, HostAnswer, HostAnswerUnreadable, HostIgnore, PunctualInv
<1>2. Open' \subseteq Open
  BY HostKeepsOpen DEF RelayInv
<1>3. \A i \in DOMAIN tasks' : tasks'[i].picture # Raw
  <2>1. r \in Answer /\ tasks \in Seq(Answer) /\ r.picture # Raw
    BY DEF TypeOK, RelayInv, Posted
  <2>2. \A i \in DOMAIN tasks' : tasks'[i] = r \/ (i \in DOMAIN tasks /\ tasks'[i] = tasks[i])
    BY <1>1, <2>1, AppendedTask
  <2> QED  BY <1>1, <2>1, <2>2 DEF Punctual
<1> QED  BY <1>1, <1>2, <1>3 DEF Punctual, Over, Listed

LEMMA ScenePunctual ==
  ASSUME TypeOK, RelayInv, PunctualInv, NEW c \in Cameras, Cameras = {c}, ~fake',
         \/ CameraVideoBeautifyDestory(c)
         \/ CameraVideoBeautifyIsWorking
         \/ CameraVideoBeautifyDestoryAll
         \/ UNCHANGED vars
  PROVE  Punctual'
<1>1. /\ Punctual /\ Open' = Open /\ tasks' = tasks
      /\ UNCHANGED <<frame, out, shown>>
  BY DEF CameraVideoBeautifyDestory, CameraVideoBeautifyIsWorking,
     CameraVideoBeautifyDestoryAll, vars,
         PunctualInv, Open
<1>2. \A a \in Open : a.cam = c
  BY PictureTypes
<1>3. CASE CameraVideoBeautifyDestory(c) \/ CameraVideoBeautifyDestoryAll
  <2>1. ~Listed(c)' /\ (item'[c] = "removed" \/ uninit' # "no")
    BY <1>3 DEF CameraVideoBeautifyDestory, CameraVideoBeautifyDestoryAll, Listed, NoEntry, TypeOK
  <2>2. pc'[c] # "wait" /\ (pc'[c] = "lock" => pc[c] = "lock")
    BY <1>3 DEF CameraVideoBeautifyDestory, CameraVideoBeautifyDestoryAll, NotifyOne, NotifyAll,
         Waiting, TypeOK
  <2>3. Open # {} => Over(c)'
    BY <1>1, <2>1, <2>2, NothingOpen DEF Over
  <2> QED  BY <1>1, <1>2, <2>1, <2>3 DEF Punctual
<1>4. CASE CameraVideoBeautifyIsWorking \/ UNCHANGED vars
  <2>1. /\ UNCHANGED <<pc, item, infos>>
        /\ uninit # "no" => uninit' # "no"
    BY <1>4 DEF CameraVideoBeautifyIsWorking, vars
  <2> QED  BY <1>1, <2>1 DEF Punctual, Over, Listed
<1> QED  BY <1>3, <1>4

LEMMA NextPunctualInv ==
  ASSUME TypeOK, RelayInv, PunctualInv, ~HostMayFail, NEW c, Cameras = {c}, [Next]_vars
  PROVE  PunctualInv'
<1> SUFFICES ASSUME ~fake' PROVE Punctual'
  BY DEF PunctualInv
<1>1. c \in Cameras
  OBVIOUS
<1>2. ASSUME NEW d \in Cameras, Camera(d) PROVE Punctual'
  BY <1>1, <1>2, ThreadPunctual, ScenePunctual
<1> QED  BY <1>1, <1>2, HostPunctual, WakePunctual, ScenePunctual DEF Next

(* With one camera and a host that answers each request, in order, every   *)
(* frame that is sent comes out with its own picture, unless a wait has    *)
(* returned without a notification; and the pictures keep their order.     *)
THEOREM PicturesStayInStep ==
  (\E c : Cameras = {c}) /\ HostInOrder /\ ~HostMayFail => (Spec => []PicturesInStep)
<1> SUFFICES ASSUME NEW CONSTANT c, Cameras = {c}, HostInOrder, ~HostMayFail
             PROVE  Spec => []PicturesInStep
  OBVIOUS
<1>1. Init => PunctualInv
  BY DEF Init, PunctualInv, Punctual, Open, NoOutput, Missed
<1>2. TypeOK /\ RelayInv /\ PunctualInv /\ [Next]_vars => PunctualInv'
  BY NextPunctualInv
<1>3. PunctualInv /\ PicturesNeverRewind => PicturesInStep
  BY DEF PunctualInv, Punctual, PicturesInStep, EveryPictureOnItsFrame
<1>4. Spec => []PicturesNeverRewind
  BY PicturesGoForward
<1> QED
  BY <1>1, <1>2, <1>3, <1>4, TypeCorrect, RelayInvariant, PTL DEF Spec

-----------------------------------------------------------------------------
(* The filters of an audio device: types.                                  *)
Message == [Kinds -> Levels \cup {Off}]
Signalled == [at : {"idle", "gen", "fill", "send"}, msg : Message]
Editing ==
  [at : {"idle", "filter", "added", "removed", "set", "save", "gen", "answer"},
   kind : Kinds \cup {None}, level : Levels \cup {Off}, msg : Message]

FilterTypes ==
  /\ created \in 0 .. MaxFilters /\ filters \in SUBSET (1 .. created)
  /\ kind \in [Ids -> Kinds] /\ level \in [Ids -> Levels]
  /\ filterinfos \in [Kinds -> {None} \cup 1 .. created]
  /\ \A k \in Kinds : filterinfos[k] # None => kind[filterinfos[k]] = k
  /\ saved.filters \in SUBSET (1 .. created) /\ saved.level \in [Ids -> Levels]

ThreadTypes ==
  /\ sig \in [Signallers -> Signalled]
  /\ pool \in Editing
  /\ asked \in [Kinds -> Levels \cup {Off, None}]
  /\ turns \in Nat

FlagsAreFlags ==
  /\ is_initialize_ \in BOOLEAN /\ entry \in BOOLEAN /\ fresh \in BOOLEAN
  /\ hurried \in BOOLEAN /\ unsaved \in BOOLEAN
  /\ crossed \in BOOLEAN /\ misused \in BOOLEAN

(* What an edit of the pool is about, at each of its steps.                *)
EditKnows ==
  /\ InDevice => pool.kind \in Kinds /\ entry
  /\ pool.at \in {"added", "set"} => pool.level \in Levels
  /\ pool.at = "removed" => pool.level = Off
  /\ pool.at = "added" => created \in filters /\ kind[created] = pool.kind
  /\ pool.at = "idle" => pool = PoolIdle

DeviceTypes == FilterTypes /\ ThreadTypes /\ FlagsAreFlags /\ EditKnows

LEMMA NewestIsOne ==
  ASSUME NEW n \in Nat, NEW S \in SUBSET (1 .. n), S # {}
  PROVE  Max(S) \in S
<1> DEFINE HasMax(T) == \E x \in T : \A y \in T : x >= y
           Bad == {T \in SUBSET S : T # {} /\ ~HasMax(T)}
<1>1. IsFiniteSet(S)
  <2>1. IsFiniteSet(1 .. n)
    BY FS_Interval
  <2> QED BY <2>1, FS_Subset
<1>2. IsWellFoundedOn(StrictSubsetOrdering(S), SUBSET S)
  BY <1>1, FS_StrictSubsetOrderingWellFounded, FS_FiniteSubsetsOfFinite
<1>3. Bad = {}
  <2> SUFFICES ASSUME Bad # {} PROVE FALSE
    OBVIOUS
  <2>1. PICK T \in Bad : \A U \in Bad : ~(<<U, T>> \in StrictSubsetOrdering(S))
    <3> Bad \subseteq SUBSET S
      OBVIOUS
    <3> HIDE DEF Bad
    <3> QED BY <1>2, WFMin
  <2>2. PICK x \in T : TRUE
    OBVIOUS
  <2> DEFINE U == T \ {x}
  <2>3. T \subseteq S /\ x \in Int /\ U \in SUBSET S /\ U # T /\ \A y \in T : y \in Int
    BY <2>2
  <2>4. <<U, T>> \in StrictSubsetOrdering(S)
    BY <2>3 DEF StrictSubsetOrdering
  <2>5. U = {} \/ HasMax(U)
    BY <2>1, <2>3, <2>4
  <2>6. HasMax(T)
    <3>1. CASE U = {}
      BY <2>2, <2>3, <3>1
    <3>2. CASE HasMax(U)
      <4>1. PICK m \in U : \A y \in U : m >= y
        BY <3>2
      <4>2. \A y \in T : y = x \/ y \in U
        OBVIOUS
      <4>3. CASE m >= x
        BY <2>3, <4>1, <4>2, <4>3
      <4>4. CASE ~(m >= x)
        <5>1. \A y \in T : x >= y
          BY <2>3, <4>1, <4>2, <4>4
        <5> QED BY <2>2, <5>1
      <4> QED BY <4>3, <4>4
    <3> QED BY <2>5, <3>1, <3>2
  <2> QED BY <2>1, <2>6
<1>4. HasMax(S)
  BY <1>3
<1> QED BY <1>4 DEF Max

(* Steps that leave the filters alone leave each kind's alone.             *)
LevelsOf(k) == {level[i] : i \in On(k)}

LEMMA SameFilters ==
  ASSUME UNCHANGED <<filters, kind, level>>
  PROVE  \A k \in Kinds : On(k)' = On(k) /\ LevelsOf(k)' = LevelsOf(k)
BY DEF On, LevelsOf

(* What UpdateFilters finds of each kind.                                  *)
LEMMA UpdateTypes ==
  ASSUME DeviceTypes
  PROVE  /\ UpdateFilters \in [Kinds -> {None} \cup 1 .. created]
         /\ \A k \in Kinds :
              /\ On(k) = {} => UpdateFilters[k] = filterinfos[k]
              /\ On(k) # {} => UpdateFilters[k] \in On(k)
              /\ UpdateFilters[k] # None => kind[UpdateFilters[k]] = k
<1>1. \A k \in Kinds : UpdateFilters[k] = IF On(k) = {} THEN filterinfos[k] ELSE Max(On(k))
  BY DEF UpdateFilters, On
<1>2. created \in Nat /\ \A k \in Kinds : On(k) \in SUBSET (1 .. created)
  <2>1. MaxFilters \in Nat /\ created \in 0 .. MaxFilters /\ filters \in SUBSET (1 .. created)
    BY BoundsAssumption DEF DeviceTypes, FilterTypes
  <2>2. \A k \in Kinds : \A i \in On(k) : i \in 1 .. created
    BY <2>1 DEF On
  <2> QED BY <2>1, <2>2
<1>3. \A k \in Kinds : On(k) # {} => Max(On(k)) \in On(k)
  BY <1>2, NewestIsOne
<1>4. \A k \in Kinds : On(k) # {} => Max(On(k)) \in 1 .. created /\ kind[Max(On(k))] = k
  BY <1>2, <1>3 DEF On
<1>5. UpdateFilters = [k \in Kinds |-> UpdateFilters[k]]
  BY DEF UpdateFilters
<1> HIDE DEF UpdateFilters
<1> QED
  BY <1>1, <1>3, <1>4, <1>5 DEF DeviceTypes, FilterTypes

(* A message has the levels of the filters the entry knows.                *)
LEMMA MessageTypes ==
  ASSUME DeviceTypes, NEW known \in [Kinds -> {None} \cup 1 .. created]
  PROVE  SetFiltersValue(known) \in Message
<1>1. \A k \in Kinds : known[k] # None => known[k] \in Ids
  BY BoundsAssumption DEF DeviceTypes, FilterTypes, Ids
<1>2. \A k \in Kinds : known[k] # None => level[known[k]] \in Levels
  BY <1>1 DEF DeviceTypes, FilterTypes
<1> QED
  BY <1>2 DEF SetFiltersValue, Message

LEMMA FiltersInitTypes == FiltersInit => DeviceTypes
<1> SUFFICES ASSUME FiltersInit PROVE DeviceTypes
  OBVIOUS
<1>1. filters = {} \/ (filters = {1} /\ 1 \in Ids)
  BY DEF FiltersInit
<1>2. Cardinality(filters) = IF filters = {} THEN 0 ELSE 1
  BY <1>1, FS_EmptySet, FS_Singleton
<1>3. created \in 0 .. MaxFilters /\ filters \in SUBSET (1 .. created)
  BY <1>1, <1>2, BoundsAssumption DEF FiltersInit, Ids
<1>4. FilterTypes
  BY <1>3, LevelsAssumption DEF FiltersInit, FilterTypes, NoFilters
<1>5. AllOff \in Message
  BY DEF AllOff, Message
<1>6. ThreadTypes
  BY <1>5 DEF FiltersInit, ThreadTypes, Idle, PoolIdle, Signalled, Editing, NoFilters
<1>7. FlagsAreFlags
  BY DEF FiltersInit, FlagsAreFlags
<1>8. EditKnows
  BY DEF FiltersInit, EditKnows, PoolIdle, InDevice
<1> QED
  BY <1>4, <1>6, <1>7, <1>8 DEF DeviceTypes

LEMMA SignalTypes ==
  ASSUME DeviceTypes, Signal
  PROVE  DeviceTypes'
<1> USE DEF DeviceTypes, ThreadTypes, FlagsAreFlags, EditKnows, Signalled, SigAt, InDevice,
   history
<1>1. ASSUME NEW s \in Signallers, ActivateAudioSource(s) \/ DeactivateAudioSource(s)
      PROVE  DeviceTypes'
  <2>1. /\ \E there \in {"gen", "fill"} :
              sig' = [sig EXCEPT ![s] = [at |-> there, msg |-> sig[s].msg]]
        /\ turns' = turns + 1
        /\ UNCHANGED <<is_initialize_, libobs, table, pool, saved, told, history>>
    BY <1>1 DEF ActivateAudioSource, DeactivateAudioSource
  <2>2. sig' \in [Signallers -> Signalled] /\ turns' \in Nat
    BY <2>1
  <2>3. FilterTypes'
    BY <2>1 DEF FilterTypes, libobs, table
  <2> QED
    BY <2>1, <2>2, <2>3 DEF libobs, table, told
<1>2. ASSUME NEW s \in Signallers, GenDeviceInfo(s)
      PROVE  DeviceTypes'
  BY <1>2 DEF GenDeviceInfo, libobs, told, counts, FilterTypes, NoFilters
<1>3. ASSUME NEW s \in Signallers, GenObsDeviceMessage(s)
      PROVE  DeviceTypes'
  <2>1. /\ filterinfos' = UpdateFilters
        /\ sig' = [sig EXCEPT ![s] = [at |-> "send", msg |-> SetFiltersValue(filterinfos')]]
        /\ UNCHANGED <<is_initialize_, libobs, entry, pool, saved, told, counts, hurried, unsaved>>
        /\ fresh' = FALSE /\ misused' \in BOOLEAN /\ crossed' \in BOOLEAN
    BY <1>3 DEF GenObsDeviceMessage
  <2>2. /\ filterinfos' \in [Kinds -> {None} \cup 1 .. created]
        /\ \A k \in Kinds : filterinfos'[k] # None => kind[filterinfos'[k]] = k
    BY <2>1, UpdateTypes
  <2>3. SetFiltersValue(filterinfos') \in Message
    BY <2>2, MessageTypes
  <2> HIDE DEF SetFiltersValue, UpdateFilters
  <2>4. FilterTypes'
    BY <2>1, <2>2 DEF FilterTypes, libobs
  <2> QED
    BY <2>1, <2>3, <2>4 DEF libobs, told, counts
<1>4. ASSUME NEW s \in Signallers, SendDeviceMessage(s)
      PROVE  DeviceTypes'
  BY <1>4 DEF SendDeviceMessage, libobs, table, counts, FilterTypes
<1> QED
  BY <1>1, <1>2, <1>3, <1>4 DEF Signal

(* Of the pool's steps, those that change filters or their entries.        *)
LEMMA FilterStepTypes ==
  ASSUME DeviceTypes, AddFilterInfo \/ AddFilter \/ SetLevel \/ RemoveFilterInfo \/ RemoveFilter
  PROVE  DeviceTypes'
<1> USE BoundsAssumption, LevelsAssumption
    DEF DeviceTypes, ThreadTypes, FlagsAreFlags, EditKnows, FilterTypes, Editing, PoolAt,
       InDevice,
        history
<1>1. CASE AddFilterInfo
  <2>1. /\ created' = created + 1 /\ created' \in Ids /\ created \in Nat
        /\ kind' = [kind EXCEPT ![created'] = pool.kind]
        /\ level' = [level EXCEPT ![created'] = Default]
        /\ filters' = filters \cup {created'}
        /\ pool.kind \in Kinds /\ pool.level \in Levels
        /\ pool' = [pool EXCEPT !.at = "added"]
        /\ UNCHANGED <<is_initialize_, table, sig, saved, told, counts,
                       fresh, unsaved, crossed, misused>>
        /\ hurried' \in BOOLEAN
    BY <1>1 DEF AddFilterInfo, MustAdd, Ids
  <2>2. 1 .. created \subseteq 1 .. created' /\ created' \notin 1 .. created
        /\ created' \in 1 .. created' /\ created' \in 0 .. MaxFilters
    BY <2>1 DEF Ids
  <2>3. kind' \in [Ids -> Kinds] /\ level' \in [Ids -> Levels] /\ kind'[created'] = pool.kind
        /\ \A i \in 1 .. created : kind'[i] = kind[i]
    BY <2>1, <2>2
  <2>4. FilterTypes'
    <3>1. filters' \in SUBSET (1 .. created') /\ saved'.filters \in SUBSET (1 .. created')
      BY <2>1, <2>2
    <3>2. filterinfos' \in [Kinds -> {None} \cup 1 .. created']
      BY <2>1, <2>2 DEF table
    <3>3. \A k \in Kinds : filterinfos'[k] # None => kind'[filterinfos'[k]] = k
      <4>1. filterinfos' = filterinfos /\ filterinfos \in [Kinds -> {None} \cup 1 .. created]
        BY <2>1 DEF table
      <4> QED
        BY <2>3, <4>1
    <3> QED
      BY <2>1, <2>2, <2>3, <3>1, <3>2, <3>3
  <2>5. EditKnows'
    <3>1. pool'.at = "added" /\ pool'.kind = pool.kind /\ pool'.level = pool.level
      BY <2>1
    <3>2. entry' /\ created' \in filters'
      BY <1>1, <2>1 DEF table, AddFilterInfo
    <3> QED
      BY <2>1, <2>3, <3>1, <3>2
  <2> QED
    BY <2>1, <2>4, <2>5 DEF table, told, counts
<1>2. CASE AddFilter
  <2>1. created \in 1 .. created
    BY <1>2 DEF AddFilter
  <2> QED
    BY <1>2, <2>1 DEF AddFilter, libobs, told, counts
<1>3. CASE SetLevel
  <2>1. /\ level' = [level EXCEPT ![filterinfos[pool.kind]] = pool.level] /\ pool.level \in Levels
        /\ pool' = [pool EXCEPT !.at = "save"]
        /\ crossed' \in BOOLEAN
    BY <1>3 DEF SetLevel
  <2> QED
    BY <1>3, <2>1 DEF SetLevel, table, told, counts
<1>4. CASE RemoveFilterInfo
  BY <1>4 DEF RemoveFilterInfo, table, told, counts
<1>5. CASE RemoveFilter
  BY <1>5 DEF RemoveFilter, ForgetFilter, libobs, told, counts
<1> QED
  BY <1>1, <1>2, <1>3, <1>4, <1>5

LEMMA OtherStepTypes ==
  ASSUME DeviceTypes,
         \/ \E k \in Kinds, l \in Levels \cup {Off} : SetDeviceValue(k, l)
         \/ SetDeviceId \/ SetKnown \/ RemoveNothing
         \/ SaveProject \/ UpdateInputInfo \/ GenAnswer \/ AnswerDevice
         \/ Initialized \/ SaveOther \/ Restart \/ UNCHANGED filterVars
  PROVE  DeviceTypes'
<1> USE DEF DeviceTypes, ThreadTypes, FlagsAreFlags, EditKnows, Editing, PoolAt, InDevice, history
<1>1. AllOff \in Message
  BY DEF AllOff, Message
<1>2. ASSUME NEW k \in Kinds, NEW l \in Levels \cup {Off}, SetDeviceValue(k, l) PROVE DeviceTypes'
  BY <1>1, <1>2 DEF SetDeviceValue, PoolIdle, libobs, table, told, FilterTypes
<1>3. CASE SetDeviceId \/ UpdateInputInfo
  BY <1>1, <1>3 DEF SetDeviceId, UpdateInputInfo, PoolIdle, libobs, table, told, FilterTypes
<1>4. CASE SetKnown
  BY <1>4 DEF SetKnown, libobs, table, told, counts, FilterTypes
<1>5. CASE RemoveNothing
  BY <1>5 DEF RemoveNothing, libobs, table, told, counts, FilterTypes
<1>6. CASE SaveProject \/ SaveOther
  <2>1. /\ saved' = saved \/ saved' = [filters |-> filters, level |-> level]
        /\ pool' = pool \/ (pool.at = "save" /\ pool' = [pool EXCEPT !.at = "gen"])
        /\ UNCHANGED <<is_initialize_, libobs, table, sig, told, counts,
                       fresh, hurried, crossed, misused>>
        /\ unsaved' \in BOOLEAN
    BY <1>6 DEF SaveProject, SaveOther
  <2>2. FilterTypes'
    BY <2>1 DEF libobs, table, FilterTypes
  <2> QED
    BY <2>1, <2>2 DEF libobs, table, told, counts
<1>7. CASE GenAnswer
  <2>1. SetFiltersValue(filterinfos) \in Message
    BY MessageTypes DEF FilterTypes
  <2> QED
    BY <1>7, <2>1 DEF GenAnswer, libobs, table, told, counts, FilterTypes
<1>8. CASE AnswerDevice
  <2>1. asked' \in [Kinds -> Levels \cup {Off, None}]
    BY <1>8 DEF AnswerDevice
  <2> QED
    BY <1>1, <1>8, <2>1 DEF AnswerDevice, PoolIdle, libobs, table, counts, FilterTypes
<1>9. CASE Initialized \/ UNCHANGED filterVars
  <2>1. /\ UNCHANGED <<libobs, table, sig, pool, saved, told, counts, history>>
        /\ is_initialize_' \in BOOLEAN
    BY <1>9 DEF Initialized, filterVars
  <2>2. FilterTypes'
    BY <2>1 DEF libobs, table, FilterTypes
  <2> QED
    BY <2>1, <2>2 DEF libobs, table, told, counts
<1>10. CASE Restart
  BY <1>1, <1>10 DEF Restart, PoolIdle, Idle, NoFilters, Signalled, counts, FilterTypes
<1> QED
  BY <1>2, <1>3, <1>4, <1>5, <1>6, <1>7, <1>8, <1>9, <1>10

LEMMA FiltersNextTypes == DeviceTypes /\ [FiltersNext]_filterVars => DeviceTypes'
BY SignalTypes, FilterStepTypes, OtherStepTypes DEF FiltersNext, Edit

-----------------------------------------------------------------------------
(* The entry knows the filter of each kind.  Signals first: a report is    *)
(* under way only with an entry, and whoever made the entry fills it.      *)
Entered ==
  /\ \A s \in Signallers : sig[s].at \in {"fill", "send"} => entry
  /\ fresh => \E s \in Signallers : sig[s].at = "fill"

LEMMA EnteredNext ==
  ASSUME DeviceTypes, Entered, [FiltersNext]_filterVars
  PROVE  Entered'
<1> USE DEF Entered
<1>1. sig \in [Signallers -> Signalled]
  BY DEF DeviceTypes, ThreadTypes
<1>2. ASSUME NEW s \in Signallers, ActivateAudioSource(s) \/ DeactivateAudioSource(s)
      PROVE  Entered'
  <2>1. /\ sig[s].at = "idle" /\ entry' = entry /\ fresh' = fresh
        /\ \/ entry /\ sig' = [sig EXCEPT ![s] = [at |-> "fill", msg |-> sig[s].msg]]
           \/ sig' = [sig EXCEPT ![s] = [at |-> "gen", msg |-> sig[s].msg]]
    BY <1>2 DEF ActivateAudioSource, DeactivateAudioSource, SigAt, table, history
  <2> QED
    BY <1>1, <2>1
<1>3. ASSUME NEW s \in Signallers, GenDeviceInfo(s)
      PROVE  Entered'
  BY <1>1, <1>3 DEF GenDeviceInfo, SigAt
<1>4. ASSUME NEW s \in Signallers, GenObsDeviceMessage(s)
      PROVE  Entered'
  BY <1>1, <1>4 DEF GenObsDeviceMessage
<1>5. ASSUME NEW s \in Signallers, SendDeviceMessage(s)
      PROVE  Entered'
  BY <1>1, <1>5 DEF SendDeviceMessage, SigAt, table, history
<1>6. CASE Edit
  <2>1. UNCHANGED <<entry, fresh, sig>>
    BY <1>6
    DEF Edit, SetDeviceValue, SetDeviceId, SetKnown, AddFilterInfo, AddFilter, SetLevel,
        RemoveNothing, RemoveFilterInfo, RemoveFilter, SaveProject, UpdateInputInfo, GenAnswer,
        AnswerDevice, PoolAt, table, history
  <2> QED
    BY <2>1
<1>7. CASE Initialized \/ SaveOther \/ UNCHANGED filterVars
  BY <1>7 DEF Initialized, SaveOther, filterVars, table, history
<1>8. CASE Restart
  BY <1>8 DEF Restart, Idle
<1> QED
  BY <1>2, <1>3, <1>4, <1>5, <1>6, <1>7, <1>8 DEF FiltersNext, Signal

(* Of each kind the entry has the filter that is there, but for the moment *)
(* between a change of the filters and its signal.                         *)
One(S) == \A i, j \in S : kind[i] = kind[j] => i = j
Adding(k) == pool.at = "added" /\ pool.kind = k
Removing(k) == pool.at = "removed" /\ pool.kind = k
Knows(k) ==
  /\ Adding(k) => On(k) = {created} /\ filterinfos[k] \in {None, created}
  /\ Removing(k) => On(k) = {}
  /\ ~Adding(k) /\ ~Removing(k) => On(k) = {filterinfos[k]} \ {None}
Unread == filterinfos = NoFilters /\ pool.at \notin {"added", "removed", "set"}

OneInv == One(filters) /\ One(saved.filters)
EntryInv ==
  IF fresh THEN Unread
           ELSE /\ entry => \A k \in Kinds : Knows(k)
                /\ pool.at = "set" => filterinfos[pool.kind] # None
KnownInv == ~hurried => OneInv /\ (~misused => EntryInv)

LEMMA SignalKnows ==
  ASSUME DeviceTypes, Entered, KnownInv, Signal, ~hurried
  PROVE  KnownInv'
<1>1. OneInv /\ EntryInv /\ ~misused
  BY DEF KnownInv, Signal, ActivateAudioSource, DeactivateAudioSource, GenDeviceInfo,
         GenObsDeviceMessage, SendDeviceMessage, SigAt
<1>2. UNCHANGED <<filters, kind, level, created, saved, pool, hurried>>
  BY DEF Signal, ActivateAudioSource, DeactivateAudioSource, GenDeviceInfo,
         GenObsDeviceMessage, SendDeviceMessage, libobs, history
<1>3. OneInv'
  BY <1>1, <1>2 DEF OneInv, One
<1>4. \A k \in Kinds : On(k)' = On(k)
  BY <1>2, SameFilters
<1> SUFFICES ASSUME ~misused' PROVE EntryInv'
  BY <1>3 DEF KnownInv
<1>5. ASSUME NEW s \in Signallers, GenDeviceInfo(s) PROVE EntryInv'
  <2>1. fresh' /\ filterinfos' = NoFilters /\ ~(entry /\ InDevice)
    BY <1>5 DEF GenDeviceInfo
  <2>2. pool.at \notin {"added", "removed", "set"}
    BY <2>1 DEF InDevice, DeviceTypes, EditKnows
  <2> QED
    BY <1>2, <2>1, <2>2 DEF EntryInv, Unread, NoFilters
<1>6. ASSUME NEW s \in Signallers, GenObsDeviceMessage(s) PROVE EntryInv'
  <2>1. /\ filterinfos' = UpdateFilters /\ fresh' = FALSE
        /\ ~(pool.at = "set" /\ UpdateFilters[pool.kind] # None)
    BY <1>6 DEF GenObsDeviceMessage
  <2>2. ASSUME NEW k \in Kinds
        PROVE  \/ On(k) = {} /\ filterinfos'[k] = filterinfos[k]
               \/ On(k) = {filterinfos'[k]} /\ filterinfos'[k] # None
    <3>1. CASE On(k) = {}
      BY <2>1, <3>1, UpdateTypes
    <3>2. CASE On(k) # {}
      <4>1. filterinfos'[k] \in On(k) /\ filterinfos'[k] \in Nat
        <5>1. filterinfos'[k] \in On(k)
          BY <2>1, <3>2, UpdateTypes
        <5>2. filterinfos'[k] \in filters /\ filters \in SUBSET (1 .. created)
          BY <5>1 DEF On, DeviceTypes, FilterTypes
        <5>3. created \in Int
          BY BoundsAssumption DEF DeviceTypes, FilterTypes
        <5>4. filterinfos'[k] \in 1 .. created
          BY <5>2
        <5> HIDE <5>2
        <5> QED
          BY <5>1, <5>3, <5>4
      <4>2. \A i, j \in On(k) : i = j
        BY <1>1 DEF OneInv, One, On
      <4>3. filterinfos'[k] # None
        BY <4>1, NoneAssumption
      <4> QED
        BY <4>1, <4>2, <4>3
    <3> QED
      BY <3>1, <3>2
  <2>3. pool.at # "set"
    <3> SUFFICES ASSUME pool.at = "set" PROVE FALSE
      OBVIOUS
    <3>1. ~fresh /\ filterinfos[pool.kind] # None /\ pool.kind \in Kinds
      BY <1>1 DEF EntryInv, Unread, DeviceTypes, EditKnows, InDevice
    <3> QED
      BY <2>1, <2>2, <3>1
  <2>4. ASSUME NEW k \in Kinds PROVE Knows(k)'
    <3>1. CASE fresh
      <4>1. ~Adding(k) /\ ~Removing(k) /\ filterinfos[k] = None
        BY <1>1, <3>1 DEF EntryInv, Unread, NoFilters, Adding, Removing
      <4> QED
        BY <1>2, <1>4, <2>2, <4>1 DEF Knows, Adding, Removing
    <3>2. CASE ~fresh
      <4>1. Knows(k)
        BY <1>1, <1>6, <3>2 DEF EntryInv, Entered, GenObsDeviceMessage
      <4> QED
        BY <1>2, <1>4, <2>2, <4>1 DEF Knows, Adding, Removing
    <3> QED
      BY <3>1, <3>2
  <2> QED
    BY <1>2, <2>1, <2>3, <2>4 DEF EntryInv
<1>7. CASE \E s \in Signallers :
             ActivateAudioSource(s) \/ DeactivateAudioSource(s) \/ SendDeviceMessage(s)
  <2>1. UNCHANGED <<entry, filterinfos, fresh>>
    BY <1>7 DEF ActivateAudioSource, DeactivateAudioSource, SendDeviceMessage, table, history
  <2> QED
    BY <1>1, <1>2, <1>4, <2>1 DEF EntryInv, Unread, Knows, Adding, Removing, NoFilters
<1> QED
  BY <1>5, <1>6, <1>7 DEF Signal

(* The steps of the pool by which filters come and go.                     *)
LEMMA AddKnows ==
  ASSUME DeviceTypes, KnownInv, AddFilterInfo, ~hurried'
  PROVE  KnownInv'
<1>1. /\ ~hurried /\ ~fresh /\ ~misused /\ OneInv /\ EntryInv
      /\ UNCHANGED <<filterinfos, entry, saved, fresh, misused>>
  BY DEF AddFilterInfo, PoolAt, KnownInv, DeviceTypes, FlagsAreFlags, table
<1>2. /\ created' = created + 1 /\ created' \in Ids /\ created \in Nat
      /\ kind' = [kind EXCEPT ![created'] = pool.kind]
      /\ filters' = filters \cup {created'}
      /\ pool.at = "filter" /\ pool.kind \in Kinds /\ entry
      /\ filterinfos[pool.kind] = None
      /\ pool'.at = "added" /\ pool'.kind = pool.kind
  BY BoundsAssumption
  DEF AddFilterInfo, PoolAt, MustAdd, Ids, DeviceTypes, FilterTypes, ThreadTypes, EditKnows,
      InDevice, Editing
<1>3. /\ created' \notin filters /\ created' \notin saved.filters
      /\ filters \subseteq Ids /\ saved.filters \subseteq Ids
  BY <1>2, BoundsAssumption DEF DeviceTypes, FilterTypes, Ids
<1>4. kind'[created'] = pool.kind /\ \A i \in filters \cup saved.filters : kind'[i] = kind[i]
  BY <1>2, <1>3 DEF DeviceTypes, FilterTypes
<1>5. \A k \in Kinds : Knows(k) /\ On(k) = {filterinfos[k]} \ {None}
  BY <1>1, <1>2 DEF EntryInv, Knows, Adding, Removing
<1>6. On(pool.kind) = {}
  BY <1>2, <1>5
<1>7. OneInv'
  <2>1. \A i \in filters : kind[i] # pool.kind
    BY <1>6 DEF On
  <2> QED
    BY <1>1, <1>2, <1>4, <2>1 DEF OneInv, One
<1>8. ASSUME NEW k \in Kinds PROVE Knows(k)'
  <2>1. CASE k = pool.kind
    <3>1. On(k)' = {created'}
      BY <1>2, <1>4, <1>6, <2>1 DEF On
    <3> QED
      BY <1>1, <1>2, <2>1, <3>1 DEF Knows, Adding, Removing
  <2>2. CASE k # pool.kind
    <3>1. On(k)' = On(k)
      BY <1>2, <1>4, <2>2 DEF On
    <3> QED
      BY <1>1, <1>2, <1>5, <2>2, <3>1 DEF Knows, Adding, Removing
  <2> QED
    BY <2>1, <2>2
<1> QED
  BY <1>1, <1>2, <1>7, <1>8 DEF KnownInv, EntryInv

LEMMA RemoveKnows ==
  ASSUME DeviceTypes, KnownInv, RemoveFilterInfo, ~hurried'
  PROVE  KnownInv'
<1>1. /\ ~hurried /\ ~misused /\ OneInv /\ EntryInv
      /\ UNCHANGED <<filterinfos, entry, saved, fresh, misused, kind, created>>
  BY DEF RemoveFilterInfo, KnownInv, table, history
<1>2. /\ filters' = filters \ {filterinfos[pool.kind]}
      /\ pool.at = "filter" /\ pool.kind \in Kinds /\ entry
      /\ filterinfos[pool.kind] # None
      /\ pool'.at = "removed" /\ pool'.kind = pool.kind
  BY DEF RemoveFilterInfo, DeviceTypes, ThreadTypes, EditKnows, InDevice, Editing
<1>3. ~fresh
  BY <1>1, <1>2 DEF EntryInv, Unread, NoFilters
<1>4. \A k \in Kinds : Knows(k) /\ On(k) = {filterinfos[k]} \ {None}
  BY <1>1, <1>2, <1>3 DEF EntryInv, Knows, Adding, Removing
<1>5. OneInv'
  BY <1>1, <1>2 DEF OneInv, One
<1>6. ASSUME NEW k \in Kinds PROVE Knows(k)'
  <2>1. On(k)' = On(k) \ {filterinfos[pool.kind]}
    BY <1>1, <1>2 DEF On
  <2>2. CASE k = pool.kind
    BY <1>2, <1>4, <2>1, <2>2 DEF Knows, Adding, Removing
  <2>3. CASE k # pool.kind
    <3>1. kind[filterinfos[pool.kind]] = pool.kind
      BY <1>2 DEF DeviceTypes, FilterTypes
    <3>2. filterinfos[pool.kind] \notin On(k)
      BY <2>3, <3>1 DEF On
    <3>3. On(k)' = On(k)
      BY <2>1, <3>2
    <3> QED
      BY <1>1, <1>2, <1>4, <2>3, <3>3 DEF Knows, Adding, Removing
  <2> QED
    BY <2>2, <2>3
<1> QED
  BY <1>1, <1>2, <1>3, <1>5, <1>6 DEF KnownInv, EntryInv

(* And by which the entry hears of it.                                     *)
LEMMA HearKnows ==
  ASSUME DeviceTypes, KnownInv, AddFilter \/ RemoveFilter, ~hurried'
  PROVE  KnownInv'
<1>1. /\ ~hurried /\ ~misused /\ OneInv /\ EntryInv
      /\ UNCHANGED <<entry, saved, fresh, misused, filters, kind, level, created>>
  BY DEF AddFilter, RemoveFilter, PoolAt, KnownInv, libobs, history
<1>2. /\ pool.at \in {"added", "removed"} /\ pool.kind \in Kinds /\ entry
      /\ filterinfos' =
           [filterinfos EXCEPT ![pool.kind] = IF pool.at = "added" THEN created ELSE None]
      /\ pool'.at = IF pool.at = "added" THEN "set" ELSE "save"
      /\ pool'.kind = pool.kind
  BY DEF AddFilter, RemoveFilter, ForgetFilter, PoolAt, DeviceTypes, ThreadTypes, EditKnows,
         InDevice, Editing
<1>3. ~fresh /\ \A k \in Kinds : Knows(k)
  BY <1>1, <1>2 DEF EntryInv, Unread
<1>4. \A k \in Kinds : On(k)' = On(k)
  BY <1>1, SameFilters
<1>5. filterinfos \in [Kinds -> {None} \cup 1 .. created] /\ created # None
  BY BoundsAssumption, NoneAssumption DEF DeviceTypes, FilterTypes
<1>6. OneInv'
  BY <1>1 DEF OneInv, One
<1>7. ASSUME NEW k \in Kinds PROVE Knows(k)'
  BY <1>1, <1>2, <1>3, <1>4, <1>5 DEF Knows, Adding, Removing
<1>8. pool'.at = "set" => filterinfos'[pool'.kind] # None
  BY <1>2, <1>5
<1> QED
  BY <1>1, <1>3, <1>6, <1>7, <1>8 DEF KnownInv, EntryInv

(* The others leave the filters and the entry alone.                       *)
Elsewhere == {"idle", "filter", "save", "gen", "answer"}
OtherStep ==
  \/ \E k \in Kinds, l \in Levels \cup {Off} : SetDeviceValue(k, l)
  \/ SetDeviceId \/ SetKnown \/ SetLevel \/ RemoveNothing
  \/ SaveProject \/ UpdateInputInfo \/ GenAnswer \/ AnswerDevice
  \/ Initialized \/ SaveOther \/ UNCHANGED filterVars

LEMMA OtherStepEffect ==
  ASSUME DeviceTypes, OtherStep
  PROVE  /\ UNCHANGED <<filters, kind, created, entry, filterinfos, sig, fresh, misused, turns>>
         /\ hurried => hurried'
         /\ saved' = saved \/ saved' = [filters |-> filters, level |-> level]
         /\ \/ pool' = pool
            \/ pool.at \in Elsewhere /\ pool'.at \in Elsewhere
            \/ /\ pool.at = "filter" /\ pool'.at = "set" /\ pool'.kind = pool.kind
               /\ filterinfos[pool.kind] # None /\ pool.kind \in Kinds
            \/ pool.at = "set" /\ pool'.at = "save"
<1> USE DEF PoolAt, libobs, table, told, counts, history, Elsewhere
<1>1. pool \in Editing /\ (pool.at = "filter" => pool.kind \in Kinds)
  BY DEF DeviceTypes, ThreadTypes, EditKnows, InDevice
<1>2. CASE \/ \E k \in Kinds, l \in Levels \cup {Off} : SetDeviceValue(k, l)
           \/ SetDeviceId \/ UpdateInputInfo
  <2>1. /\ UNCHANGED <<is_initialize_, libobs, table, sig, saved, told, turns, history>>
        /\ pool.at = "idle"
        /\ \/ \E k \in Kinds, l \in Levels \cup {Off} :
                pool' = [PoolIdle EXCEPT !.at = "filter", !.kind = k, !.level = l]
           \/ pool' = [PoolIdle EXCEPT !.at = "save"]
           \/ pool' = [PoolIdle EXCEPT !.at = "gen"]
    BY <1>2 DEF SetDeviceId, UpdateInputInfo, SetDeviceValue
  <2>2. pool'.at \in Elsewhere
    BY <2>1 DEF PoolIdle
  <2> QED
    BY <2>1, <2>2
<1>3. CASE SetKnown \/ SetLevel \/ RemoveNothing
  <2>1. /\ UNCHANGED <<filters, kind, created, table, sig, saved, turns, fresh, misused>>
        /\ hurried => hurried'
    <3>1. SetKnown => <2>1!1 /\ hurried' = hurried
      BY DEF SetKnown
    <3>2. SetLevel => <2>1!1 /\ hurried' = hurried
      BY DEF SetLevel
    <3>3. RemoveNothing => <2>1!1
      BY DEF RemoveNothing
    <3>4. RemoveNothing => (hurried => hurried')
      BY Zenon DEF RemoveNothing
    <3> HIDE DEF PoolAt, libobs, table, told, counts, history, Elsewhere
    <3> QED
      BY <1>3, <3>1, <3>2, <3>3, <3>4
  <2>2. CASE SetKnown
    BY <1>1, <2>1, <2>2 DEF SetKnown, Editing
  <2>3. CASE SetLevel
    BY <1>1, <2>1, <2>3 DEF SetLevel, Editing
  <2>4. CASE RemoveNothing
    BY <1>1, <2>1, <2>4 DEF RemoveNothing, Editing
  <2> QED
    BY <1>3, <2>2, <2>3, <2>4
<1>4. CASE SaveProject \/ SaveOther
  BY <1>1, <1>4 DEF SaveProject, SaveOther, Editing
<1>5. CASE GenAnswer \/ AnswerDevice
  <2>1. /\ UNCHANGED <<is_initialize_, libobs, table, sig, saved, counts, history>>
        /\ pool.at \in Elsewhere /\ pool'.at \in Elsewhere
    <3>1. GenAnswer => <2>1!1 /\ pool.at = "gen" /\ pool'.at = "answer"
      BY <1>1 DEF GenAnswer, Editing
    <3>2. AnswerDevice => <2>1!1 /\ pool.at = "answer" /\ pool'.at = "idle"
      BY DEF AnswerDevice, PoolIdle
    <3> QED
      BY <1>5, <3>1, <3>2
  <2> QED
    BY <2>1
<1>6. CASE Initialized \/ UNCHANGED filterVars
  BY <1>6 DEF Initialized, filterVars
<1> QED
  BY <1>2, <1>3, <1>4, <1>5, <1>6 DEF OtherStep

LEMMA OtherKnows ==
  ASSUME DeviceTypes, KnownInv, ~hurried', OtherStep
  PROVE  KnownInv'
<1>1. /\ UNCHANGED <<filters, kind, created, entry, filterinfos, fresh, misused>>
      /\ hurried => hurried'
      /\ saved'.filters \in {saved.filters, filters}
  BY OtherStepEffect
<1>2. \/ pool' = pool
      \/ pool.at \in Elsewhere /\ pool'.at \in Elsewhere
      \/ /\ pool.at = "filter" /\ pool'.at = "set" /\ pool'.kind = pool.kind
         /\ filterinfos[pool.kind] # None /\ pool.kind \in Kinds
      \/ pool.at = "set" /\ pool'.at = "save"
  BY OtherStepEffect
<1> USE DEF Elsewhere
<1>3. \A k \in Kinds : On(k)' = On(k)
  BY <1>1 DEF On
<1>4. ~hurried /\ OneInv /\ OneInv'
  BY <1>1 DEF KnownInv, OneInv, One
<1> SUFFICES ASSUME ~misused PROVE EntryInv'
  BY <1>1, <1>4 DEF KnownInv
<1>5. EntryInv
  BY <1>4 DEF KnownInv
<1>6. \A k \in Kinds : Knows(k) => Knows(k)'
  BY <1>1, <1>2, <1>3 DEF Knows, Adding, Removing
<1>7. fresh => Unread /\ Unread'
  BY <1>1, <1>2, <1>5 DEF EntryInv, Unread, NoFilters
<1>8. pool'.at = "set" => fresh \/ filterinfos'[pool'.kind] # None
  BY <1>1, <1>2, <1>5 DEF EntryInv
<1> QED
  BY <1>1, <1>5, <1>6, <1>7, <1>8 DEF EntryInv

LEMMA KnownNext ==
  ASSUME DeviceTypes, Entered, KnownInv, [FiltersNext]_filterVars
  PROVE  KnownInv'
<1> SUFFICES ASSUME ~hurried' PROVE KnownInv'
  BY DEF KnownInv
<1>1. CASE Signal
  <2>1. ~hurried
    BY <1>1 DEF Signal, ActivateAudioSource, DeactivateAudioSource, GenDeviceInfo,
           GenObsDeviceMessage, SendDeviceMessage, history
  <2> QED
    BY <1>1, <2>1, SignalKnows
<1>2. CASE Restart
  <2>1. ~hurried /\ One(saved.filters)
    BY <1>2 DEF Restart, KnownInv, OneInv
  <2>2. OneInv'
    BY <1>2, <2>1 DEF Restart, OneInv, One
  <2> QED
    BY <1>2, <2>2 DEF Restart, KnownInv, EntryInv, PoolIdle
<1> QED
  BY <1>1, <1>2, AddKnows, RemoveKnows, HearKnows, OtherKnows DEF FiltersNext, Edit, OtherStep

-----------------------------------------------------------------------------
(* The levels.                                                             *)
Says(m, k) == LevelsOf(k) = {m[k]} \ {Off}
Changing(k) == pool.kind = k /\ pool.at \in {"added", "removed", "set"}
Done(k) == pool.kind = k /\ pool.at \in {"save", "gen", "answer"}

(* Entries that know the filters tell their levels.                        *)
LEMMA KnownIsSaid ==
  ASSUME DeviceTypes, NEW k \in Kinds,
         NEW known \in [Kinds -> {None} \cup 1 .. created], On(k) = {known[k]} \ {None}
  PROVE  Says(SetFiltersValue(known), k)
<1>1. SetFiltersValue(known)[k] =
        IF known[k] = None THEN Off ELSE level[known[k]]
  BY DEF SetFiltersValue
<1>2. CASE known[k] = None
  <2>1. LevelsOf(k) = {}
    BY <1>2 DEF LevelsOf
  <2> QED
    BY <1>1, <1>2, <2>1 DEF Says
<1>3. CASE known[k] # None
  <2>1. known[k] \in Ids
    BY <1>3, BoundsAssumption DEF DeviceTypes, FilterTypes, Ids
  <2>2. level[known[k]] # Off
    BY <2>1, LevelsAssumption DEF DeviceTypes, FilterTypes
  <2>3. LevelsOf(k) = {level[known[k]]}
    BY <1>3 DEF LevelsOf
  <2> QED
    BY <1>1, <1>3, <2>2, <2>3 DEF Says
<1> QED
  BY <1>2, <1>3

(* An edit changes the levels of its kind only.                            *)
LEMMA OthersKeepLevels ==
  ASSUME DeviceTypes, NEW k \in Kinds, k # pool.kind,
         AddFilterInfo \/ RemoveFilterInfo \/ (SetLevel /\ filterinfos[pool.kind] # None)
  PROVE  LevelsOf(k)' = LevelsOf(k)
<1>1. CASE AddFilterInfo
  <2>1. /\ created' = created + 1 /\ created' \in Ids /\ created \in Nat
        /\ kind' = [kind EXCEPT ![created'] = pool.kind]
        /\ level' = [level EXCEPT ![created'] = Default]
        /\ filters' = filters \cup {created'}
    BY <1>1, BoundsAssumption DEF AddFilterInfo, Ids, DeviceTypes, FilterTypes
  <2>2. created' \notin filters /\ filters \subseteq Ids
    BY <2>1, BoundsAssumption DEF DeviceTypes, FilterTypes, Ids
  <2>3. kind'[created'] = pool.kind /\ \A i \in filters : kind'[i] = kind[i] /\ level'[i] = level[i]
    BY <2>1, <2>2 DEF DeviceTypes, FilterTypes
  <2>4. On(k)' = On(k)
    BY <2>1, <2>3 DEF On
  <2>5. \A i \in On(k) : level'[i] = level[i]
    BY <2>3 DEF On
  <2> QED
    BY <2>4, <2>5 DEF LevelsOf
<1>2. CASE (RemoveFilterInfo \/ SetLevel) /\ filterinfos[pool.kind] # None
  <2>1. pool.kind \in Kinds
    BY <1>2
    DEF RemoveFilterInfo, SetLevel, PoolAt, DeviceTypes, EditKnows, InDevice
  <2>2. kind[filterinfos[pool.kind]] = pool.kind
    BY <1>2, <2>1 DEF DeviceTypes, FilterTypes
  <2>3. filterinfos[pool.kind] \notin On(k)
    BY <2>2 DEF On
  <2>4. CASE RemoveFilterInfo
    <3>1. On(k)' = On(k) \ {filterinfos[pool.kind]} /\ level' = level
      BY <2>4 DEF RemoveFilterInfo, On
    <3>2. On(k)' = On(k)
      BY <2>3, <3>1
    <3> QED
      BY <3>1, <3>2 DEF LevelsOf
  <2>5. CASE SetLevel
    <3>1. On(k)' = On(k) /\ level' = [level EXCEPT ![filterinfos[pool.kind]] = pool.level]
      BY <2>5 DEF SetLevel, On
    <3>2. \A i \in On(k) : level'[i] = level[i]
      BY <2>3, <3>1 DEF DeviceTypes, FilterTypes
    <3> QED
      BY <3>1, <3>2 DEF LevelsOf
  <2> QED
    BY <1>2, <2>4, <2>5
<1> QED
  BY <1>1, <1>2 DEF RemoveFilterInfo

(* What the host asked for last is in force, or about to be.               *)
AskedInv ==
  ~hurried /\ ~misused =>
    \A k \in Kinds :
      /\ asked[k] # None => Changing(k) \/ Done(k) \/ Says(asked, k)
      /\ Done(k) => LevelsOf(k) = {pool.level} \ {Off}

(* What the pool is at, where it stands still or takes an easy step.       *)
LEMMA AskedSame ==
  ASSUME AskedInv, UNCHANGED <<filters, kind, level, asked>>, ~hurried, ~misused,
         \A k \in Kinds : /\ Changing(k) => Changing(k)'
                          /\ Done(k)' <=> Done(k)
                          /\ Done(k) => pool'.level = pool.level
  PROVE  AskedInv'
<1>1. \A k \in Kinds : LevelsOf(k)' = LevelsOf(k)
  BY SameFilters
<1> QED
  BY <1>1 DEF AskedInv, Says

LEMMA AskedOther ==
  ASSUME DeviceTypes, KnownInv, AskedInv, OtherStep, ~hurried', ~misused'
  PROVE  AskedInv'
<1>1. ~hurried /\ ~misused
  BY OtherStepEffect
<1>2. /\ pool \in Editing /\ None \notin Kinds
      /\ pool.at = "idle" => pool.kind = None
      /\ pool.at \in {"filter", "set"} => pool.kind \in Kinds
  BY NoneAssumption DEF DeviceTypes, ThreadTypes, EditKnows, InDevice, PoolIdle
<1> USE DEF PoolAt, libobs, told
<1>3. CASE \/ \E k \in Kinds, l \in Levels \cup {Off} : SetDeviceValue(k, l)
           \/ SetDeviceId \/ UpdateInputInfo
  <2>1. /\ UNCHANGED <<filters, kind, level, asked>> /\ pool.at = "idle"
        /\ \/ pool'.at = "filter"
           \/ pool'.at \in {"save", "gen"} /\ pool'.kind = None
    BY <1>3 DEF SetDeviceId, UpdateInputInfo, SetDeviceValue, PoolIdle
  <2> QED
    BY <1>1, <1>2, <2>1, AskedSame DEF Changing, Done
<1>4. CASE SetKnown \/ SaveProject \/ GenAnswer
  <2>1. /\ UNCHANGED <<filters, kind, level, asked>>
        /\ pool'.kind = pool.kind /\ pool'.level = pool.level
        /\ \/ pool.at = "filter" /\ pool'.at = "set"
           \/ pool.at = "save" /\ pool'.at = "gen"
           \/ pool.at = "gen" /\ pool'.at = "answer"
    BY <1>2, <1>4 DEF SetKnown, SaveProject, GenAnswer, Editing
  <2> QED
    BY <1>1, <2>1, AskedSame DEF Changing, Done
<1>5. CASE Initialized \/ SaveOther \/ UNCHANGED filterVars
  <2>1. UNCHANGED <<filters, kind, level, asked, pool>>
    BY <1>5 DEF Initialized, SaveOther, filterVars
  <2> QED
    BY <1>1, <2>1, AskedSame DEF Changing, Done
<1>6. CASE SetLevel
  <2>1. /\ pool.at = "set" /\ pool'.at = "save" /\ pool'.kind = pool.kind
        /\ pool'.level = pool.level /\ pool.level \in Levels /\ pool.kind \in Kinds
        /\ level' = [level EXCEPT ![filterinfos[pool.kind]] = pool.level]
        /\ UNCHANGED <<filters, kind, asked, filterinfos>>
    BY <1>2, <1>6 DEF SetLevel, Editing, table, DeviceTypes, EditKnows
  <2>2. ~fresh /\ filterinfos[pool.kind] # None /\ On(pool.kind) = {filterinfos[pool.kind]}
    BY <1>1, <2>1
    DEF KnownInv, EntryInv, Unread, Knows, Adding, Removing, DeviceTypes, EditKnows, InDevice
  <2>3. filterinfos[pool.kind] \in Ids
    BY <2>1, <2>2, BoundsAssumption DEF DeviceTypes, FilterTypes, Ids
  <2>4. level'[filterinfos[pool.kind]] = pool.level /\ On(pool.kind)' = On(pool.kind)
    BY <2>1, <2>3 DEF DeviceTypes, FilterTypes, On
  <2>5. LevelsOf(pool.kind)' = {pool.level}
    BY <2>1, <2>2, <2>4 DEF LevelsOf
  <2>6. pool.level # Off
    BY <2>1, LevelsAssumption
  <2>7. ASSUME NEW k \in Kinds, k # pool.kind
        PROVE  /\ asked'[k] # None => Says(asked, k)'
               /\ ~Done(k)'
    <3>1. LevelsOf(k)' = LevelsOf(k)
      BY <1>6, <2>2, <2>7, OthersKeepLevels
    <3> QED
      BY <1>1, <2>1, <2>7, <3>1 DEF AskedInv, Says, Changing, Done
  <2>8. LevelsOf(pool.kind)' = {pool'.level} \ {Off} /\ Done(pool.kind)'
    BY <2>1, <2>5, <2>6 DEF Done
  <2> QED
    BY <2>1, <2>7, <2>8 DEF AskedInv, Done
<1>7. CASE RemoveNothing
  <2>1. /\ pool.at = "filter" /\ pool'.at = "save" /\ pool'.kind = pool.kind
        /\ pool'.level = Off /\ filterinfos[pool.kind] = None /\ pool.kind \in Kinds
        /\ UNCHANGED <<filters, kind, level, asked>>
    BY <1>2, <1>7 DEF RemoveNothing, Editing
  <2>2. ~fresh /\ entry
    BY <1>7, <2>1 DEF RemoveNothing, DeviceTypes, FlagsAreFlags, EditKnows, InDevice
  <2>3. On(pool.kind) = {}
    BY <1>1, <2>1, <2>2 DEF KnownInv, EntryInv, Knows, Adding, Removing
  <2>4. LevelsOf(pool.kind) = {}
    BY <2>3 DEF LevelsOf
  <2>5. \A k \in Kinds : LevelsOf(k)' = LevelsOf(k)
    BY <2>1, SameFilters
  <2> QED
    BY <1>1, <2>1, <2>4, <2>5 DEF AskedInv, Says, Changing, Done
<1>8. CASE AnswerDevice
  <2>1. /\ pool.at = "answer" /\ pool'.at = "idle"
        /\ asked' = [k \in Kinds |-> IF k = pool.kind THEN pool.level ELSE asked[k]]
        /\ UNCHANGED <<filters, kind, level>>
    BY <1>8 DEF AnswerDevice, PoolIdle
  <2>2. \A k \in Kinds : LevelsOf(k)' = LevelsOf(k)
    BY <2>1, SameFilters
  <2> QED
    BY <1>1, <2>1, <2>2 DEF AskedInv, Says, Changing, Done
<1> QED
  BY <1>3, <1>4, <1>5, <1>6, <1>7, <1>8 DEF OtherStep

LEMMA AskedNext ==
  ASSUME DeviceTypes, Entered, KnownInv, AskedInv, [FiltersNext]_filterVars
  PROVE  AskedInv'
<1> SUFFICES ASSUME ~hurried', ~misused' PROVE AskedInv'
  BY DEF AskedInv
<1>1. CASE Signal
  <2>1. UNCHANGED <<filters, kind, level, pool, asked, hurried>> /\ ~misused
    BY <1>1 DEF Signal, ActivateAudioSource, DeactivateAudioSource, GenDeviceInfo,
           GenObsDeviceMessage, SendDeviceMessage, SigAt, libobs, told, history
  <2> QED
    BY <2>1, AskedSame DEF Changing, Done
<1>2. CASE Restart
  BY <1>2 DEF Restart, AskedInv, NoFilters, PoolIdle, Done
<1>3. CASE AddFilterInfo \/ RemoveFilterInfo
  <2>1. /\ pool.at = "filter" /\ pool'.at \in {"added", "removed"} /\ pool'.kind = pool.kind
        /\ asked' = asked /\ misused' = misused
        /\ ~hurried
    BY <1>3 DEF AddFilterInfo, RemoveFilterInfo, PoolAt, told, history, DeviceTypes, ThreadTypes,
                Editing, FlagsAreFlags
  <2>2. ASSUME NEW k \in Kinds, k # pool.kind PROVE LevelsOf(k)' = LevelsOf(k)
    BY <1>3, <2>2, OthersKeepLevels, Zenon
  <2> QED
    BY <2>1, <2>2 DEF AskedInv, Says, Changing, Done
<1>4. CASE AddFilter
  <2>1. /\ pool.at = "added" /\ pool'.at = "set" /\ pool'.kind = pool.kind
        /\ UNCHANGED <<filters, kind, level, asked, hurried, misused>>
    BY <1>4 DEF AddFilter, PoolAt, libobs, told, history, DeviceTypes, ThreadTypes, Editing
  <2> QED
    BY <2>1, AskedSame DEF Changing, Done
<1>5. CASE RemoveFilter
  <2>1. /\ pool.at = "removed" /\ pool'.at = "save" /\ pool'.kind = pool.kind
        /\ pool'.level = Off /\ pool.kind \in Kinds
        /\ UNCHANGED <<filters, kind, level, asked, hurried, misused>>
    BY <1>5 DEF RemoveFilter, PoolAt, libobs, told, history, DeviceTypes, ThreadTypes, Editing,
                EditKnows, InDevice
  <2>2. ~fresh /\ entry
    BY <2>1 DEF KnownInv, EntryInv, Unread, DeviceTypes, EditKnows, InDevice
  <2>3. On(pool.kind) = {}
    BY <2>1, <2>2 DEF KnownInv, EntryInv, Knows, Removing
  <2>4. LevelsOf(pool.kind) = {}
    BY <2>3 DEF LevelsOf
  <2>5. \A k \in Kinds : LevelsOf(k)' = LevelsOf(k)
    BY <2>1, SameFilters
  <2> QED
    BY <2>1, <2>4, <2>5 DEF AskedInv, Says, Changing, Done
<1> QED
  BY <1>1, <1>2, <1>3, <1>4, <1>5, AskedOther DEF FiltersNext, Edit, OtherStep

(* What is on the way to the host, or was told it last.                    *)
Carried ==
  \A s \in Signallers : sig[s].at = "send" =>
    \A k \in Kinds : Changing(k) \/ Says(sig[s].msg, k)
Answered ==
  entry /\ ~fresh /\ pool.at = "answer" => \A k \in Kinds : Says(pool.msg, k)
Told ==
  entry /\ host # None =>
    \/ \A k \in Kinds : Says(host, k)
    \/ pool.at # "idle"
    \/ \E s \in Signallers : sig[s].at \in {"fill", "send"}
TellInv == ~hurried /\ ~misused /\ ~crossed => Carried /\ Answered /\ Told

LEMMA SignalTells ==
  ASSUME DeviceTypes, Entered, KnownInv, KnownInv', TellInv, Signal,
         ~hurried', ~misused', ~crossed'
  PROVE  TellInv'
<1>1. /\ UNCHANGED <<filters, kind, level, pool>>
      /\ ~hurried /\ ~misused /\ ~crossed
  BY DEF Signal, ActivateAudioSource, DeactivateAudioSource, GenDeviceInfo,
         GenObsDeviceMessage, SendDeviceMessage, SigAt, libobs, history, DeviceTypes,
         FlagsAreFlags
<1>2. Carried /\ Answered /\ Told /\ sig \in [Signallers -> Signalled]
  BY <1>1 DEF TellInv, DeviceTypes, ThreadTypes
<1>3. \A k \in Kinds : LevelsOf(k)' = LevelsOf(k) /\ (Changing(k)' <=> Changing(k))
  BY <1>1, SameFilters DEF Changing
<1>4. ASSUME NEW s \in Signallers, ActivateAudioSource(s) \/ DeactivateAudioSource(s)
      PROVE  Carried' /\ Answered' /\ Told'
  <2>1. /\ sig[s].at = "idle" /\ UNCHANGED <<entry, fresh, host>>
        /\ \E there \in {"fill", "gen"} :
             sig' = [sig EXCEPT ![s] = [at |-> there, msg |-> sig[s].msg]]
    BY <1>4 DEF ActivateAudioSource, DeactivateAudioSource, SigAt, table, told, history
  <2>2. \A t \in Signallers : sig[t].at \in {"fill", "send"} => sig'[t] = sig[t]
    BY <1>2, <2>1
  <2>3. \A t \in Signallers : sig'[t].at = "send" => sig'[t] = sig[t]
    BY <1>2, <2>1
  <2> QED
    BY <1>1, <1>2, <1>3, <2>1, <2>2, <2>3 DEF Carried, Answered, Told, Says
<1>5. ASSUME NEW s \in Signallers, GenDeviceInfo(s)
      PROVE  Carried' /\ Answered' /\ Told'
  <2>1. sig' = [sig EXCEPT ![s] = [at |-> "fill", msg |-> sig[s].msg]] /\ fresh'
    BY <1>5 DEF GenDeviceInfo, SigAt
  <2>2. \A t \in Signallers : sig'[t].at = "send" => sig'[t] = sig[t]
    BY <1>2, <2>1
  <2>3. sig'[s].at = "fill"
    BY <1>2, <2>1
  <2> QED
    BY <1>1, <1>2, <1>3, <2>1, <2>2, <2>3 DEF Carried, Answered, Told, Says
<1>6. ASSUME NEW s \in Signallers, GenObsDeviceMessage(s)
      PROVE  Carried' /\ Answered' /\ Told'
  <2>1. /\ sig' = [sig EXCEPT ![s] = [at |-> "send", msg |-> SetFiltersValue(filterinfos')]]
        /\ entry' /\ ~fresh' /\ pool.at # "answer"
    BY <1>6 DEF GenObsDeviceMessage, Entered
  <2>2. \A t \in Signallers : t # s => sig'[t] = sig[t]
    BY <1>2, <2>1
  <2>3. sig'[s].at = "send" /\ sig'[s].msg = SetFiltersValue(filterinfos')
    BY <1>2, <2>1
  <2>4. \A k \in Kinds : Knows(k)'
    BY <2>1 DEF KnownInv, EntryInv
  <2>5. ASSUME NEW k \in Kinds, ~Changing(k)' PROVE Says(sig[s].msg, k)'
    <3>1. On(k)' = {filterinfos'[k]} \ {None} /\ On(k)' = On(k)
      BY <1>1, <2>4, <2>5, SameFilters DEF Knows, Changing, Adding, Removing
    <3>2. filterinfos' \in [Kinds -> {None} \cup 1 .. created]
      BY <1>6, UpdateTypes DEF GenObsDeviceMessage
    <3>3. Says(SetFiltersValue(filterinfos'), k)
      BY <3>1, <3>2, KnownIsSaid
    <3> HIDE DEF SetFiltersValue
    <3> QED
      BY <1>3, <2>3, <3>3 DEF Says
  <2>6. Carried'
    BY <1>2, <1>3, <2>2, <2>5 DEF Carried, Says
  <2> QED
    BY <1>1, <2>1, <2>3, <2>6 DEF Answered, Told
<1>7. ASSUME NEW s \in Signallers, SendDeviceMessage(s)
      PROVE  Carried' /\ Answered' /\ Told'
  <2>1. /\ sig' = [sig EXCEPT ![s] = [at |-> "idle", msg |-> sig[s].msg]]
        /\ sig[s].at = "send" /\ host' = sig[s].msg
        /\ UNCHANGED <<entry, fresh>>
    BY <1>7 DEF SendDeviceMessage, SigAt, table, history
  <2>2. \A t \in Signallers : sig'[t].at = "send" => sig'[t] = sig[t]
    BY <1>2, <2>1
  <2>3. pool.at = "idle" => \A k \in Kinds : Says(host, k)'
    BY <1>2, <1>3, <2>1 DEF Carried, Changing, Says
  <2> QED
    BY <1>1, <1>2, <1>3, <2>1, <2>2, <2>3 DEF Carried, Answered, Told, Says
<1> QED
  BY <1>4, <1>5, <1>6, <1>7 DEF Signal, TellInv

(* Levels change while nothing is ready to be sent, or in a kind that is   *)
(* still to be told.                                                       *)
LEMMA EditTells ==
  ASSUME DeviceTypes, Entered, KnownInv, TellInv,
         AddFilterInfo \/ AddFilter \/ SetLevel \/ RemoveFilterInfo \/ RemoveFilter,
         ~hurried', ~misused', ~crossed'
  PROVE  TellInv'
<1> USE DEF PoolAt, table, libobs, told, history
<1>1. /\ ~hurried /\ ~misused /\ ~crossed
      /\ UNCHANGED <<sig, host, entry, fresh>>
  BY DEF AddFilterInfo, AddFilter, SetLevel, RemoveFilterInfo, RemoveFilter, DeviceTypes,
         FlagsAreFlags
<1>2. Carried /\ pool \in Editing
  BY <1>1 DEF TellInv, DeviceTypes, ThreadTypes
<1>3. pool'.kind = pool.kind /\ pool'.at \in {"added", "set", "save", "removed"}
  BY <1>2 DEF AddFilterInfo, AddFilter, SetLevel, RemoveFilterInfo, RemoveFilter, Editing
<1>4. Answered' /\ Told'
  BY <1>3 DEF Answered, Told
<1>5. CASE SetLevel \/ RemoveFilter
  <2>1. \A s \in Signallers : sig[s].at # "send"
    BY <1>5 DEF SetLevel, RemoveFilter, Unsent
  <2> QED
    BY <1>1, <1>4, <2>1 DEF TellInv, Carried
<1>6. CASE AddFilterInfo \/ RemoveFilterInfo
  <2>1. pool.at = "filter" /\ pool'.at \in {"added", "removed"}
    BY <1>2, <1>6 DEF AddFilterInfo, RemoveFilterInfo, Editing
  <2>2. ASSUME NEW k \in Kinds, k # pool.kind PROVE LevelsOf(k)' = LevelsOf(k)
    BY <1>6, <2>2, OthersKeepLevels, Zenon
  <2>3. Carried'
    BY <1>1, <1>2, <1>3, <2>1, <2>2 DEF Carried, Changing, Says
  <2> QED
    BY <1>4, <2>3 DEF TellInv
<1>7. CASE AddFilter
  <2>1. /\ pool.at = "added" /\ pool'.at = "set"
        /\ UNCHANGED <<filters, kind, level>>
    BY <1>2, <1>7 DEF AddFilter, Editing
  <2>2. \A k \in Kinds : LevelsOf(k)' = LevelsOf(k)
    BY <2>1, SameFilters
  <2>3. Carried'
    BY <1>1, <1>2, <1>3, <2>1, <2>2 DEF Carried, Changing, Says
  <2> QED
    BY <1>4, <2>3 DEF TellInv
<1> QED
  BY <1>5, <1>6, <1>7

LEMMA OtherTells ==
  ASSUME DeviceTypes, Entered, KnownInv, TellInv, OtherStep, ~SetLevel,
         ~hurried', ~misused', ~crossed'
  PROVE  TellInv'
<1> USE DEF PoolAt, table, libobs, told, history
<1>1. /\ ~hurried /\ ~misused
      /\ UNCHANGED <<sig, entry, fresh, filters, kind, filterinfos>>
  BY OtherStepEffect
<1>2. ~crossed /\ level' = level
  <2>1. crossed' = crossed /\ level' = level
    BY DEF OtherStep, SetDeviceValue, SetDeviceId, SetKnown, RemoveNothing, SaveProject,
           UpdateInputInfo, GenAnswer, AnswerDevice, Initialized, SaveOther, filterVars
  <2> QED
    BY <2>1
<1>3. Carried /\ Answered /\ Told /\ pool \in Editing
  BY <1>1, <1>2 DEF TellInv, DeviceTypes, ThreadTypes
<1>4. \A k \in Kinds : LevelsOf(k)' = LevelsOf(k)
  BY <1>1, <1>2, SameFilters
<1>5. \A k \in Kinds : Changing(k) => Changing(k)'
  <2>1. pool' = pool \/ pool.at \in Elsewhere
    BY DEF OtherStep, SetDeviceValue, SetDeviceId, SetKnown, RemoveNothing, SaveProject,
           UpdateInputInfo, GenAnswer, AnswerDevice, Initialized, SaveOther, filterVars, Elsewhere
  <2> QED
    BY <2>1 DEF Changing, Elsewhere
<1>6. Carried'
  BY <1>1, <1>3, <1>4, <1>5 DEF Carried, Says
<1>7. CASE AnswerDevice
  <2>1. pool.at = "answer" /\ pool'.at = "idle" /\ host' = pool.msg
    BY <1>7 DEF AnswerDevice, PoolIdle
  <2> QED
    BY <1>1, <1>3, <1>4, <1>6, <2>1 DEF TellInv, Answered, Told, Says, Entered
<1>8. CASE GenAnswer
  <2>1. /\ pool.at = "gen" /\ pool'.at = "answer" /\ host' = host
        /\ pool'.msg = SetFiltersValue(filterinfos)
    BY <1>3, <1>8 DEF GenAnswer, Editing
  <2>2. ASSUME entry, ~fresh, NEW k \in Kinds PROVE Says(SetFiltersValue(filterinfos), k)
    <3>1. On(k) = {filterinfos[k]} \ {None}
      BY <1>1, <2>1, <2>2 DEF KnownInv, EntryInv, Knows, Adding, Removing
    <3> QED
      BY <3>1, KnownIsSaid DEF DeviceTypes, FilterTypes
  <2> HIDE DEF SetFiltersValue
  <2> QED
    BY <1>1, <1>4, <1>6, <2>1, <2>2 DEF TellInv, Answered, Told, Says
<1>9. CASE \/ \E k \in Kinds, l \in Levels \cup {Off} : SetDeviceValue(k, l)
           \/ SetDeviceId \/ UpdateInputInfo \/ SetKnown \/ RemoveNothing \/ SaveProject
  <2>1. pool'.at \notin {"idle", "answer"}
    BY <1>3, <1>9 DEF SetDeviceValue, SetDeviceId, UpdateInputInfo, SetKnown, RemoveNothing,
                      SaveProject, PoolIdle, Editing
  <2> QED
    BY <1>6, <2>1 DEF TellInv, Answered, Told
<1>10. CASE Initialized \/ SaveOther \/ UNCHANGED filterVars
  <2>1. UNCHANGED <<pool, host>>
    BY <1>10 DEF Initialized, SaveOther, filterVars
  <2> QED
    BY <1>1, <1>3, <1>4, <1>6, <2>1 DEF TellInv, Answered, Told, Says
<1> QED
  BY <1>7, <1>8, <1>9, <1>10 DEF OtherStep

LEMMA TellNext ==
  ASSUME DeviceTypes, Entered, KnownInv, KnownInv', TellInv, [FiltersNext]_filterVars
  PROVE  TellInv'
<1> SUFFICES ASSUME ~hurried', ~misused', ~crossed' PROVE TellInv'
  BY DEF TellInv
<1>1. CASE Restart
  BY <1>1 DEF Restart, TellInv, Carried, Answered, Told, Idle
<1> QED
  BY <1>1, SignalTells, EditTells, OtherTells DEF FiltersNext, Edit, OtherStep

-----------------------------------------------------------------------------
(* The project on disk.                                                    *)
OnDisk == saved.filters = filters /\ \A i \in filters : saved.level[i] = level[i]
DiskInv == ~unsaved /\ pool.at \in {"idle", "filter", "gen", "answer"} => OnDisk

LEMMA DiskNext ==
  ASSUME DeviceTypes, DiskInv, [FiltersNext]_filterVars
  PROVE  DiskInv'
<1> USE DEF PoolAt, libobs, history
<1>1. pool \in Editing
  BY DEF DeviceTypes, ThreadTypes
<1>2. CASE Signal
  <2>1. UNCHANGED <<filters, level, saved, pool, unsaved>>
    BY <1>2 DEF Signal, ActivateAudioSource, DeactivateAudioSource, GenDeviceInfo,
           GenObsDeviceMessage, SendDeviceMessage
  <2> QED
    BY <2>1 DEF DiskInv, OnDisk
<1>3. CASE AddFilterInfo \/ AddFilter \/ SetLevel \/ RemoveNothing \/ RemoveFilterInfo
             \/ RemoveFilter \/ SetKnown \/ SetDeviceId
  <2>1. pool'.at \in {"added", "set", "save", "removed"}
    BY <1>1, <1>3 DEF AddFilterInfo, AddFilter, SetLevel, RemoveNothing, RemoveFilterInfo,
                      RemoveFilter, SetKnown, SetDeviceId, PoolIdle, Editing
  <2> QED
    BY <2>1 DEF DiskInv
<1>4. CASE SaveProject \/ SaveOther
  <2>1. ~unsaved' => saved' = [filters |-> filters, level |-> level]
    BY <1>4 DEF SaveProject, SaveOther
  <2>2. UNCHANGED <<filters, level>>
    BY <1>4 DEF SaveProject, SaveOther
  <2> QED
    BY <2>1, <2>2 DEF DiskInv, OnDisk
<1>5. CASE \/ \E k \in Kinds, l \in Levels \cup {Off} : SetDeviceValue(k, l)
           \/ UpdateInputInfo \/ GenAnswer \/ AnswerDevice
  <2>1. UNCHANGED <<filters, level, saved, unsaved>>
        /\ pool.at \in {"idle", "gen", "answer"}
    BY <1>5 DEF SetDeviceValue, UpdateInputInfo, GenAnswer, AnswerDevice
  <2> QED
    BY <2>1 DEF DiskInv, OnDisk
<1>6. CASE Initialized \/ UNCHANGED filterVars
  BY <1>6 DEF Initialized, filterVars, DiskInv, OnDisk
<1>7. CASE Restart
  BY <1>7 DEF Restart, DiskInv, OnDisk
<1> QED
  BY <1>2, <1>3, <1>4, <1>5, <1>6, <1>7 DEF FiltersNext, Edit

-----------------------------------------------------------------------------
(* A single signal: it makes the entry itself, and nobody else is there.   *)
TurnInv ==
  /\ turns = 0 => ~entry /\ \A s \in Signallers : sig[s].at = "idle"
  /\ turns <= 1 =>
       /\ \A s, t \in Signallers : sig[s].at # "idle" /\ sig[t].at # "idle" => s = t
       /\ \A s \in Signallers : /\ sig[s].at = "gen" => ~entry
                                /\ sig[s].at = "fill" => fresh

LEMMA TurnNext ==
  ASSUME DeviceTypes, KnownInv, TurnInv, UsedInTurn, [FiltersNext]_filterVars
  PROVE  TurnInv' /\ UsedInTurn'
<1> USE DEF SigAt
<1>1. sig \in [Signallers -> Signalled] /\ turns \in Nat
  BY DEF DeviceTypes, ThreadTypes
<1>2. ASSUME NEW s \in Signallers, ActivateAudioSource(s) \/ DeactivateAudioSource(s)
      PROVE  TurnInv' /\ UsedInTurn'
  <2>1. /\ sig[s].at = "idle" /\ turns' = turns + 1 /\ UNCHANGED <<entry, fresh, misused>>
        /\ \/ entry /\ sig' = [sig EXCEPT ![s] = [at |-> "fill", msg |-> sig[s].msg]]
           \/ ~entry /\ sig' = [sig EXCEPT ![s] = [at |-> "gen", msg |-> sig[s].msg]]
        /\ ~misused
    BY <1>2 DEF ActivateAudioSource, DeactivateAudioSource, table, history
  <2>2. CASE turns = 0
    BY <1>1, <2>1, <2>2 DEF TurnInv, UsedInTurn
  <2>3. CASE turns > 0
    BY <1>1, <2>1, <2>3 DEF TurnInv, UsedInTurn
  <2> QED
    BY <1>1, <2>2, <2>3
<1>3. ASSUME NEW s \in Signallers, GenDeviceInfo(s)
      PROVE  TurnInv' /\ UsedInTurn'
  <2>1. /\ sig[s].at = "gen" /\ turns' = turns /\ entry' /\ fresh'
        /\ sig' = [sig EXCEPT ![s] = [at |-> "fill", msg |-> sig[s].msg]]
        /\ misused' => entry
    BY <1>3 DEF GenDeviceInfo, counts
  <2>2. turns # 0 /\ (turns <= 1 => ~entry)
    BY <2>1 DEF TurnInv
  <2> QED
    BY <1>1, <2>1, <2>2 DEF TurnInv, UsedInTurn
<1>4. ASSUME NEW s \in Signallers, GenObsDeviceMessage(s)
      PROVE  TurnInv' /\ UsedInTurn'
  <2>1. /\ sig[s].at = "fill" /\ turns' = turns /\ entry' = entry /\ ~misused
        /\ sig' = [sig EXCEPT ![s] = [at |-> "send", msg |-> SetFiltersValue(filterinfos')]]
        /\ misused' => pool.at = "set"
        /\ hurried' = hurried
    BY <1>4 DEF GenObsDeviceMessage, counts
  <2>2. turns # 0 /\ (turns <= 1 => fresh)
    BY <2>1 DEF TurnInv
  <2>3. fresh /\ ~hurried => pool.at # "set"
    BY <2>1 DEF KnownInv, EntryInv, Unread
  <2>4. /\ \A t \in Signallers : t # s => sig'[t] = sig[t]
        /\ sig'[s].at = "send"
    BY <1>1, <2>1
  <2>5. UsedInTurn'
    BY <1>1, <2>1, <2>2, <2>3 DEF UsedInTurn
  <2>6. TurnInv'
    BY <1>1, <2>1, <2>2, <2>4 DEF TurnInv
  <2> QED
    BY <2>5, <2>6
<1>5. ASSUME NEW s \in Signallers, SendDeviceMessage(s)
      PROVE  TurnInv' /\ UsedInTurn'
  <2>1. /\ sig[s].at = "send" /\ UNCHANGED <<turns, entry, fresh, misused>>
        /\ sig' = [sig EXCEPT ![s] = [at |-> "idle", msg |-> sig[s].msg]]
        /\ ~misused
    BY <1>5 DEF SendDeviceMessage, counts, table, history
  <2> QED
    BY <1>1, <2>1 DEF TurnInv, UsedInTurn
<1>6. CASE Edit \/ Initialized \/ SaveOther \/ UNCHANGED filterVars
  <2>1. UNCHANGED <<entry, fresh, sig, turns, misused>>
    <3>1. Edit => <2>1
      BY DEF Edit, SetDeviceValue, SetDeviceId, SetKnown, AddFilterInfo, AddFilter, SetLevel,
        RemoveNothing, RemoveFilterInfo, RemoveFilter, SaveProject, UpdateInputInfo, GenAnswer,
        AnswerDevice, PoolAt, table, counts, history
    <3> QED
      BY <1>6, <3>1 DEF Initialized, SaveOther, filterVars, table, counts, history
  <2>2. misused => hurried \/ turns > 1
    BY DEF UsedInTurn
  <2>3. hurried => hurried'
    <3>1. Edit => (hurried => hurried')
      BY DEF Edit, SetDeviceValue, SetDeviceId, SetKnown, AddFilterInfo, AddFilter, SetLevel,
        RemoveNothing, RemoveFilterInfo, RemoveFilter, SaveProject, UpdateInputInfo, GenAnswer,
        AnswerDevice, history
    <3> QED
      BY <1>6, <3>1 DEF Initialized, SaveOther, filterVars, history
  <2> QED
    BY <2>1, <2>2, <2>3 DEF TurnInv, UsedInTurn
<1>7. CASE Restart
  BY <1>1, <1>7 DEF Restart, TurnInv, UsedInTurn, Idle, counts
<1> QED
  BY <1>2, <1>3, <1>4, <1>5, <1>6, <1>7 DEF FiltersNext, Signal

-----------------------------------------------------------------------------
FilterInv ==
  /\ DeviceTypes /\ Entered /\ KnownInv
  /\ AskedInv /\ TellInv /\ DiskInv
  /\ TurnInv /\ UsedInTurn

LEMMA FilterInvInit == FiltersInit => FilterInv
<1> SUFFICES ASSUME FiltersInit PROVE FilterInv
  OBVIOUS
<1>1. DeviceTypes
  BY FiltersInitTypes
<1>2. OneInv
  BY DEF FiltersInit, OneInv, One
<1>3. KnownInv
  BY <1>2 DEF FiltersInit, KnownInv, EntryInv, PoolIdle
<1>4. Entered /\ TurnInv /\ UsedInTurn
  BY DEF FiltersInit, Entered, TurnInv, UsedInTurn, Idle
<1>5. AskedInv
  BY DEF FiltersInit, AskedInv, NoFilters, PoolIdle, Done
<1>6. TellInv
  BY DEF FiltersInit, TellInv, Carried, Answered, Told, Idle
<1>7. DiskInv
  BY DEF FiltersInit, DiskInv, OnDisk
<1> QED
  BY <1>1, <1>3, <1>4, <1>5, <1>6, <1>7 DEF FilterInv

LEMMA FilterInvNext == FilterInv /\ [FiltersNext]_filterVars => FilterInv'
BY FiltersNextTypes, EnteredNext, KnownNext, AskedNext, TellNext, DiskNext, TurnNext DEF FilterInv

LEMMA FilterInvHolds == FiltersSpec => []FilterInv
BY FilterInvInit, FilterInvNext, PTL DEF FiltersSpec

(* AddFilterInfo adds without looking (OneFilterEach), but it is called    *)
(* for a kind that the entry does not know, and what the entry does not    *)
(* know is not there: for any order of signals, edits and restarts, any    *)
(* kinds and any number of filters, unless an edit was faster than the     *)
(* reading of the filters.                                                 *)
THEOREM FiltersStaySingle == FiltersSpec => []OneFilterEach
<1>1. FilterInv => OneFilterEach
  <2> SUFFICES ASSUME FilterInv, ~hurried, NEW k \in Kinds
               PROVE  Cardinality(On(k)) <= 1
    BY DEF OneFilterEach
  <2>1. \A i, j \in On(k) : i = j
    BY DEF FilterInv, KnownInv, OneInv, One, On
  <2>2. CASE On(k) = {}
    BY <2>2, FS_EmptySet
  <2>3. CASE \E i : On(k) = {i}
    <3>1. PICK i : On(k) = {i}
      BY <2>3
    <3>2. Cardinality({i}) = 1
      BY FS_Singleton
    <3> QED
      BY <3>1, <3>2
  <2> QED
    BY <2>1, <2>2, <2>3
<1> QED
  BY <1>1, FilterInvHolds, PTL

(* Wherever a level is kept it is the same (LevelsAgree): what the host    *)
(* asked for last, what the source applies, what the host was told and     *)
(* what is on disk, for any kinds, levels and signallers.                  *)
THEOREM LevelsStayOne == FiltersSpec => []LevelsAgree
<1>1. ASSUME FilterInv PROVE FiltersTypeOK
  BY <1>1, BoundsAssumption
  DEF FilterInv, DeviceTypes, FilterTypes, ThreadTypes, FlagsAreFlags, FiltersTypeOK, Signalled,
      Editing
<1>2. ASSUME FilterInv PROVE LastEditHolds
  BY <1>2 DEF FilterInv, AskedInv, LastEditHolds, Quiet, PoolIdle, Changing, Done, Says, LevelsOf
<1>3. ASSUME FilterInv PROVE HostKnowsLevels
  BY <1>3 DEF FilterInv, TellInv, Told, HostKnowsLevels, Quiet, PoolIdle, Says, LevelsOf
<1>4. ASSUME FilterInv PROVE SavedIsLive
  BY <1>4 DEF FilterInv, DiskInv, OnDisk, SavedIsLive, Quiet, PoolIdle
<1>5. FilterInv => LevelsAgree
  BY <1>1, <1>2, <1>3, <1>4 DEF LevelsAgree
<1> QED
  BY <1>5, FilterInvHolds, PTL

(* While the device is signalled once, no thread uses an entry or a filter *)
(* another has freed (UsedInTurn), whatever the host edits meanwhile, for  *)
(* any number of threads that may signal.                                  *)
THEOREM OneSignalIsSafe == FiltersSpec => []UsedInTurn
BY FilterInvHolds, PTL DEF FilterInv

-----------------------------------------------------------------------------
(* The volumes: what the float makes of a percent.                         *)
LEMMA Scales ==
  /\ \A v \in 51 .. 100 : Scale(v) = 1
  /\ \A v \in 26 .. 50 : Scale(v) = 2
  /\ \A v \in 13 .. 25 : Scale(v) = 4
  /\ \A v \in 7 .. 12 : Scale(v) = 8
  /\ \A v \in 4 .. 6 : Scale(v) = 16
  /\ \A v \in 2 .. 3 : Scale(v) = 32
  /\ Scale(1) = 64
BY DEF Scale

(* GetVolume returns the percent that was set, but for two of the 101      *)
(* volumes, of which it returns one less; and no volume loses two.         *)
LEMMA VolumeComesBack ==
  \A v \in Percents : GetVolume(v) = IF v \in {53, 59} THEN v - 1 ELSE v
<1> USE Scales DEF GetVolume, Float, Nearest, Mantissa
<1>1. \A v \in 51 .. 100 : GetVolume(v) = IF v \in {53, 59} THEN v - 1 ELSE v
  BY SMT
<1>2. \A v \in 26 .. 50 : GetVolume(v) = v
  BY SMT
<1>3. \A v \in 13 .. 25 : GetVolume(v) = v
  BY SMT
<1>4. \A v \in 7 .. 12 : GetVolume(v) = v
  BY SMT
<1>5. \A v \in 4 .. 6 : GetVolume(v) = v
  BY SMT
<1>6. \A v \in 2 .. 3 : GetVolume(v) = v
  BY SMT
<1>7. GetVolume(1) = 1 /\ GetVolume(0) = 0
  BY SMT
<1> HIDE Scales DEF GetVolume
<1> QED BY <1>1, <1>2, <1>3, <1>4, <1>5, <1>6, <1>7 DEF Percents

LEMMA VolumeStaysBack ==
  ASSUME NEW v \in Percents
  PROVE  /\ GetVolume(v) \in Percents /\ GetVolume(GetVolume(v)) = GetVolume(v)
         /\ v - GetVolume(v) \in {0, 1}
<1>1. GetVolume(v) = IF v \in {53, 59} THEN v - 1 ELSE v
  BY VolumeComesBack
<1>2. GetVolume(v) \in Percents
  BY <1>1 DEF Percents
<1>3. GetVolume(v) \notin {53, 59}
  BY <1>1 DEF Percents
<1> QED BY <1>1, <1>2, <1>3, VolumeComesBack DEF Percents

(* What a volume may have become: itself, or what is read back of it.      *)
Readings(v) == {v, GetVolume(v)}

LEMMA ReadingsAreClosed ==
  ASSUME NEW v \in Percents, NEW w \in Readings(v)
  PROVE  w \in Percents /\ GetVolume(w) \in Readings(v) /\ Readings(v) \subseteq Percents
BY VolumeStaysBack DEF Readings

LEMMA ReadingsAreNear ==
  ASSUME NEW v \in Percents, NEW a \in Readings(v), NEW b \in Readings(v)
  PROVE  Near(a, b)
<1>1. GetVolume(v) \in Percents /\ v - GetVolume(v) \in {0, 1}
  BY VolumeStaysBack
<1> QED BY <1>1 DEF Readings, Near, Percents

-----------------------------------------------------------------------------
(* The volumes: their types, in the project also.                          *)
VolumeTypes ==
  /\ VolumesTypeOK
  /\ kept.volume \in [Sources -> Percents] /\ kept.chosen \in [Devices -> Percents]
  /\ kept.added \subseteq Media /\ kept.silent \subseteq kept.added

(* A volume is what was chosen or what is read back of it; so is what the  *)
(* host was told, once it was told and nothing is on its way.              *)
SetAsChosen(d) ==
  d \notin overtaken =>
    /\ volume[d] \in Readings(chosen[d]) /\ kept.volume[d] \in Readings(kept.chosen[d])
    /\ report[d] # Unknown => report[d] = GetVolume(volume[d])
    /\ report[d] = Unknown /\ d \in lst_iodevice_ => heard[d] # Unknown
    /\ report[d] = Unknown /\ heard[d] # Unknown /\ (d = "output" \/ d \in lst_iodevice_) =>
         heard[d] \in Readings(chosen[d])
Follows(vol, m) == vol[m] \in Readings(vol["output"])
VolumeInv ==
  /\ VolumeTypes
  /\ \A d \in Devices : SetAsChosen(d)
  /\ \A m \in added \ silent : Follows(volume, m)
  /\ \A m \in kept.added \ kept.silent : Follows(kept.volume, m)

LEMMA VolumeInvAgrees == VolumeInv => VolumesAgree
<1> SUFFICES ASSUME VolumeInv PROVE VolumesAgree
  OBVIOUS
<1>1. VolumesTypeOK
  BY DEF VolumeInv, VolumeTypes
<1>2. \A d \in Devices : chosen[d] \in Percents /\ d \in Sources
  BY <1>1 DEF VolumesTypeOK, Sources
<1>3. "output" \in Devices
  BY DEF Devices
<1>4. VolumeDoesNotCreep
  <2> SUFFICES ASSUME NEW d \in Devices, d \notin overtaken PROVE Near(volume[d], chosen[d])
    BY DEF VolumeDoesNotCreep
  <2>1. volume[d] \in Readings(chosen[d]) /\ chosen[d] \in Readings(chosen[d])
    BY DEF VolumeInv, SetAsChosen, Readings
  <2> QED BY <1>2, <2>1, ReadingsAreNear
<1>5. MediaFollowsOutput
  <2> SUFFICES ASSUME NEW m \in added \ silent PROVE Near(volume[m], volume["output"])
    BY DEF MediaFollowsOutput
  <2>1. volume["output"] \in Percents
    BY <1>1, <1>2, <1>3 DEF VolumesTypeOK
  <2>2. volume[m] \in Readings(volume["output"]) /\ volume["output"] \in Readings(volume["output"])
    BY DEF VolumeInv, Follows, Readings
  <2> QED BY <2>1, <2>2, ReadingsAreNear
<1>6. HostKnowsVolume
  <2> SUFFICES ASSUME NEW d \in lst_iodevice_ \ overtaken, report[d] = Unknown
               PROVE  heard[d] # Unknown /\ Near(heard[d], volume[d])
    BY DEF HostKnowsVolume
  <2>1. d \in Devices
    BY <1>1 DEF VolumesTypeOK
  <2>2. heard[d] # Unknown /\ heard[d] \in Readings(chosen[d]) /\ volume[d] \in Readings(chosen[d])
    BY <2>1 DEF VolumeInv, SetAsChosen
  <2> QED BY <1>2, <2>1, <2>2, ReadingsAreNear
<1> QED BY <1>1, <1>4, <1>5, <1>6 DEF VolumesAgree

LEMMA VolumeInvInit == VolumesInit => VolumeInv
<1> SUFFICES ASSUME VolumesInit PROVE VolumeInv
  OBVIOUS
<1>1. PICK v \in Percents : volume = [s \in Sources |-> v]
  BY DEF VolumesInit
<1>2. Devices \subseteq Sources
  BY DEF Sources
<1>3. VolumeTypes
  BY <1>1, <1>2 DEF VolumesInit, VolumeTypes, VolumesTypeOK, NoReports
<1> QED BY <1>1, <1>2, <1>3
        DEF VolumesInit, VolumeInv, SetAsChosen, NoReports, Readings

(* A volume the host sets, itself or again.                                *)
LEMMA SetVolumeTypes ==
  ASSUME VolumesTypeOK, NEW d \in Devices, NEW v \in Percents, SetVolume(d, v)
  PROVE  /\ volume' \in [Sources -> Percents] /\ heard' \in [Devices -> Percents \cup {Unknown}]
         /\ heard' = [heard EXCEPT ![d] = v]
         /\ d \in overtaken' \/ report[d] = Unknown
         /\ overtaken \subseteq overtaken' /\ overtaken' \subseteq overtaken \cup {d}
         /\ silent' \subseteq added
         /\ \A e \in Devices : e # d => volume'[e] = volume[e]
         /\ volume'[d] = IF d = "output" \/ d \in lst_iodevice_ THEN v ELSE volume[d]
<1>1. CASE d = "input"
  <2>1. SetInputVolume(v) /\ silent' = silent
    BY <1>1 DEF SetVolume
  <2> QED BY <1>1, <2>1 DEF SetVolume, SetInputVolume, VolumesTypeOK, Sources, Devices
<1>2. CASE d = "output"
  <2>1. SetOutputVolume(v) /\ silent' = {}
    BY <1>2 DEF SetVolume
  <2> QED BY <1>2, <2>1, MediaAssumption
          DEF SetVolume, SetOutputVolume, VolumesTypeOK, Sources, Devices
<1> QED BY <1>1, <1>2 DEF Devices

LEMMA SetVolumeFollows ==
  ASSUME VolumeInv, NEW d \in Devices, NEW v \in Percents, SetVolume(d, v)
  PROVE  \A m \in added \ silent' : Follows(volume', m)
<1>1. added \subseteq Sources /\ added \cap Devices = {}
  BY MediaAssumption DEF VolumeInv, VolumeTypes, VolumesTypeOK, Sources
<1>2. CASE d = "input"
  <2>1. SetInputVolume(v) /\ silent' = silent
    BY <1>2 DEF SetVolume
  <2>2. \A s \in Sources : s # "input" => volume'[s] = volume[s]
    BY <2>1 DEF SetInputVolume, VolumeInv, VolumeTypes, VolumesTypeOK
  <2>3. \A m \in added : m # "input"
    BY <1>1 DEF Devices
  <2>4. "output" \in Sources
    BY DEF Sources, Devices
  <2> QED BY <1>1, <2>1, <2>2, <2>3, <2>4 DEF VolumeInv, Follows
<1>3. CASE d = "output"
  <2>1. SetOutputVolume(v)
    BY <1>3 DEF SetVolume
  <2>2. \A m \in added \cup {"output"} : volume'[m] = v
    BY <1>1, <2>1 DEF SetOutputVolume, Sources, Devices
  <2> QED BY <2>2 DEF Follows, Readings
<1> QED BY <1>2, <1>3 DEF Devices

LEMMA ChooseStep ==
  ASSUME VolumeInv, NEW d \in Devices, NEW v \in Volumes, Choose(d, v)
  PROVE  VolumeInv'
<1>1. v \in Percents /\ SetVolume(d, v) /\ VolumesTypeOK
  BY VolumesAssumption DEF Choose, VolumeInv, VolumeTypes
<1>2. /\ volume' \in [Sources -> Percents] /\ heard' \in [Devices -> Percents \cup {Unknown}]
      /\ heard' = [heard EXCEPT ![d] = v]
      /\ d \in overtaken' \/ report[d] = Unknown
      /\ overtaken \subseteq overtaken' /\ overtaken' \subseteq overtaken \cup {d}
      /\ silent' \subseteq added
      /\ \A e \in Devices : e # d => volume'[e] = volume[e]
      /\ volume'[d] = IF d = "output" \/ d \in lst_iodevice_ THEN v ELSE volume[d]
  BY <1>1, SetVolumeTypes
<1>3. /\ chosen' = [chosen EXCEPT ![d] = IF d = "output" \/ d \in lst_iodevice_ THEN v ELSE @]
      /\ UNCHANGED <<added, lst_iodevice_, report, kept>>
  BY DEF Choose
<1>4. VolumeTypes'
  BY <1>1, <1>2, <1>3 DEF VolumeInv, VolumeTypes, VolumesTypeOK
<1>5. SetAsChosen(d)'
  BY <1>1, <1>2, <1>3, UnknownAssumption DEF VolumeInv, SetAsChosen, Readings, VolumesTypeOK
<1>6. ASSUME NEW e \in Devices, e # d PROVE SetAsChosen(e)'
  BY <1>1, <1>2, <1>3, <1>6 DEF VolumeInv, SetAsChosen, VolumesTypeOK
<1>7. \A m \in added' \ silent' : Follows(volume', m)
  BY <1>1, <1>3, SetVolumeFollows
<1> QED BY <1>3, <1>4, <1>5, <1>6, <1>7 DEF VolumeInv, Follows

LEMMA EchoStep ==
  ASSUME VolumeInv, NEW d \in Devices, Echo(d)
  PROVE  VolumeInv'
<1> DEFINE v == heard[d]
<1>1. v \in Percents /\ SetVolume(d, v) /\ VolumesTypeOK /\ v # Unknown
  BY DEF Echo, VolumeInv, VolumeTypes, VolumesTypeOK
<1>2. /\ volume' \in [Sources -> Percents] /\ heard' \in [Devices -> Percents \cup {Unknown}]
      /\ heard' = [heard EXCEPT ![d] = v]
      /\ d \in overtaken' \/ report[d] = Unknown
      /\ overtaken \subseteq overtaken' /\ overtaken' \subseteq overtaken \cup {d}
      /\ silent' \subseteq added
      /\ \A e \in Devices : e # d => volume'[e] = volume[e]
      /\ volume'[d] = IF d = "output" \/ d \in lst_iodevice_ THEN v ELSE volume[d]
  BY <1>1, SetVolumeTypes
<1>3. UNCHANGED <<added, lst_iodevice_, report, kept, chosen>>
  BY DEF Echo
<1>4. VolumeTypes'
  BY <1>1, <1>2, <1>3 DEF VolumeInv, VolumeTypes, VolumesTypeOK
<1>5. SetAsChosen(d)'
  BY <1>1, <1>2, <1>3 DEF VolumeInv, SetAsChosen, VolumesTypeOK
<1>6. ASSUME NEW e \in Devices, e # d PROVE SetAsChosen(e)'
  BY <1>1, <1>2, <1>3, <1>6 DEF VolumeInv, SetAsChosen, VolumesTypeOK
<1>7. \A m \in added' \ silent' : Follows(volume', m)
  BY <1>1, <1>3, SetVolumeFollows
<1> QED BY <1>3, <1>4, <1>5, <1>6, <1>7 DEF VolumeInv, Follows

LEMMA AddSourceStep ==
  ASSUME VolumeInv, NEW m \in Media, AddSource(m)
  PROVE  VolumeInv'
<1> DEFINE v == IF "output" \in lst_iodevice_ THEN GetVolume(volume["output"]) ELSE 0
<1>1. VolumeTypes /\ VolumesTypeOK /\ "output" \in Sources /\ m \in Sources /\ m \notin Devices
  BY MediaAssumption DEF VolumeInv, VolumeTypes, Sources, Devices
<1>2. volume["output"] \in Percents
  BY <1>1 DEF VolumesTypeOK
<1>3. v \in Percents
  <2>1. GetVolume(volume["output"]) \in Percents
    BY <1>2, VolumeStaysBack
  <2>2. 0 \in Percents
    BY DEF Percents
  <2> QED BY <2>1, <2>2
<1>4. /\ m \notin added /\ added' = added \cup {m} /\ volume' = [volume EXCEPT ![m] = v]
      /\ silent' = IF "output" \in lst_iodevice_ THEN silent ELSE silent \cup {m}
      /\ UNCHANGED <<lst_iodevice_, report, heard, kept, chosen, overtaken>>
  BY DEF AddSource
<1> HIDE DEF v
<1>5. volume' \in [Sources -> Percents] /\ volume'[m] = v
      /\ \A s \in Sources : s # m => volume'[s] = volume[s]
  BY <1>1, <1>3, <1>4 DEF VolumesTypeOK
<1>6. VolumeTypes'
  BY <1>1, <1>4, <1>5 DEF VolumeTypes, VolumesTypeOK
<1>7. ASSUME NEW d \in Devices PROVE SetAsChosen(d)'
  <2>1. volume'[d] = volume[d]
    BY <1>1, <1>5 DEF Sources
  <2> QED BY <1>4, <2>1 DEF VolumeInv, SetAsChosen
<1>8. ASSUME NEW s \in added' \ silent' PROVE Follows(volume', s)
  <2>1. volume'["output"] = volume["output"]
    BY <1>1, <1>5 DEF Devices
  <2>2. CASE s = m
    <3>1. "output" \in lst_iodevice_
      BY <1>4, <1>8, <2>2
    <3> QED BY <1>5, <2>1, <2>2, <3>1 DEF Follows, Readings, v
  <2>3. CASE s # m
    <3>1. s \in added \ silent /\ s \in Sources
      BY <1>1, <1>4, <1>8, <2>3 DEF VolumesTypeOK, Sources
    <3> QED BY <1>5, <2>1, <2>3, <3>1 DEF VolumeInv, Follows
  <2> QED BY <2>2, <2>3
<1> QED BY <1>4, <1>6, <1>7, <1>8 DEF VolumeInv, Follows

LEMMA ReportStep ==
  ASSUME VolumeInv, NEW d \in Devices, ReadVolume(d) \/ SendIOVolumeMessage(d)
  PROVE  VolumeInv'
<1>1. VolumeTypes /\ VolumesTypeOK /\ d \in Sources
  BY DEF VolumeInv, VolumeTypes, Sources
<1>2. /\ volume[d] \in Percents /\ GetVolume(volume[d]) \in Percents
      /\ chosen[d] \in Percents /\ report[d] \in Percents \cup {Unknown}
  BY <1>1, VolumeStaysBack DEF VolumesTypeOK
<1>3. UNCHANGED <<volume, added, kept, chosen, silent, overtaken>>
      /\ \A e \in Devices : e # d => /\ report'[e] = report[e] /\ heard'[e] = heard[e]
                                    /\ (e \in lst_iodevice_' <=> e \in lst_iodevice_)
  BY <1>1 DEF ReadVolume, SendIOVolumeMessage, VolumesTypeOK
<1>4. VolumeTypes'
  BY <1>1, <1>2 DEF ReadVolume, SendIOVolumeMessage, VolumeTypes, VolumesTypeOK
<1>5. ASSUME NEW e \in Devices, e # d PROVE SetAsChosen(e)'
  BY <1>3, <1>5 DEF VolumeInv, SetAsChosen
<1>6. SetAsChosen(d)'
  <2>1. CASE ReadVolume(d)
    <3>1. report'[d] = GetVolume(volume[d]) /\ report'[d] # Unknown
      BY <1>1, <1>2, <2>1, UnknownAssumption DEF ReadVolume, VolumesTypeOK
    <3> QED BY <1>3, <3>1 DEF VolumeInv, SetAsChosen
  <2>2. CASE SendIOVolumeMessage(d)
    <3>1. heard'[d] = report[d] /\ report'[d] = Unknown /\ report[d] # Unknown
      BY <1>1, <2>2 DEF SendIOVolumeMessage, VolumesTypeOK
    <3>2. ASSUME d \notin overtaken PROVE report[d] \in Readings(chosen[d])
      <4>1. volume[d] \in Readings(chosen[d]) /\ report[d] = GetVolume(volume[d])
        BY <3>1, <3>2 DEF VolumeInv, SetAsChosen
      <4> QED BY <1>2, <4>1, ReadingsAreClosed
    <3> QED BY <1>3, <3>1, <3>2 DEF VolumeInv, SetAsChosen
  <2> QED BY <2>1, <2>2
<1> QED BY <1>3, <1>4, <1>5, <1>6 DEF VolumeInv, Follows

LEMMA VolumeInvNext == VolumeInv /\ [VolumesNext]_volumeVars => VolumeInv'
<1> SUFFICES ASSUME VolumeInv, [VolumesNext]_volumeVars PROVE VolumeInv'
  OBVIOUS
<1>1. CASE SaveVolumes
  <2>1. /\ kept' = [volume |-> volume, added |-> added, chosen |-> chosen, silent |-> silent]
        /\ UNCHANGED <<volume, added, lst_iodevice_, report, heard, chosen, silent, overtaken>>
    BY <1>1 DEF SaveVolumes
  <2>2. /\ kept'.volume = volume /\ kept'.added = added
        /\ kept'.chosen = chosen /\ kept'.silent = silent
    BY <2>1
  <2> QED BY <2>1, <2>2 DEF VolumeInv, VolumeTypes, VolumesTypeOK, SetAsChosen, Follows
<1>2. CASE RestartVolumes
  BY <1>2 DEF RestartVolumes, VolumeInv, VolumeTypes, VolumesTypeOK, SetAsChosen, Follows,
              NoReports
<1>3. CASE UNCHANGED volumeVars
  BY <1>3 DEF volumeVars, VolumeInv, VolumeTypes, VolumesTypeOK, SetAsChosen, Follows
<1> QED BY <1>1, <1>2, <1>3, ChooseStep, EchoStep, AddSourceStep, ReportStep DEF VolumesNext

(* The volumes agree within one percent (VolumesAgree): chosen, set on the *)
(* device and on the added sources, told to the host, kept over restarts;  *)
(* for any number of sources and of volumes set or sent back, although     *)
(* each passes through a float and GetVolume truncates.                    *)
THEOREM VolumesStayTogether == VolumesSpec => []VolumesAgree
BY VolumeInvInit, VolumeInvNext, VolumeInvAgrees, PTL DEF VolumesSpec
=============================================================================
