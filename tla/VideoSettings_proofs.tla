------------------------ MODULE VideoSettings_proofs ------------------------
(***************************************************************************)
(* What holds of the canvas and the frame rate for any sets of canvases    *)
(* and rates and any number of changes.  Sound says what the two threads   *)
(* carry with them: the UI thread the canvas it has saved, the pool the    *)
(* settings it has read, which are still libobs' unless it will find them  *)
(* stale.                                                                  *)
(***************************************************************************)
EXTENDS VideoSettings, TLAPS

USE DEF UiAt, PoolAt, Change, canvas, history

(* TypeOK in parts that the provers take one by one.                       *)
CanvasTypes ==
  /\ config \in Canvases /\ canvas_size_ \in Canvases /\ base_window_size_ \in Canvases
  /\ hostCanvas \in Canvases /\ scaled \in Canvases
FlagTypes ==
  /\ running \in BOOLEAN /\ up \in BOOLEAN /\ active \in BOOLEAN
  /\ refused \in BOOLEAN /\ silent \in BOOLEAN /\ stale \in BOOLEAN
  /\ owed \in BOOLEAN
RateTypes == changes \in 0 .. MaxChanges /\ fpsnum_ \in AllRates \cup {0}
OviTypes ==
  /\ ovi \in Settings
  /\ ui \in [at : UiSteps, ovi : Settings] /\ pool \in [at : PoolSteps, ovi : Settings]

LEMMA TypeParts == TypeOK <=> CanvasTypes /\ FlagTypes /\ RateTypes /\ OviTypes
BY DEF TypeOK, CanvasTypes, FlagTypes, RateTypes, OviTypes

LEMMA RatesAreNumbers == AllRates \subseteq Nat /\ DefaultRate \in AllRates \ {0}
BY RateAssumption DEF AllRates, DefaultRate

LEMMA InitTypes == Init => CanvasTypes /\ FlagTypes /\ RateTypes /\ OviTypes
<1> SUFFICES ASSUME Init PROVE CanvasTypes /\ FlagTypes /\ RateTypes /\ OviTypes
  OBVIOUS
<1>1. CanvasTypes
  BY DEF Init, CanvasTypes, Canvases
<1>2. FlagTypes
  BY DEF Init, FlagTypes
<1>3. RateTypes
  BY BoundAssumption DEF Init, RateTypes
<1>4. ovi \in Settings
  BY RatesAreNumbers DEF Init, Settings, Canvases
<1>5. OviTypes
  BY <1>4 DEF Init, OviTypes, UiSteps, PoolSteps
<1> QED BY <1>1, <1>2, <1>3, <1>5

LEMMA CanvasTypeStep == CanvasTypes /\ [Next]_vars => CanvasTypes'
<1> SUFFICES ASSUME CanvasTypes, [Next]_vars PROVE CanvasTypes'
  OBVIOUS
<1> USE DEF CanvasTypes
<1>1. ASSUME NEW size \in Canvases, UpdatePreviewCanvas(size) PROVE CanvasTypes'
  BY <1>1 DEF UpdatePreviewCanvas
<1>2. ASSUME NEW fps \in Rates, ObsFpsInfo(fps) PROVE CanvasTypes'
  BY <1>2 DEF ObsFpsInfo
<1>3. CASE LiveOutputStart \/ LiveOutputStop
  BY <1>3 DEF LiveOutputStart, LiveOutputStop
<1>4. CASE Restart
  BY <1>4 DEF Restart, Started
<1>5. CASE UiThread
  BY <1>5 DEF UiThread, RefuseCanvas, AcceptCanvas, ResetCanvas, ResetCanvasFails, RetryCanvas,
     OnPreviewChange
<1>6. CASE PoolThread
  BY <1>6 DEF PoolThread, ReadSettings, RefuseRate, GiveRateUp, AcceptRate, SetVideoFPS,
     SetVideoFPSFails
<1>7. CASE UNCHANGED vars
  BY <1>7 DEF vars
<1> QED BY <1>1, <1>2, <1>3, <1>4, <1>5, <1>6, <1>7 DEF Next

LEMMA FlagTypeStep == FlagTypes /\ [Next]_vars => FlagTypes'
<1> SUFFICES ASSUME FlagTypes, [Next]_vars PROVE FlagTypes'
  OBVIOUS
<1> USE DEF FlagTypes
<1>1. ASSUME NEW size \in Canvases, UpdatePreviewCanvas(size) PROVE FlagTypes'
  BY <1>1 DEF UpdatePreviewCanvas
<1>2. ASSUME NEW fps \in Rates, ObsFpsInfo(fps) PROVE FlagTypes'
  BY <1>2 DEF ObsFpsInfo
<1>3. CASE LiveOutputStart \/ LiveOutputStop
  BY <1>3 DEF LiveOutputStart, LiveOutputStop
<1>4. CASE Restart
  <2>1. (config \in Sizes) \in BOOLEAN
    OBVIOUS
  <2> QED BY <1>4, <2>1, Zenon DEF Restart, Started
<1>5. CASE UiThread
  <2>1. (Wanted(ui.ovi.fps) # ui.ovi.fps) \in BOOLEAN
    OBVIOUS
  <2>2. CASE RefuseCanvas \/ AcceptCanvas \/ ResetCanvasFails \/ OnPreviewChange
    BY <2>2 DEF RefuseCanvas, AcceptCanvas, ResetCanvasFails, OnPreviewChange
  <2>3. CASE ResetCanvas
    BY <2>1, <2>3, Zenon DEF ResetCanvas, InstallUi
  <2>4. CASE RetryCanvas
    BY <2>1, <2>4, Zenon DEF RetryCanvas, InstallUi
  <2> QED BY <1>5, <2>2, <2>3, <2>4 DEF UiThread
<1>6. CASE PoolThread
  <2>1. (ovi # pool.ovi) \in BOOLEAN
    OBVIOUS
  <2> QED
    BY <1>6, <2>1, Zenon DEF PoolThread, ReadSettings, RefuseRate, GiveRateUp, AcceptRate,
       SetVideoFPS, SetVideoFPSFails
<1>7. CASE UNCHANGED vars
  BY <1>7 DEF vars
<1> QED BY <1>1, <1>2, <1>3, <1>4, <1>5, <1>6, <1>7 DEF Next

LEMMA RateTypeStep == RateTypes /\ OviTypes /\ [Next]_vars => RateTypes'
<1> SUFFICES ASSUME RateTypes, OviTypes, [Next]_vars PROVE RateTypes'
  OBVIOUS
<1> USE BoundAssumption DEF RateTypes
<1>1. ASSUME NEW size \in Canvases, UpdatePreviewCanvas(size) PROVE RateTypes'
  BY <1>1 DEF UpdatePreviewCanvas
<1>2. ASSUME NEW fps \in Rates, ObsFpsInfo(fps) PROVE RateTypes'
  BY <1>2 DEF ObsFpsInfo, AllRates
<1>3. CASE LiveOutputStart \/ LiveOutputStop
  BY <1>3 DEF LiveOutputStart, LiveOutputStop
<1>4. CASE Restart
  BY <1>4 DEF Restart, Started
<1>5. CASE UiThread
  BY <1>5 DEF UiThread, RefuseCanvas, AcceptCanvas, ResetCanvas, ResetCanvasFails, RetryCanvas,
     OnPreviewChange
<1>6. CASE PoolThread
  <2>1. pool.ovi.fps \in AllRates
    BY DEF OviTypes, Settings
  <2> QED
    BY <1>6, <2>1 DEF PoolThread, ReadSettings, RefuseRate, GiveRateUp, AcceptRate, SetVideoFPS,
       SetVideoFPSFails
<1>7. CASE UNCHANGED vars
  BY <1>7 DEF vars
<1> QED BY <1>1, <1>2, <1>3, <1>4, <1>5, <1>6, <1>7 DEF Next

(* The pool changes the rate only to one that was asked for.               *)
RateWanted == pool.at \in {"check", "init"} => fpsnum_ # 0

LEMMA RateWantedStep == RateWanted /\ OviTypes /\ [Next]_vars => RateWanted'
<1> SUFFICES ASSUME RateWanted, OviTypes, [Next]_vars PROVE RateWanted'
  OBVIOUS
<1> USE DEF RateWanted, OviTypes
<1>1. ASSUME NEW size \in Canvases, UpdatePreviewCanvas(size) PROVE RateWanted'
  BY <1>1 DEF UpdatePreviewCanvas
<1>2. ASSUME NEW fps \in Rates, ObsFpsInfo(fps) PROVE RateWanted'
  BY <1>2 DEF ObsFpsInfo
<1>3. CASE LiveOutputStart \/ LiveOutputStop
  BY <1>3 DEF LiveOutputStart, LiveOutputStop
<1>4. CASE Restart
  BY <1>4 DEF Restart, Started
<1>5. CASE UiThread
  BY <1>5 DEF UiThread, RefuseCanvas, AcceptCanvas, ResetCanvas, ResetCanvasFails, RetryCanvas,
     OnPreviewChange
<1>6. CASE PoolThread
  BY <1>6 DEF PoolThread, ReadSettings, RefuseRate, GiveRateUp, AcceptRate, SetVideoFPS,
     SetVideoFPSFails, Wanted
<1>7. CASE UNCHANGED vars
  BY <1>7 DEF vars
<1> QED BY <1>1, <1>2, <1>3, <1>4, <1>5, <1>6, <1>7 DEF Next

LEMMA OviTypeStep ==
  CanvasTypes /\ RateTypes /\ RateWanted /\ OviTypes /\ [Next]_vars => OviTypes'
<1> SUFFICES ASSUME CanvasTypes, RateTypes, RateWanted, OviTypes, [Next]_vars PROVE OviTypes'
  OBVIOUS
<1> USE RatesAreNumbers DEF OviTypes, UiSteps, PoolSteps
<1>1. ASSUME NEW size \in Canvases, UpdatePreviewCanvas(size) PROVE OviTypes'
  <2>1. [size |-> size, fps |-> Wanted(DefaultRate)] \in Settings
    BY DEF Settings, Wanted, RateTypes
  <2>2. ui' = [at |-> "check", ovi |-> [size |-> size, fps |-> Wanted(DefaultRate)]]
        /\ ovi' = ovi /\ pool' = pool
    BY <1>1 DEF UpdatePreviewCanvas
  <2> QED BY <2>1, <2>2
<1>2. ASSUME NEW fps \in Rates, ObsFpsInfo(fps) PROVE OviTypes'
  BY <1>2 DEF ObsFpsInfo
<1>3. CASE LiveOutputStart \/ LiveOutputStop
  BY <1>3 DEF LiveOutputStart, LiveOutputStop
<1>4. CASE Restart
  <2>1. [size |-> config, fps |-> DefaultRate] \in Settings
    BY DEF Settings, CanvasTypes
  <2> QED BY <1>4, <2>1 DEF Restart, Started
<1>5. CASE UiThread
  BY <1>5 DEF UiThread, RefuseCanvas, AcceptCanvas, ResetCanvas, ResetCanvasFails, RetryCanvas,
     OnPreviewChange, InstallUi
<1>6. CASE PoolThread
  <2>1. fpsnum_ \in AllRates \ {0} => [pool.ovi EXCEPT !.fps = fpsnum_] \in Settings
    BY DEF Settings
  <2>2. CASE SetVideoFPS
    BY <2>1, <2>2 DEF SetVideoFPS, RateTypes, RateWanted
  <2>3. CASE ~SetVideoFPS
    BY <1>6, <2>3 DEF PoolThread, ReadSettings, RefuseRate, GiveRateUp, AcceptRate,
       SetVideoFPSFails
  <2> QED BY <2>2, <2>3
<1>7. CASE UNCHANGED vars
  BY <1>7 DEF vars
<1> QED BY <1>1, <1>2, <1>3, <1>4, <1>5, <1>6, <1>7 DEF Next

Types == CanvasTypes /\ FlagTypes /\ RateTypes /\ OviTypes /\ RateWanted

LEMMA TypesInit == Init => Types
BY InitTypes DEF Types, Init, RateWanted

LEMMA TypesStep == Types /\ [Next]_vars => Types'
BY CanvasTypeStep, FlagTypeStep, RateTypeStep, OviTypeStep, RateWantedStep DEF Types

(* Every change keeps to the types; in particular no rate of zero reaches  *)
(* libobs, because a rate that was not asked for is never set.             *)
THEOREM TypeCorrect == Spec => []TypeOK
<1>1. Types => TypeOK
  BY TypeParts DEF Types
<1> QED
  BY TypesInit, TypesStep, <1>1, PTL DEF Spec

-----------------------------------------------------------------------------
(* What the threads carry.  The last conjunct is RateAgrees without regard *)
(* to the UI thread.                                                       *)
Carried ==
  /\ canvas_size_ = config
  /\ ui.at # "idle" => ui.ovi.size = config
Agreed ==
  running /\ ui.at = "idle" /\ ~refused /\ ~stale =>
    ovi.size = config /\ base_window_size_ = config /\ hostCanvas = config
Told ==
  /\ running /\ ~stale /\ ~silent => base_window_size_ = ovi.size /\ hostCanvas = ovi.size
  /\ running /\ ~owed => scaled = base_window_size_
Rated == running /\ pool.at = "idle" /\ ~stale => fpsnum_ \in {0, ovi.fps}

Sound == Carried /\ Agreed /\ Told /\ Rated

LEMMA SoundInit == Init => Sound
BY DEF Init, Sound, Carried, Agreed, Told, Rated

LEMMA SoundStep == Types /\ Sound /\ [Next]_vars => Sound'
<1> SUFFICES ASSUME Types, Sound, [Next]_vars PROVE Sound'
  OBVIOUS
<1> USE DEF Types, FlagTypes, OviTypes, Settings, Sound, Carried, Agreed, Told, Rated
<1>1. ASSUME NEW size \in Canvases, UpdatePreviewCanvas(size) PROVE Sound'
  BY <1>1 DEF UpdatePreviewCanvas
<1>2. ASSUME NEW fps \in Rates, ObsFpsInfo(fps) PROVE Sound'
  BY <1>2 DEF ObsFpsInfo
<1>3. CASE LiveOutputStart \/ LiveOutputStop
  BY <1>3 DEF LiveOutputStart, LiveOutputStop
<1>4. CASE Restart
  BY <1>4 DEF Restart, Started
<1>5. CASE UiThread
  <2>1. CASE RefuseCanvas \/ AcceptCanvas \/ ResetCanvasFails \/ OnPreviewChange
    BY <2>1 DEF RefuseCanvas, AcceptCanvas, ResetCanvasFails, OnPreviewChange
  <2>2. CASE ResetCanvas
    <3> USE DEF CanvasTypes
    <3>1. ovi' = ui.ovi /\ base_window_size_' = config /\ hostCanvas' = config
          /\ config' = config /\ canvas_size_' = canvas_size_ /\ ui'.at = "idle"
          /\ fpsnum_' = fpsnum_ /\ pool' = pool
      BY <2>2 DEF ResetCanvas, InstallUi
    <3>2. stale' = (Wanted(ui.ovi.fps) # ui.ovi.fps) /\ owed' = TRUE
      BY <2>2 DEF ResetCanvas, InstallUi
    <3>3. ui.ovi.size = config /\ canvas_size_ = config
      BY <2>2 DEF ResetCanvas
    <3>4. ovi'.size = config
      BY <3>1, <3>3
    <3>5. Carried' /\ Agreed' /\ Told'
      BY <3>1, <3>2, <3>3, <3>4
    <3>6. ~stale' => Wanted(ui.ovi.fps) = ui.ovi.fps
      BY <3>2, Zenon
    <3>7. Rated'
      BY <3>1, <3>6 DEF Wanted
    <3> QED BY <3>5, <3>7
  <2>3. CASE RetryCanvas
    <3>1. refused' = TRUE /\ config' = config /\ canvas_size_' = canvas_size_
          /\ base_window_size_' = base_window_size_ /\ hostCanvas' = hostCanvas
          /\ ui'.at = "idle" /\ fpsnum_' = fpsnum_ /\ pool' = pool /\ running' = running
          /\ scaled' = scaled /\ owed' = owed
      BY <2>3 DEF RetryCanvas
    <3>2. Carried' /\ Agreed'
      BY <3>1
    <3>3. CASE InstallUi /\ silent' = TRUE
      <4>1. ovi' = ui.ovi /\ (~stale' => Wanted(ui.ovi.fps) = ui.ovi.fps)
        BY <3>3, Zenon DEF InstallUi
      <4>2. Told'
        BY <3>1, <3>3
      <4>3. Rated'
        BY <3>1, <4>1 DEF Wanted
      <4> QED BY <3>2, <4>2, <4>3
    <3>4. CASE UNCHANGED <<ovi, silent, stale>>
      BY <3>1, <3>2, <3>4
    <3> QED BY <2>3, <3>3, <3>4 DEF RetryCanvas
  <2> QED BY <1>5, <2>1, <2>2, <2>3 DEF UiThread
<1>6. CASE PoolThread
  <2>1. CASE ReadSettings \/ AcceptRate
    BY <2>1 DEF ReadSettings, AcceptRate, Wanted
  <2>2. CASE RefuseRate \/ SetVideoFPSFails
    BY <2>2 DEF RefuseRate, SetVideoFPSFails, GiveRateUp
  <2>3. CASE SetVideoFPS
    BY <2>3 DEF SetVideoFPS
  <2> QED BY <1>6, <2>1, <2>2, <2>3 DEF PoolThread
<1>7. CASE UNCHANGED vars
  BY <1>7 DEF vars
<1> QED BY <1>1, <1>2, <1>3, <1>4, <1>5, <1>6, <1>7 DEF Next

(* Between two changes all copies of the canvas are one, but for a refused *)
(* one and an overlap.                                                     *)
THEOREM CopiesAgree == Spec => []CanvasAgrees
<1>1. Sound => CanvasAgrees
  BY DEF Sound, Carried, Agreed, CanvasAgrees
<1> QED
  BY TypesInit, TypesStep, SoundInit, SoundStep, <1>1, PTL DEF Spec

(* A refused canvas does not reach the preview or the host.                *)
THEOREM RefusalStaysOut == Spec => []RefusedCanvasStaysOut
<1>1. Sound => RefusedCanvasStaysOut
  BY DEF Sound, Told, RefusedCanvasStaysOut
<1> QED
  BY TypesInit, TypesStep, SoundInit, SoundStep, <1>1, PTL DEF Spec

(* The rate asked for is the rate there is, when both threads are idle.    *)
THEOREM RateIsAsked == Spec => []RateAgrees
<1>1. Sound => RateAgrees
  BY DEF Sound, Rated, RateAgrees
<1> QED
  BY TypesInit, TypesStep, SoundInit, SoundStep, <1>1, PTL DEF Spec

(* The mouse is mapped by the canvas that is drawn, once the host has asked *)
(* for the scale of the one it was told of.                                *)
THEOREM ScaleFollows == Spec => []MouseMapsPicture
<1>1. Sound => MouseMapsPicture
  BY DEF Sound, Told, MouseMapsPicture
<1> QED
  BY TypesInit, TypesStep, SoundInit, SoundStep, <1>1, PTL DEF Spec

(* No step of SetVideoFPS changes the canvas unless it was changed         *)
(* meanwhile.                                                              *)
THEOREM RateLeavesCanvas == Spec => RateKeepsCanvas
<1> DEFINE Kept ==
      pool' # pool /\ running' /\ changes' = changes => ovi'.size = ovi.size \/ stale'
<1>1. Types /\ [Next]_vars => [Kept]_vars
  <2> SUFFICES ASSUME Types, Next, pool' # pool, changes' = changes
               PROVE ovi'.size = ovi.size \/ stale'
    OBVIOUS
  <2> USE DEF Types, RateTypes, OviTypes, Settings
  <2>1. PoolThread
    BY DEF Next, UpdatePreviewCanvas, ObsFpsInfo, LiveOutputStart, LiveOutputStop, Restart,
       UiThread, RefuseCanvas, AcceptCanvas, ResetCanvas, ResetCanvasFails, RetryCanvas,
       OnPreviewChange
  <2> QED
    BY <2>1 DEF PoolThread, ReadSettings, RefuseRate, GiveRateUp, AcceptRate, SetVideoFPS,
       SetVideoFPSFails
<1> QED
  BY TypesInit, TypesStep, <1>1, PTL DEF Spec, RateKeepsCanvas

(* The four together: between changes every copy of the settings agrees.  *)
THEOREM CopiesOfSettingsAgree == Spec => []SettingsAgree
<1>1. CanvasAgrees /\ RefusedCanvasStaysOut /\ RateAgrees /\ MouseMapsPicture => SettingsAgree
  BY DEF SettingsAgree
<1> QED
  BY CopiesAgree, RefusalStaysOut, RateIsAsked, ScaleFollows, <1>1, PTL

(* A change of the canvas that libobs has admitted is over before the UI   *)
(* thread can start the output.                                            *)
NotLive == ui.at \in {"init", "retry"} => ~active

LEMMA NotLiveStep == OviTypes /\ NotLive /\ [Next]_vars => NotLive'
<1> SUFFICES ASSUME OviTypes, NotLive, [Next]_vars PROVE NotLive'
  OBVIOUS
<1> USE DEF NotLive, OviTypes
<1>1. ASSUME NEW size \in Canvases, UpdatePreviewCanvas(size) PROVE NotLive'
  BY <1>1 DEF UpdatePreviewCanvas
<1>2. ASSUME NEW fps \in Rates, ObsFpsInfo(fps) PROVE NotLive'
  BY <1>2 DEF ObsFpsInfo
<1>3. CASE LiveOutputStart \/ LiveOutputStop \/ Restart
  BY <1>3 DEF LiveOutputStart, LiveOutputStop, Restart, Started
<1>4. CASE UiThread
  BY <1>4 DEF UiThread, RefuseCanvas, AcceptCanvas, ResetCanvas, ResetCanvasFails, RetryCanvas,
     OnPreviewChange
<1>5. CASE PoolThread
  BY <1>5 DEF PoolThread, ReadSettings, RefuseRate, GiveRateUp, AcceptRate, SetVideoFPS,
     SetVideoFPSFails
<1>6. CASE UNCHANGED vars
  BY <1>6 DEF vars
<1> QED BY <1>1, <1>2, <1>3, <1>4, <1>5, <1>6 DEF Next

(* While an output is active the settings change only by a change of the   *)
(* rate that had looked at the outputs before.                             *)
THEOREM LiveVideoIsLeftAlone == Spec => NoChangeWhileActive
<1> DEFINE Kept == active /\ active' /\ ovi' # ovi => pool.at = "init" /\ pool'.at = "idle"
<1>1. Types /\ NotLive /\ [Next]_vars => [Kept]_vars
  <2> SUFFICES ASSUME Types, NotLive, Next, active, active', ovi' # ovi
               PROVE pool.at = "init" /\ pool'.at = "idle"
    OBVIOUS
  <2> USE DEF Types, OviTypes, NotLive
  <2>1. SetVideoFPS
    BY DEF Next, UpdatePreviewCanvas, ObsFpsInfo, LiveOutputStart, LiveOutputStop, Restart,
       Started, UiThread, RefuseCanvas, AcceptCanvas, ResetCanvas, ResetCanvasFails,
       RetryCanvas, OnPreviewChange, PoolThread, ReadSettings, RefuseRate, GiveRateUp,
       AcceptRate, SetVideoFPSFails
  <2> QED BY <2>1 DEF SetVideoFPS
<1>2. Init => NotLive
  BY DEF Init, NotLive
<1>3. Types => OviTypes
  BY DEF Types
<1> QED
  BY TypesInit, TypesStep, NotLiveStep, <1>1, <1>2, <1>3, PTL DEF Spec, NoChangeWhileActive

(* Both: neither change touches what is not its own.                       *)
THEOREM ChangesStayApart == Spec => ChangesKeepTheRest
BY RateLeavesCanvas, LiveVideoIsLeftAlone DEF ChangesKeepTheRest
=============================================================================
